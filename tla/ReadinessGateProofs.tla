------------------------ MODULE ReadinessGateProofs ------------------------
(***************************************************************************)
(* The controllers, the webhook and the API server together implement      *)
(* ReadinessGate: every step of PodReconciler, seen through the state of   *)
(* the gates and the outcomes about to be recorded, is a step of           *)
(* ReadinessGate or none.                                                  *)
(***************************************************************************)
EXTENDS PodVersionProofs

Outcomes == {"succeeded", "failed", "interrupted"}

(* A reconcile about to write the condition has an outcome to write. *)
OutcomeInv == \A w \in Workers : pc[w] = "update" => result[w] \in Outcomes

GateInv == IInv /\ OutcomeInv

(* The outcome of w is about to be written for the stored version of k. *)
Offers(w, k) ==
    /\ pc[w] = "update"
    /\ snap[w].name = k
    /\ snap[w].rv = store[k].rv

(* What a step does to worker v, seen from outside: nothing. *)
SameWorker(v) == pc'[v] = pc[v] /\ snap'[v] = snap[v] /\ result'[v] = result[v]

(* A reconcile comes to its update, and nothing else happens. *)
Reaches(w) ==
    /\ UNCHANGED apiVars
    /\ pc[w] # "update"
    /\ pc'[w] = "update"
    /\ result'[w] \in Outcomes
    /\ \A v \in Workers : v # w => SameWorker(v)

-----------------------------------------------------------------------------
(* A worker at its update was there before, or comes to it in this step. *)
LEMMA AtUpdate ==
    ASSUME IInv, [Next]_vars, NEW w \in Workers, pc'[w] = "update"
    PROVE  SameWorker(w) \/ Reaches(w)
<1> USE DEF IInv, Typed, TypeOK, Outcomes
<1>1. ASSUME UNCHANGED workerVars PROVE SameWorker(w)
    BY <1>1 DEF workerVars, SameWorker
<1>2. ASSUME NEW k \in Pods, Environment(k) PROVE SameWorker(w)
    BY <1>1, <1>2 DEF Environment, CreatePod, SchedulePod, KubeletReport, DeletePod
<1>3. ASSUME NEW c \in Controllers, NEW k \in Pods,
             Observe(c, k) \/ RequeueFires(c, k)
      PROVE  SameWorker(w)
    BY <1>1, <1>3 DEF Observe, RequeueFires
<1>4. ASSUME NEW v \in Workers, NEW p \in PodVersion, Begin(v, p), pc[v] # "update",
             UNCHANGED apiVars, \A u \in Workers : u # v => snap'[u] = snap[u]
      PROVE  SameWorker(w) \/ Reaches(w)
    <2>1. \A u \in Workers : u # v => SameWorker(u)
        BY <1>4 DEF Begin, SameWorker
    <2>2. p.cfg \in {"invalid", "annotation", "warmupconfig"}
        BY DEF PodVersion
    <2>3. pc'[v] = "update" => result'[v] = "failed"
        BY <1>4, <2>2 DEF Begin
    <2> QED BY <1>4, <2>1, <2>3 DEF Reaches
<1>5. ASSUME NEW v \in Workers, NEW k \in Pods, Take(v, k)
      PROVE  SameWorker(w) \/ Reaches(w)
    <2>1. CASE ReconcileSkip(v, k) \/ ReconcileRequeue(v, k)
        BY <1>1, <2>1 DEF ReconcileSkip, ReconcileRequeue
    <2>2. CASE ReconcileAdmit(v, k) /\ MaxConcurrentWarmups > 0
        BY <2>2 DEF ReconcileAdmit, SameWorker
    <2>3. CASE ReconcileAdmit(v, k) /\ ~(MaxConcurrentWarmups > 0)
        <3> DEFINE p == cache[CtrlOf[v]][k]
        <3>1. /\ Begin(v, p)
              /\ pc[v] # "update"
              /\ UNCHANGED apiVars
              /\ p # None
            BY <2>3 DEF ReconcileAdmit, Due
        <3>2. p \in PodVersion BY <3>1, DeploymentAssumption
        <3>3. \A u \in Workers : u # v => snap'[u] = snap[u]
            BY <2>3 DEF ReconcileAdmit
        <3> QED BY <1>4, <3>1, <3>2, <3>3
    <2> QED BY <1>5, <2>1, <2>2, <2>3 DEF Take
<1>6. ASSUME NEW v \in Workers, Return(v) PROVE SameWorker(w)
    BY <1>6 DEF Return, SameWorker
<1>7. ASSUME NEW v \in Workers, Proceed(v) PROVE SameWorker(w) \/ Reaches(w)
    <2>1. CASE Acquire(v)
        <3>1. snap[v] \in PodVersion BY <2>1 DEF Acquire, BusyInv
        <3> QED BY <1>4, <2>1, <3>1 DEF Acquire
    <2>2. CASE AcquireCancelled(v)
        BY <2>2 DEF AcquireCancelled, SameWorker
    <2>3. CASE LookupFound(v)
        BY <2>3 DEF LookupFound, SameWorker
    <2>4. CASE LookupFails(v)
        BY <2>4 DEF LookupFails, SameWorker, Reaches
    <2>5. CASE FinishWarmup(v)
        <3>1. PICK r \in Outcomes : result' = [result EXCEPT ![v] = r]
            BY <2>5 DEF FinishWarmup
        <3> QED BY <2>5, <3>1 DEF FinishWarmup, SameWorker, Reaches
    <2>6. CASE UpdateOK(v) \/ UpdateRejected(v)
        BY <1>6, <2>6 DEF UpdateOK, UpdateRejected
    <2> QED BY <1>7, <2>1, <2>2, <2>3, <2>4, <2>5, <2>6 DEF Proceed
<1>8. ASSUME NEW c \in Controllers, FreshProcess(c) PROVE SameWorker(w)
    BY <1>8 DEF FreshProcess, SameWorker
<1>9. CASE Fault
    <2>1. ASSUME NEW v \in Workers, UpdateLost(v) \/ UpdateUnacked(v)
          PROVE  SameWorker(w)
        BY <1>6, <2>1 DEF UpdateLost, UpdateUnacked
    <2>2. ASSUME NEW v \in Workers, NEW k \in Pods, ReconcileGetError(v, k)
          PROVE  SameWorker(w)
        BY <1>1, <2>2 DEF ReconcileGetError
    <2>3. ASSUME NEW c \in Controllers, Stop(c) \/ Crash(c) PROVE SameWorker(w)
        BY <1>1, <1>8, <2>3 DEF Stop, Crash
    <2> QED BY <1>9, <2>1, <2>2, <2>3 DEF Fault
<1>10. CASE UNCHANGED vars
    BY <1>1, <1>10 DEF vars
<1> QED BY <1>2, <1>3, <1>5, <1>7, <1>8, <1>9, <1>10 DEF Next, Exit

LEMMA GateInvStep == GateInv /\ [Next]_vars => GateInv'
<1> SUFFICES ASSUME GateInv, [Next]_vars PROVE GateInv' OBVIOUS
<1>1. IInv' BY IInvStep DEF GateInv
<1>2. ASSUME NEW w \in Workers, pc'[w] = "update" PROVE result'[w] \in Outcomes
    BY <1>2, AtUpdate DEF GateInv, OutcomeInv, SameWorker, Reaches
<1> QED BY <1>1, <1>2 DEF GateInv, OutcomeInv

LEMMA GateInvInit == Init => GateInv
<1> SUFFICES ASSUME Init PROVE GateInv OBVIOUS
<1>1. OutcomeInv BY DEF Init, OutcomeInv
<1> QED BY <1>1, IInvInit DEF GateInv

-----------------------------------------------------------------------------
(* What is pending for a gate, element by element. *)
LEMMA PendingIs ==
    ASSUME NEW k \in Pods, NEW r
    PROVE  r \in GatePending(k) <=>
               Unfinished(store[k]) /\ \E w \in Workers : Offers(w, k) /\ r = result[w]
BY DEF GatePending, Offers

(* The state of a gate depends on the stored version alone. *)
LEMMA StateKept ==
    ASSUME NEW k \in Pods, store'[k] = store[k]
    PROVE  /\ GateState(k)' = GateState(k)
           /\ (Unfinished(store[k])' <=> Unfinished(store[k]))
BY DEF GateState, Unfinished, isConditionTrue, hasReadinessGate

(* The same, after a step. *)
LEMMA PendingWillBe ==
    ASSUME NEW k \in Pods, NEW r
    PROVE  r \in GatePending(k)' <=>
               /\ Unfinished(store[k])'
               /\ \E w \in Workers : Offers(w, k)' /\ r = result'[w]
BY DEF GatePending, Offers

LEMMA PendingOutcomes ==
    ASSUME OutcomeInv', NEW k \in Pods
    PROVE  GatePending(k)' \subseteq Outcomes
BY PendingWillBe DEF OutcomeInv, Offers

(* A version newly stored has had no attempts yet. *)
LEMMA NewVersionPends ==
    ASSUME IInv, NEW k \in Pods, NEW q, Put(k, q), q \in PodVersion,
           UNCHANGED workerVars
    PROVE  GatePending(k)' = {}
<1> SUFFICES ASSUME NEW w \in Workers, Offers(w, k)' PROVE FALSE
    BY DEF GatePending, Offers
<1>1. store'[k].rv = rev[k] + 1
    BY DEF Put, IInv, Typed, TypeOK, PodVersion
<1>2. pc[w] = "update" /\ snap[w].name = k /\ snap[w].rv = store'[k].rv
    BY DEF Offers, workerVars
<1>3. snap[w] # None /\ snap[w] \in PodVersion /\ snap[w].rv <= rev[k]
    BY <1>2 DEF IInv, Typed, TypeOK, BusyInv, VersionInv, WorkerInv, CopyOf
<1> QED BY <1>1, <1>2, <1>3 DEF IInv, Typed, TypeOK, PodVersion

(* A step that writes only pod k leaves the other gates alone. *)
LEMMA OtherGates ==
    ASSUME NEW k \in Pods, NEW j \in Pods, j # k, store'[j] = store[j],
           UNCHANGED workerVars
    PROVE  GateState(j)' = GateState(j) /\ GatePending(j)' = GatePending(j)
<1>1. Unfinished(store[j])' <=> Unfinished(store[j]) BY StateKept
<1>2. \A w \in Workers : /\ Offers(w, j)' <=> Offers(w, j)
                         /\ result'[w] = result[w]
    BY DEF Offers, workerVars
<1>3. ASSUME NEW r PROVE r \in GatePending(j)' <=> r \in GatePending(j)
    BY <1>1, <1>2, PendingIs, PendingWillBe
<1> QED BY <1>3, StateKept

-----------------------------------------------------------------------------
(* ReadinessGate's actions, gate by gate. *)
gateVars == <<[k \in Pods |-> GateState(k)], [k \in Pods |-> GatePending(k)]>>

LEMMA LapseStep ==
    ASSUME \A k \in Pods : /\ GateState(k)' = GateState(k)
                           /\ GatePending(k)' \subseteq GatePending(k)
                           /\ GatePending(k)' \subseteq Outcomes
    PROVE  Gate!Lapse
BY DEF Gate!Lapse, Gate!Outcomes, Outcomes

(* A reconcile that comes to its update attempts to open the gate, if its  *)
(* pod is still the stored version.                                        *)
LEMMA ReachesStep ==
    ASSUME GateInv, GateInv', NEW w \in Workers, Reaches(w)
    PROVE  [Gate!Next]_gateVars
<1>1. store' = store BY DEF Reaches, apiVars
<1>2. PICK j \in Pods, r \in Outcomes : j = snap'[w].name /\ r = result'[w]
    BY DEF Reaches, GateInv, IInv, Typed, TypeOK, BusyInv, PodVersion
<1>3. \A k \in Pods : /\ GateState(k)' = GateState(k)
                      /\ (Unfinished(store[k])' <=> Unfinished(store[k]))
    BY <1>1, StateKept
<1>4. ASSUME NEW k \in Pods
      PROVE  /\ \A v \in Workers :
                   v # w => (Offers(v, k)' <=> Offers(v, k)) /\ result'[v] = result[v]
             /\ ~Offers(w, k)
             /\ Offers(w, k)' => k = j
    BY <1>1, <1>2 DEF Reaches, SameWorker, Offers
<1>5. ASSUME NEW k \in Pods, ~Offers(w, k)' \/ ~Unfinished(store[k])
      PROVE  GatePending(k)' = GatePending(k)
    <2>1. ASSUME NEW x PROVE x \in GatePending(k)' <=> x \in GatePending(k)
        BY <1>3, <1>4, <1>5, PendingIs, PendingWillBe
    <2> QED BY <2>1
<1>6. CASE Offers(w, j)' /\ Unfinished(store[j])
    <2>1. GatePending(j)' = GatePending(j) \cup {r}
        <3>1. ASSUME NEW x
              PROVE  x \in GatePending(j)' <=> x \in GatePending(j) \/ x = r
            BY <1>2, <1>3, <1>4, <1>6, PendingIs, PendingWillBe
        <3> QED BY <3>1
    <2>2. \A k \in Pods : k # j => GatePending(k)' = GatePending(k)
        BY <1>4, <1>5
    <2>3. GateState(j) = "shut"
        BY <1>6 DEF GateState, Unfinished
    <2>4. r \in Gate!Outcomes BY DEF Outcomes, Gate!Outcomes
    <2>5. Gate!Attempt(j, r) BY <1>2, <1>3, <2>1, <2>2, <2>3 DEF Gate!Attempt
    <2> QED BY <1>2, <2>4, <2>5 DEF Gate!Next
<1>7. CASE ~(Offers(w, j)' /\ Unfinished(store[j]))
    <2>1. \A k \in Pods : GatePending(k)' = GatePending(k)
        BY <1>4, <1>5, <1>7
    <2> QED BY <1>3, <2>1 DEF gateVars
<1> QED BY <1>6, <1>7

(* What Put stores differs from what it is given in the revision only. *)
LEMMA PutVersion ==
    ASSUME TypeOK, NEW k \in Pods, NEW q \in PodVersion, Put(k, q)
    PROVE  /\ store'[k] \in PodVersion
           /\ store'[k].cond = q.cond
           /\ store'[k].gates = q.gates
<1>1. store \in [Pods -> PodVersion \cup {None}] /\ rev[k] + 1 \in Nat
    BY DEF TypeOK
<1>2. PICK r \in Nat : r = rev[k] + 1 BY <1>1
<1>3. store'[k] = [q EXCEPT !.rv = r] BY <1>1, <1>2 DEF Put
<1> QED BY <1>3 DEF PodVersion

(* The environment creates and removes gates; its other writes void the    *)
(* attempts made for the version they replace.                             *)
LEMMA EnvironmentGates ==
    ASSUME GateInv, GateInv', NEW k \in Pods, Environment(k)
    PROVE  Gate!Next
<1> USE DEF GateInv, IInv, Typed, TypeOK
<1>1. UNCHANGED workerVars
    BY DEF Environment, CreatePod, SchedulePod, KubeletReport, DeletePod
<1>2. \A j \in Pods : j # k => store'[j] = store[j]
    BY DEF Environment, CreatePod, SchedulePod, KubeletReport, DeletePod, Put
<1>3. \A j \in Pods : j # k => /\ GateState(j)' = GateState(j)
                              /\ GatePending(j)' = GatePending(j)
    BY <1>1, <1>2, OtherGates
<1>4. CASE CreatePod(k)
    <2>1. PICK spec \in PodSpecs, up \in BOOLEAN :
              Put(k, IF up THEN Handle(NewPod(k, spec)) ELSE NewPod(k, spec))
        BY <1>4 DEF CreatePod
    <2> DEFINE q == IF up THEN Handle(NewPod(k, spec)) ELSE NewPod(k, spec)
    <2>2. q \in PodVersion /\ q.cond = "Unset"
        <3>1. q \in PodVersion BY NewPodType
        <3>2. NewPod(k, spec).cond = "Unset" BY DEF NewPod
        <3>3. Handle(NewPod(k, spec)).cond = NewPod(k, spec).cond
            BY NewPodType DEF Handle, InjectGate, PodVersion
        <3> QED BY <3>1, <3>2, <3>3
    <2>3. GatePending(k)' = {} BY <1>1, <2>1, <2>2, NewVersionPends
    <2>4. store'[k].cond = "Unset" /\ store'[k] \in PodVersion
        BY <2>1, <2>2, PutVersion
    <2>5. store'[k] # None BY <2>4, NoneAssumption
    <2>6. GateState(k)' \in {"ungated", "shut"}
        BY <2>4, <2>5 DEF GateState, isConditionTrue
    <2>7. GateState(k) = "absent" /\ GatePending(k) = {}
        BY <1>4 DEF CreatePod, GateState, GatePending, Unfinished
    <2>8. Gate!Create(k) BY <1>3, <2>3, <2>6, <2>7 DEF Gate!Create
    <2> QED BY <2>8 DEF Gate!Next
<1>5. CASE DeletePod(k)
    <2>1. store'[k] = None BY <1>5 DEF DeletePod
    <2>2. GateState(k)' = "absent" /\ GatePending(k)' = {}
        BY <2>1 DEF GateState, GatePending, Unfinished
    <2>3. Gate!Remove(k) BY <1>3, <2>2 DEF Gate!Remove
    <2> QED BY <2>3 DEF Gate!Next
<1>6. ASSUME NEW q \in PodVersion, Put(k, q), store[k] # None,
             q.cond = store[k].cond, q.gates = store[k].gates
      PROVE  Gate!Next
    <2>1. GatePending(k)' = {} BY <1>1, <1>6, NewVersionPends
    <2>2. /\ store'[k].cond = store[k].cond /\ store'[k].gates = store[k].gates
          /\ store'[k] \in PodVersion
        BY <1>6, PutVersion
    <2>3. store'[k] # None BY <2>2, NoneAssumption
    <2>4. GateState(k)' = GateState(k)
        BY <1>6, <2>2, <2>3 DEF GateState, Unfinished, isConditionTrue, hasReadinessGate
    <2>5. Gate!Lapse BY <1>3, <2>1, <2>4, LapseStep, PendingOutcomes
    <2> QED BY <2>5 DEF Gate!Next
<1>7. CASE SchedulePod(k)
    <2>1. PICK n \in Nodes : Put(k, [store[k] EXCEPT !.node = n])
        BY <1>7 DEF SchedulePod
    <2> DEFINE q == [store[k] EXCEPT !.node = n]
    <2>2. store[k] # None /\ store[k] \in PodVersion BY <1>7 DEF SchedulePod
    <2>3. q \in PodVersion /\ q.cond = store[k].cond /\ q.gates = store[k].gates
        BY <2>2 DEF PodVersion
    <2> QED BY <1>6, <2>1, <2>2, <2>3
<1>8. CASE KubeletReport(k)
    <2>1. PICK s \in StatusReports, r \in {0, 1} :
              Put(k, [store[k] EXCEPT !.phase = s.phase,
                                      !.statuses = s.statuses,
                                      !.containersReady = s.containersReady,
                                      !.restarts = @ + r])
        BY <1>8 DEF KubeletReport
    <2> DEFINE q == [store[k] EXCEPT !.phase = s.phase,
                                     !.statuses = s.statuses,
                                     !.containersReady = s.containersReady,
                                     !.restarts = @ + r]
    <2>2. store[k] # None /\ store[k] \in PodVersion BY <1>8 DEF KubeletReport
    <2>3. store[k].restarts + r \in Nat BY <2>2 DEF PodVersion
    <2>4. q \in PodVersion /\ q.cond = store[k].cond /\ q.gates = store[k].gates
        BY <2>2, <2>3, EnvironmentAssumption DEF PodVersion
    <2> QED BY <1>6, <2>1, <2>2, <2>4
<1> QED BY <1>4, <1>5, <1>7, <1>8 DEF Environment

(* An accepted update records the outcome of an attempt that is pending. *)
LEMMA UpdateGates ==
    ASSUME GateInv, GateInv', NEW w \in Workers, UpdateOK(w) \/ UpdateUnacked(w)
    PROVE  Gate!Next
<1> USE DEF GateInv, IInv, Typed, TypeOK
<1>0. pc[w] = "update" /\ ~stopping[CtrlOf[w]] /\ SameVersion(snap[w]) /\ Return(w)
    BY DEF UpdateOK, UpdateUnacked, UpdateAccepted
<1>1. PICK k \in Pods, r \in Outcomes : k = snap[w].name /\ r = result[w]
    BY <1>0 DEF BusyInv, PodVersion, OutcomeInv
<1>2. /\ store[k] = snap[w] /\ store[k] # None /\ store[k] \in PodVersion
      /\ Unfinished(store[k])
      /\ Put(k, WithCondition(store[k], r))
    <2>1. snap[w] # None /\ snap[w] \in PodVersion BY <1>0 DEF BusyInv
    <2>2. CopyOf(snap[w], k) /\ Unfinished(snap[w])
        BY <1>1, <2>1 DEF VersionInv, WorkerInv
    <2>3. store[k] = snap[w] BY <1>0, <1>1, <2>2 DEF SameVersion, CopyOf
    <2> QED BY <1>1, <2>1, <2>2, <2>3 DEF UpdateOK, UpdateUnacked
<1>3. r # "interrupted"
    BY <1>0, <1>1 DEF VersionInv, WorkerInv
<1>4. r \in GatePending(k)
    BY <1>0, <1>1, <1>2, PendingIs DEF Offers
<1>5. GateState(k) = "shut"
    BY <1>2 DEF GateState, Unfinished
<1>6. store'[k].cond = Reason(r) /\ store'[k] \in PodVersion
    <2>1. PICK q : q = WithCondition(store[k], r) OBVIOUS
    <2>2. Reason(r) \in {"WarmupComplete", "WarmupFailedOpen"} BY DEF Reason
    <2>3. q \in PodVersion /\ q.cond = Reason(r)
        BY <1>2, <2>1, <2>2 DEF WithCondition, PodVersion
    <2>4. store'[k] = [q EXCEPT !.rv = rev[k] + 1]
        BY <1>2, <2>1 DEF Put
    <2>5. rev[k] + 1 \in Nat OBVIOUS
    <2> QED BY <2>3, <2>4, <2>5 DEF PodVersion
<1>7. store'[k] # None /\ isConditionTrue(store[k])'
    BY <1>6, NoneAssumption DEF isConditionTrue, Reason
<1>8. GateState(k)' = Reason(r) /\ GatePending(k)' = {}
    BY <1>6, <1>7 DEF GateState, GatePending, Unfinished
<1>9. Gate!Recorded[r] = Reason(r)
    BY <1>3 DEF Gate!Recorded, Gate!Outcomes, Outcomes, Reason
<1>10. ASSUME NEW j \in Pods, j # k
       PROVE  GateState(j)' = GateState(j) /\ GatePending(j)' = GatePending(j)
    <2>1. store'[j] = store[j] BY <1>1, <1>2, <1>10 DEF Put
    <2>2. \A v \in Workers : v # w => SameWorker(v)
        BY <1>0 DEF Return, SameWorker
    <2>3. ~Offers(w, j) /\ ~Offers(w, j)'
        BY <1>0, <1>1, <1>10 DEF Offers, Return
    <2>4. \A v \in Workers : v # w => /\ Offers(v, j)' <=> Offers(v, j)
                                     /\ result'[v] = result[v]
        BY <2>1, <2>2 DEF Offers, SameWorker
    <2>5. Unfinished(store[j])' <=> Unfinished(store[j]) BY <2>1, StateKept
    <2> HIDE DEF GateInv, IInv, Typed, TypeOK
    <2>6. ASSUME NEW x PROVE x \in GatePending(j)' <=> x \in GatePending(j)
        BY <2>3, <2>4, <2>5, PendingIs, PendingWillBe
    <2> QED BY <2>1, <2>6, StateKept
<1>11. Gate!Record(k, r)
    BY <1>2, <1>3, <1>4, <1>5, <1>8, <1>9, <1>10 DEF Gate!Record
<1> QED BY <1>2, <1>3, <1>11 DEF Gate!Next, Gate!Outcomes, Outcomes

LEMMA GateStep ==
    ASSUME GateInv, [Next]_vars
    PROVE  [Gate!Next]_gateVars
<1>0. GateInv' BY GateInvStep
<1>1. CASE UNCHANGED apiVars /\ \E w \in Workers : Reaches(w)
    BY <1>0, <1>1, ReachesStep
<1>2. CASE UNCHANGED apiVars /\ ~\E w \in Workers : Reaches(w)
    <2>1. ASSUME NEW k \in Pods
          PROVE  /\ GateState(k)' = GateState(k)
                 /\ GatePending(k)' \subseteq GatePending(k)
        <3>1. store'[k] = store[k] BY <1>2 DEF apiVars
        <3>2. \A w \in Workers : pc'[w] = "update" => SameWorker(w)
            BY <1>2, AtUpdate DEF GateInv
        <3>3. \A w \in Workers : Offers(w, k)' => Offers(w, k) /\ result'[w] = result[w]
            BY <3>1, <3>2 DEF Offers, SameWorker
        <3> QED BY <3>1, <3>3, StateKept, PendingIs, PendingWillBe
    <2>2. Gate!Lapse BY <1>0, <2>1, LapseStep, PendingOutcomes DEF GateInv
    <2> QED BY <2>2 DEF Gate!Next
<1> QED BY <1>0, <1>1, <1>2, EnvironmentGates, UpdateGates, StoreWriters

(* The controllers, the webhook and the API server's version test keep the *)
(* promise of ReadinessGate in every deployment, whatever fails: a gate is *)
(* opened only with the outcome of a warmup attempt made for the pod's     *)
(* current version, never with that of an interrupted one, and once.       *)
THEOREM GatePromiseKept == Spec => KeepsGatePromise
<1>1. Init => Gate!Init
    BY DEF Init, Gate!Init, GateState, GatePending, Unfinished
<1>2. GateInv /\ [Next]_vars => [Gate!Next]_gateVars BY GateStep
<1> QED BY <1>1, <1>2, GateInvInit, GateInvStep, PTL
        DEF Spec, KeepsGatePromise, Gate!Spec, gateVars
=============================================================================
