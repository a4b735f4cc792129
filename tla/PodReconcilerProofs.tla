------------------------ MODULE PodReconcilerProofs -------------------------
(***************************************************************************)
(* Theorems about PodReconciler, for every set of pods, controllers,       *)
(* workers and nodes, every deployment and every bound.                    *)
(***************************************************************************)
EXTENDS PodReconciler, FiniteSetTheorems, TLAPS

USE DEF Holding

(* A worker that has taken a key holds the pod it fetched. *)
BusyInv == \A w \in Workers : pc[w] # "idle" => snap[w] # None

LEMMA NewPodType ==
    ASSUME TypeOK, NEW k \in Pods, NEW spec \in PodSpecs
    PROVE  /\ NewPod(k, spec) \in PodVersion
           /\ Handle(NewPod(k, spec)) \in PodVersion
<1>1. NewPod(k, spec) \in PodVersion
    BY EnvironmentAssumption DEF TypeOK, NewPod, PodVersion
<1>2. ASSUME NEW p \in PodVersion PROVE InjectGate(p) \in PodVersion
    <2>1. Append(p.gates, WarmupGate) \in Seq(STRING)
        BY EnvironmentAssumption DEF PodVersion
    <2> QED BY <2>1 DEF InjectGate, PodVersion
<1> QED BY <1>1, <1>2 DEF Handle

(* Storing a pod version keeps the types. *)
LEMMA PutType ==
    ASSUME TypeOK, NEW k \in Pods, NEW p \in PodVersion, Put(k, p)
    PROVE  /\ store' \in [Pods -> PodVersion \cup {None}]
           /\ rev' \in [Pods -> Nat]
<1>1. rev[k] + 1 \in Nat BY DEF TypeOK
<1>2. [p EXCEPT !.rv = rev[k] + 1] \in PodVersion BY <1>1 DEF PodVersion
<1> QED BY <1>1, <1>2 DEF Put, TypeOK

LEMMA ViewType ==
    ASSUME TypeOK, NEW c \in Controllers, NEW k \in Pods
    PROVE  View(c, k) \in PodVersion \cup {None}
BY DEF View, TypeOK

LEMMA LiveRunType ==
    ASSUME TypeOK, NEW k \in Pods
    PROVE  LiveRun(k) \in PodRun \cup {None}
BY DEF LiveRun, Run, TypeOK, PodRun, PodVersion

(* What the environment writes is a version of the pod. *)
LEMMA EnvironmentType ==
    ASSUME TypeOK, NEW k \in Pods, Environment(k)
    PROVE  /\ store' \in [Pods -> PodVersion \cup {None}]
           /\ rev' \in [Pods -> Nat]
<1>1. CASE CreatePod(k)
    BY <1>1, NewPodType, PutType DEF CreatePod
<1>2. CASE SchedulePod(k)
    <2>1. PICK n \in Nodes : Put(k, [store[k] EXCEPT !.node = n])
        BY <1>2 DEF SchedulePod
    <2>2. store[k] \in PodVersion
        BY <1>2 DEF SchedulePod, TypeOK
    <2>3. [store[k] EXCEPT !.node = n] \in PodVersion
        BY <2>2 DEF PodVersion
    <2> QED BY <2>1, <2>3, PutType
<1>3. CASE KubeletReport(k)
    <2>1. PICK s \in StatusReports, r \in {0, 1} :
              Put(k, [store[k] EXCEPT !.phase = s.phase,
                                      !.statuses = s.statuses,
                                      !.containersReady = s.containersReady,
                                      !.restarts = @ + r])
        BY <1>3 DEF KubeletReport
    <2>2. store[k] \in PodVersion
        BY <1>3 DEF KubeletReport, TypeOK
    <2>3. store[k].restarts + r \in Nat
        BY <2>2 DEF PodVersion
    <2>4. [store[k] EXCEPT !.phase = s.phase, !.statuses = s.statuses,
                           !.containersReady = s.containersReady,
                           !.restarts = @ + r] \in PodVersion
        BY <2>2, <2>3, EnvironmentAssumption DEF PodVersion
    <2> QED BY <2>1, <2>4, PutType
<1>4. CASE DeletePod(k)
    BY <1>4 DEF DeletePod, TypeOK
<1> QED BY <1>1, <1>2, <1>3, <1>4 DEF Environment

(* Begin leaves a worker in a well-typed place. *)
LEMMA BeginType ==
    ASSUME TypeOK, NEW w \in Workers, NEW p \in PodVersion, Begin(w, p)
    PROVE  /\ active' \in [Controllers -> Nat]
           /\ pc' \in [Workers -> {"idle", "queued"} \cup Holding]
           /\ \A v \in Workers : v # w => pc'[v] = pc[v]
           /\ result' \in [Workers -> {"none", "succeeded", "failed",
                                       "interrupted"}]
           /\ target' \in [Workers -> PodRun \cup {None}]
<1>1. CtrlOf[w] \in Controllers
    BY DeploymentAssumption
<1>2. active' \in [Controllers -> Nat]
    BY <1>1 DEF Begin, TypeOK
<1>3. p.name \in Pods /\ p.cfg \in {"invalid", "annotation", "warmupconfig"}
    BY DEF PodVersion
<1>4. LiveRun(p.name) \in PodRun \cup {None}
    BY <1>3, LiveRunType
<1>5. target' \in [Workers -> PodRun \cup {None}]
    BY <1>4 DEF Begin, TypeOK
<1>6. result' \in [Workers -> {"none", "succeeded", "failed", "interrupted"}]
    BY DEF Begin, TypeOK
<1>7. /\ pc' \in [Workers -> {"idle", "queued"} \cup Holding]
      /\ \A v \in Workers : v # w => pc'[v] = pc[v]
    BY <1>3 DEF Begin, TypeOK
<1> QED BY <1>2, <1>5, <1>6, <1>7

(* sem[c] counts the reconciles of c between Acquire and return, when      *)
(* there is a semaphore; active[c] counts them in any case.                *)
Holders(c) == {w \in WorkersOf(c) : pc[w] \in Holding}

LEMMA HoldersFinite ==
    ASSUME NEW c
    PROVE  /\ IsFiniteSet(Holders(c))
           /\ Cardinality(Holders(c)) \in Nat
<1>1. Holders(c) \subseteq Workers BY DEF Holders, WorkersOf
<1> QED BY <1>1, DeploymentAssumption, FS_Subset, FS_CardinalityType

(* A worker comes to hold a slot. *)
LEMMA HolderAdded ==
    ASSUME NEW w \in Workers, pc[w] \notin Holding, pc'[w] \in Holding,
           \A v \in Workers : v # w => pc'[v] = pc[v],
           NEW c \in Controllers
    PROVE  Cardinality(Holders(c)') = IF c = CtrlOf[w]
                                      THEN Cardinality(Holders(c)) + 1
                                      ELSE Cardinality(Holders(c))
<1>1. CASE c = CtrlOf[w]
    <2>1. Holders(c)' = Holders(c) \cup {w} BY <1>1 DEF Holders, WorkersOf
    <2>2. w \notin Holders(c) BY DEF Holders
    <2>3. IsFiniteSet(Holders(c)) BY HoldersFinite
    <2>4. Cardinality(Holders(c) \cup {w}) = Cardinality(Holders(c)) + 1
        BY <2>2, <2>3, FS_AddElement
    <2> QED BY <1>1, <2>1, <2>4
<1>2. CASE c # CtrlOf[w]
    <2>1. Holders(c)' = Holders(c) BY <1>2 DEF Holders, WorkersOf
    <2> QED BY <1>2, <2>1
<1> QED BY <1>1, <1>2

(* A worker gives its slot back. *)
LEMMA HolderRemoved ==
    ASSUME NEW w \in Workers, pc[w] \in Holding, pc'[w] \notin Holding,
           \A v \in Workers : v # w => pc'[v] = pc[v],
           NEW c \in Controllers
    PROVE  /\ c = CtrlOf[w] => Cardinality(Holders(c)) > 0
           /\ Cardinality(Holders(c)') = IF c = CtrlOf[w]
                                         THEN Cardinality(Holders(c)) - 1
                                         ELSE Cardinality(Holders(c))
<1>1. CASE c = CtrlOf[w]
    <2>1. Holders(c)' = Holders(c) \ {w} BY <1>1 DEF Holders, WorkersOf
    <2>2. w \in Holders(c) BY <1>1 DEF Holders, WorkersOf
    <2>3. Cardinality(Holders(c)) # 0 BY <2>2, HoldersFinite, FS_EmptySet
    <2>4. Cardinality(Holders(c) \ {w}) = Cardinality(Holders(c)) - 1
        BY <2>2, HoldersFinite, FS_RemoveElement
    <2>5. Cardinality(Holders(c)) > 0
        BY <2>3, HoldersFinite
    <2> QED BY <1>1, <2>1, <2>4, <2>5
<1>2. CASE c # CtrlOf[w]
    <2>1. Holders(c)' = Holders(c) BY <1>2 DEF Holders, WorkersOf
    <2> QED BY <1>2, <2>1
<1> QED BY <1>1, <1>2

LEMMA HoldersKept ==
    ASSUME \A v \in Workers : pc'[v] \in Holding <=> pc[v] \in Holding,
           NEW c \in Controllers
    PROVE  Holders(c)' = Holders(c)
BY DEF Holders, WorkersOf

(* The first part of the inductive invariant.  That a release never takes  *)
(* a count below zero is part of TypeOK and needs SlotsExact.              *)
Typed == TypeOK /\ BusyInv /\ SlotsExact

LEMMA SlotsKept ==
    ASSUME SlotsExact, UNCHANGED semVars,
           \A v \in Workers : pc'[v] \in Holding <=> pc[v] \in Holding
    PROVE  SlotsExact'
BY HoldersKept DEF SlotsExact, semVars, Holders

(* Return gives back exactly what Acquire and Begin took. *)
LEMMA ReturnTyped ==
    ASSUME Typed, NEW w \in Workers, pc[w] \in Holding, Return(w)
    PROVE  /\ sem' \in [Controllers -> Nat]
           /\ active' \in [Controllers -> Nat]
           /\ pc' \in [Workers -> {"idle", "queued"} \cup Holding]
           /\ snap' \in [Workers -> PodVersion \cup {None}]
           /\ result' \in [Workers -> {"none", "succeeded", "failed",
                                       "interrupted"}]
           /\ target' \in [Workers -> PodRun \cup {None}]
           /\ BusyInv'
           /\ SlotsExact'
<1> DEFINE c == CtrlOf[w]
<1>1. c \in Controllers BY DeploymentAssumption
<1>2. /\ pc' \in [Workers -> {"idle", "queued"} \cup Holding]
      /\ pc'[w] = "idle"
      /\ \A v \in Workers : v # w => pc'[v] = pc[v]
      /\ snap' \in [Workers -> PodVersion \cup {None}]
      /\ \A v \in Workers : v # w => snap'[v] = snap[v]
      /\ result' \in [Workers -> {"none", "succeeded", "failed", "interrupted"}]
      /\ target' \in [Workers -> PodRun \cup {None}]
    BY DEF Return, Typed, TypeOK
<1>3. BusyInv' BY <1>2 DEF Typed, BusyInv
<1>4. \A d \in Controllers :
          /\ d = c => Cardinality(Holders(d)) > 0
          /\ Cardinality(Holders(d)') = IF d = c THEN Cardinality(Holders(d)) - 1
                                        ELSE Cardinality(Holders(d))
    BY <1>2, HolderRemoved
<1>5. \A d \in Controllers :
          /\ active[d] = Cardinality(Holders(d))
          /\ MaxConcurrentWarmups > 0 => /\ sem[d] = Cardinality(Holders(d))
                                         /\ sem[d] <= MaxConcurrentWarmups
    BY DEF Typed, SlotsExact, Holders
<1>6. /\ active' = [active EXCEPT ![c] = @ - 1]
      /\ sem' = [sem EXCEPT ![c] = IF MaxConcurrentWarmups > 0 THEN @ - 1 ELSE @]
    BY DEF Return, Released, Decremented
<1>7. active' \in [Controllers -> Nat] /\ sem' \in [Controllers -> Nat]
    BY <1>1, <1>4, <1>5, <1>6 DEF Typed, TypeOK
<1>8. ASSUME NEW d \in Controllers
      PROVE  /\ active'[d] = Cardinality(Holders(d)')
             /\ MaxConcurrentWarmups > 0 =>
                   /\ sem'[d] = Cardinality(Holders(d)')
                   /\ sem'[d] <= MaxConcurrentWarmups
    <2>1. active'[d] = IF d = c THEN active[d] - 1 ELSE active[d]
        BY <1>1, <1>6 DEF Typed, TypeOK
    <2>2. MaxConcurrentWarmups > 0 =>
              sem'[d] = IF d = c THEN sem[d] - 1 ELSE sem[d]
        BY <1>1, <1>6 DEF Typed, TypeOK
    <2>3. Cardinality(Holders(d)) \in Nat BY HoldersFinite
    <2> HIDE DEF c
    <2> QED BY <1>4, <1>5, <2>1, <2>2, <2>3, BoundsAssumption
<1>9. SlotsExact' BY <1>8 DEF SlotsExact, Holders
<1> QED BY <1>2, <1>3, <1>7, <1>9

LEMMA TypedInit == Init => Typed
<1> SUFFICES ASSUME Init PROVE Typed OBVIOUS
<1>1. TypeOK BY DEF Init, TypeOK
<1>2. BusyInv BY DEF Init, BusyInv
<1>3. \A c \in Controllers : Holders(c) = {}
    BY DEF Init, Holders, WorkersOf
<1>4. \A c \in Controllers : Cardinality(Holders(c)) = 0
    BY <1>3, FS_EmptySet
<1>5. \A c \in Controllers : sem[c] = 0 /\ active[c] = 0
    BY DEF Init
<1>6. SlotsExact
    BY <1>4, <1>5, BoundsAssumption DEF SlotsExact, Holders
<1> QED BY <1>1, <1>2, <1>6 DEF Typed

(* Taking a key off the queue. *)
LEMMA TakeTyped ==
    ASSUME Typed, NEW w \in Workers, NEW k \in Pods, Take(w, k)
    PROVE  Typed'
<1> DEFINE c == CtrlOf[w]
           p == cache[c][k]
<1>1. c \in Controllers /\ p \in PodVersion \cup {None}
    BY DeploymentAssumption DEF Typed, TypeOK
<1>2. CASE ReconcileSkip(w, k)
    <2>1. TypeOK'
        BY <1>1, <1>2 DEF ReconcileSkip, Taken, Typed, TypeOK, apiVars, semVars,
           workerVars
    <2>2. BusyInv' BY <1>2 DEF ReconcileSkip, workerVars, Typed, BusyInv
    <2>3. SlotsExact'
        BY <1>2, SlotsKept DEF ReconcileSkip, workerVars, Typed
    <2> QED BY <2>1, <2>2, <2>3 DEF Typed
<1>3. CASE ReconcileRequeue(w, k)
    <2>1. TypeOK'
        BY <1>1, <1>3 DEF ReconcileRequeue, Taken, Again, Typed, TypeOK, apiVars,
           semVars, workerVars
    <2>2. BusyInv' BY <1>3 DEF ReconcileRequeue, workerVars, Typed, BusyInv
    <2>3. SlotsExact'
        BY <1>3, SlotsKept DEF ReconcileRequeue, workerVars, Typed
    <2> QED BY <2>1, <2>2, <2>3 DEF Typed
<1>4. CASE ReconcileAdmit(w, k)
    <2>0. /\ p \in PodVersion /\ p # None /\ pc[w] = "idle"
          /\ snap' = [snap EXCEPT ![w] = p]
        BY <1>1, <1>4 DEF ReconcileAdmit, Due
    <2>1. /\ snap' \in [Workers -> PodVersion \cup {None}]
          /\ queue' \in [Controllers -> SUBSET Pods]
          /\ UNCHANGED <<store, rev, cache, delayed, stopping, sem, warmed, faults>>
        BY <1>1, <1>4, <2>0 DEF ReconcileAdmit, Taken, Typed, TypeOK, apiVars
    <2>2. CASE MaxConcurrentWarmups > 0
        <3>1. /\ pc' = [pc EXCEPT ![w] = "queued"]
              /\ UNCHANGED <<active, result, target>>
            BY <1>4, <2>2 DEF ReconcileAdmit
        <3>2. TypeOK' BY <2>1, <3>1 DEF Typed, TypeOK
        <3>3. BusyInv' BY <2>0, <3>1 DEF Typed, TypeOK, BusyInv
        <3>4. SlotsExact'
            BY <2>0, <2>1, <3>1, SlotsKept DEF Typed, TypeOK, semVars
        <3> QED BY <3>2, <3>3, <3>4 DEF Typed
    <2>3. CASE ~(MaxConcurrentWarmups > 0)
        <3>1. Begin(w, p) BY <1>4, <2>3 DEF ReconcileAdmit
        <3>2. TypeOK' BY <2>0, <2>1, <3>1, BeginType DEF Typed, TypeOK
        <3>3. BusyInv'
            BY <2>0, <3>1, BeginType DEF Typed, TypeOK, BusyInv
        <3>4. pc'[w] \in Holding /\ \A v \in Workers : v # w => pc'[v] = pc[v]
            <4>1. pc \in [Workers -> {"idle", "queued"} \cup Holding]
                BY DEF Typed, TypeOK
            <4>2. p.cfg \in {"invalid", "annotation", "warmupconfig"} BY <2>0 DEF PodVersion
            <4> QED BY <3>1, <4>1, <4>2 DEF Begin
        <3>5. ASSUME NEW d \in Controllers
              PROVE  active'[d] = Cardinality(Holders(d)')
            <4>1. Cardinality(Holders(d)') = IF d = c THEN Cardinality(Holders(d)) + 1
                                             ELSE Cardinality(Holders(d))
                BY <2>0, <3>4, HolderAdded
            <4>2. active'[d] = IF d = c THEN active[d] + 1 ELSE active[d]
                BY <1>1, <3>1 DEF Begin, Typed, TypeOK
            <4> QED BY <4>1, <4>2 DEF Typed, SlotsExact, Holders
        <3>6. SlotsExact' BY <2>3, <3>5 DEF SlotsExact, Holders
        <3> QED BY <3>2, <3>3, <3>6 DEF Typed
    <2> QED BY <2>2, <2>3
<1> QED BY <1>2, <1>3, <1>4 DEF Take

(* The rest of a reconcile. *)
LEMMA ProceedTyped ==
    ASSUME Typed, NEW w \in Workers, Proceed(w)
    PROVE  Typed'
<1> DEFINE c == CtrlOf[w]
<1>1. c \in Controllers
    BY DeploymentAssumption
<1>2. pc[w] # "idle" /\ snap[w] \in PodVersion /\ snap[w].name \in Pods
    <2>1. pc[w] # "idle"
        BY DEF Proceed, Acquire, AcquireCancelled, LookupFound, LookupFails,
           FinishWarmup, UpdateOK, UpdateRejected
    <2> QED BY <2>1 DEF Typed, TypeOK, BusyInv, PodVersion
<1>3. CASE Acquire(w)
    <2>1. /\ Begin(w, snap[w])
          /\ pc[w] = "queued"
          /\ sem[c] < MaxConcurrentWarmups
          /\ sem' = [sem EXCEPT ![c] = @ + 1]
          /\ UNCHANGED <<store, rev, cache, queue, delayed, stopping, snap, warmed,
                         faults>>
        BY <1>3 DEF Acquire, apiVars, procVars
    <2>2. TypeOK'
        BY <1>1, <1>2, <2>1, BeginType DEF Typed, TypeOK
    <2>3. BusyInv'
        BY <1>2, <2>1, BeginType DEF Typed, TypeOK, BusyInv
    <2>4. pc'[w] \in Holding /\ \A v \in Workers : v # w => pc'[v] = pc[v]
        BY <1>2, <2>1, BeginType DEF Begin, PodVersion, Typed, TypeOK
    <2>5. ASSUME NEW d \in Controllers
          PROVE  /\ active'[d] = Cardinality(Holders(d)')
                 /\ MaxConcurrentWarmups > 0 =>
                       /\ sem'[d] = Cardinality(Holders(d)')
                       /\ sem'[d] <= MaxConcurrentWarmups
        <3>1. Cardinality(Holders(d)') = IF d = c THEN Cardinality(Holders(d)) + 1
                                         ELSE Cardinality(Holders(d))
            BY <2>1, <2>4, HolderAdded
        <3>2. /\ active'[d] = IF d = c THEN active[d] + 1 ELSE active[d]
              /\ sem'[d] = IF d = c THEN sem[d] + 1 ELSE sem[d]
            BY <1>1, <2>1 DEF Begin, Typed, TypeOK
        <3>3. /\ active[d] = Cardinality(Holders(d))
              /\ MaxConcurrentWarmups > 0 => /\ sem[d] = Cardinality(Holders(d))
                                             /\ sem[d] <= MaxConcurrentWarmups
            BY DEF Typed, SlotsExact, Holders
        <3>4. Cardinality(Holders(d)) \in Nat BY HoldersFinite
        <3>5. d = c => sem[d] < MaxConcurrentWarmups BY <2>1
        <3> HIDE DEF c
        <3> QED BY <3>1, <3>2, <3>3, <3>4, <3>5, BoundsAssumption
    <2>6. SlotsExact' BY <2>5 DEF SlotsExact, Holders
    <2> QED BY <2>2, <2>3, <2>6 DEF Typed
<1>4. CASE AcquireCancelled(w)
    <2>1. TypeOK'
        BY <1>1, <1>2, <1>4 DEF AcquireCancelled, Again, Typed, TypeOK, apiVars,
           semVars
    <2>2. BusyInv'
        BY <1>4 DEF AcquireCancelled, Typed, TypeOK, BusyInv
    <2>3. SlotsExact'
        BY <1>4, SlotsKept DEF AcquireCancelled, Typed, TypeOK
    <2> QED BY <2>1, <2>2, <2>3 DEF Typed
<1>5. CASE LookupFound(w)
    <2>1. TypeOK'
        BY <1>2, <1>5, LiveRunType DEF LookupFound, Typed, TypeOK, apiVars,
           procVars, semVars
    <2>2. BusyInv'
        BY <1>2, <1>5 DEF LookupFound, Typed, TypeOK, BusyInv
    <2>3. SlotsExact'
        BY <1>5, SlotsKept DEF LookupFound, Typed, TypeOK
    <2> QED BY <2>1, <2>2, <2>3 DEF Typed
<1>6. CASE LookupFails(w)
    <2>1. TypeOK'
        BY <1>2, <1>6 DEF LookupFails, Typed, TypeOK, apiVars, procVars, semVars
    <2>2. BusyInv'
        BY <1>2, <1>6 DEF LookupFails, Typed, TypeOK, BusyInv
    <2>3. SlotsExact'
        BY <1>6, SlotsKept DEF LookupFails, Typed, TypeOK
    <2> QED BY <2>1, <2>2, <2>3 DEF Typed
<1>7. CASE FinishWarmup(w)
    <2>1. warmed' \subseteq Pods \X PodRun
        BY <1>2, <1>7 DEF FinishWarmup, Typed, TypeOK
    <2>2. result' \in [Workers -> {"none", "succeeded", "failed", "interrupted"}]
        BY <1>7 DEF FinishWarmup, Typed, TypeOK
    <2>3. TypeOK'
        BY <1>7, <2>1, <2>2 DEF FinishWarmup, Typed, TypeOK, apiVars, procVars,
           semVars
    <2>4. BusyInv'
        BY <1>2, <1>7 DEF FinishWarmup, Typed, TypeOK, BusyInv
    <2>5. SlotsExact'
        BY <1>7, SlotsKept DEF FinishWarmup, Typed, TypeOK
    <2> QED BY <2>3, <2>4, <2>5 DEF Typed
<1>8. CASE UpdateOK(w)
    <2>1. /\ pc[w] \in Holding /\ Return(w)
          /\ Put(snap[w].name, WithCondition(snap[w], result[w]))
          /\ UNCHANGED <<cache, queue, delayed, stopping, warmed, faults>>
        BY <1>8 DEF UpdateOK, procVars
    <2>2. WithCondition(snap[w], result[w]) \in PodVersion
        BY <1>2 DEF WithCondition, Reason, PodVersion
    <2>3. TypeOK'
        BY <1>2, <2>1, <2>2, PutType, ReturnTyped DEF Typed, TypeOK
    <2> QED BY <2>1, <2>3, ReturnTyped DEF Typed
<1>9. CASE UpdateRejected(w)
    <2>1. pc[w] \in Holding /\ Return(w)
        BY <1>9 DEF UpdateRejected
    <2>2. TypeOK'
        BY <1>1, <1>2, <1>9, <2>1, ReturnTyped
        DEF UpdateRejected, Again, Typed, TypeOK, apiVars
    <2> QED BY <2>1, <2>2, ReturnTyped DEF Typed
<1> QED BY <1>3, <1>4, <1>5, <1>6, <1>7, <1>8, <1>9 DEF Proceed

(* A process that starts afresh holds no slot. *)
LEMMA FreshProcessTyped ==
    ASSUME Typed, NEW c \in Controllers, FreshProcess(c), faults' \in Nat
    PROVE  Typed'
<1>1. TypeOK'
    BY DEF FreshProcess, Typed, TypeOK, apiVars
<1>2. BusyInv'
    BY DEF FreshProcess, Typed, BusyInv
<1>3. ASSUME NEW d \in Controllers
      PROVE  /\ active'[d] = Cardinality(Holders(d)')
             /\ MaxConcurrentWarmups > 0 =>
                   /\ sem'[d] = Cardinality(Holders(d)')
                   /\ sem'[d] <= MaxConcurrentWarmups
    <2>1. CASE d = c
        <3>1. Holders(d)' = {}
            BY <2>1 DEF FreshProcess, Holders, WorkersOf
        <3>2. Cardinality(Holders(d)') = 0 BY <3>1, FS_EmptySet
        <3>3. active'[d] = 0 /\ sem'[d] = 0
            BY <2>1 DEF FreshProcess, Typed, TypeOK
        <3> QED BY <3>2, <3>3, BoundsAssumption
    <2>2. CASE d # c
        <3>1. Holders(d)' = Holders(d)
            BY <2>2 DEF FreshProcess, Holders, WorkersOf
        <3>2. active'[d] = active[d] /\ sem'[d] = sem[d]
            BY <2>2 DEF FreshProcess, Typed, TypeOK
        <3> QED BY <3>1, <3>2 DEF Typed, SlotsExact, Holders
    <2> QED BY <2>1, <2>2
<1>4. SlotsExact' BY <1>3 DEF SlotsExact, Holders
<1> QED BY <1>1, <1>2, <1>4 DEF Typed

LEMMA FaultTyped ==
    ASSUME Typed, Fault
    PROVE  Typed'
<1>1. ASSUME NEW w \in Workers, UpdateLost(w) \/ UpdateUnacked(w)
      PROVE  Typed'
    <2>1. pc[w] \in Holding /\ Return(w)
        BY <1>1 DEF UpdateLost, UpdateUnacked
    <2>2. /\ CtrlOf[w] \in Controllers
          /\ snap[w] \in PodVersion
          /\ snap[w].name \in Pods
        BY <2>1, DeploymentAssumption DEF Typed, TypeOK, BusyInv, PodVersion
    <2>3. /\ delayed' \in [Controllers -> SUBSET Pods]
          /\ faults' \in Nat
          /\ UNCHANGED <<cache, queue, stopping, warmed>>
        BY <1>1, <2>2 DEF UpdateLost, UpdateUnacked, Again, Typed, TypeOK
    <2>4. /\ store' \in [Pods -> PodVersion \cup {None}]
          /\ rev' \in [Pods -> Nat]
        <3>1. CASE UpdateLost(w)
            BY <3>1 DEF UpdateLost, Typed, TypeOK, apiVars
        <3>2. CASE UpdateUnacked(w)
            <4>1. WithCondition(snap[w], result[w]) \in PodVersion
                BY <2>2 DEF WithCondition, Reason, PodVersion
            <4> QED BY <3>2, <2>2, <4>1, PutType DEF UpdateUnacked, Typed
        <3> QED BY <1>1, <3>1, <3>2
    <2>5. TypeOK' BY <2>1, <2>3, <2>4, ReturnTyped DEF Typed, TypeOK
    <2> QED BY <2>1, <2>5, ReturnTyped DEF Typed
<1>2. ASSUME NEW w \in Workers, NEW k \in Pods, ReconcileGetError(w, k)
      PROVE  Typed'
    <2>1. TypeOK'
        BY <1>2, DeploymentAssumption DEF ReconcileGetError, Taken, Again, Typed,
           TypeOK, apiVars, semVars, workerVars
    <2>2. BusyInv' BY <1>2 DEF ReconcileGetError, workerVars, Typed, BusyInv
    <2>3. SlotsExact'
        BY <1>2, SlotsKept DEF ReconcileGetError, workerVars, Typed
    <2> QED BY <2>1, <2>2, <2>3 DEF Typed
<1>3. ASSUME NEW c \in Controllers, Stop(c) PROVE Typed'
    <2>1. TypeOK'
        BY <1>3 DEF Stop, Typed, TypeOK, apiVars, semVars, workerVars
    <2>2. BusyInv' BY <1>3 DEF Stop, workerVars, Typed, BusyInv
    <2>3. SlotsExact' BY <1>3, SlotsKept DEF Stop, workerVars, Typed
    <2> QED BY <2>1, <2>2, <2>3 DEF Typed
<1>4. ASSUME NEW c \in Controllers, Crash(c) PROVE Typed'
    BY <1>4, FreshProcessTyped DEF Crash, Typed, TypeOK
<1> QED BY <1>1, <1>2, <1>3, <1>4 DEF Fault

LEMMA TypedStep == Typed /\ [Next]_vars => Typed'
<1> SUFFICES ASSUME Typed, [Next]_vars PROVE Typed' OBVIOUS
<1>1. ASSUME NEW k \in Pods, Environment(k) PROVE Typed'
    <2>1. UNCHANGED <<procVars, semVars, workerVars, warmed, faults>>
        BY <1>1 DEF Environment, CreatePod, SchedulePod, KubeletReport, DeletePod
    <2>2. TypeOK'
        BY <1>1, <2>1, EnvironmentType DEF Typed, TypeOK, procVars, semVars,
           workerVars
    <2>3. BusyInv' BY <2>1 DEF workerVars, Typed, BusyInv
    <2>4. SlotsExact' BY <2>1, SlotsKept DEF workerVars, Typed
    <2> QED BY <2>2, <2>3, <2>4 DEF Typed
<1>2. ASSUME NEW c \in Controllers, NEW k \in Pods,
             Observe(c, k) \/ RequeueFires(c, k)
      PROVE  Typed'
    <2>1. UNCHANGED <<apiVars, stopping, semVars, workerVars, warmed, faults>>
        BY <1>2 DEF Observe, RequeueFires
    <2>2. /\ cache' \in [Controllers -> [Pods -> PodVersion \cup {None}]]
          /\ queue' \in [Controllers -> SUBSET Pods]
          /\ delayed' \in [Controllers -> SUBSET Pods]
        <3>1. CASE Observe(c, k)
            <4>1. View(c, k) \in PodVersion \cup {None} BY ViewType DEF Typed
            <4> QED BY <3>1, <4>1 DEF Observe, Typed, TypeOK
        <3>2. CASE RequeueFires(c, k)
            BY <3>2 DEF RequeueFires, Typed, TypeOK
        <3> QED BY <1>2, <3>1, <3>2
    <2>3. TypeOK' BY <2>1, <2>2 DEF Typed, TypeOK, apiVars, semVars, workerVars
    <2>4. BusyInv' BY <2>1 DEF workerVars, Typed, BusyInv
    <2>5. SlotsExact' BY <2>1, SlotsKept DEF workerVars, Typed
    <2> QED BY <2>3, <2>4, <2>5 DEF Typed
<1>3. ASSUME NEW c \in Controllers, Exit(c) PROVE Typed'
    BY <1>3, FreshProcessTyped DEF Exit, Typed, TypeOK
<1>4. CASE UNCHANGED vars
    <2>1. TypeOK'
        BY <1>4 DEF vars, Typed, TypeOK, apiVars, procVars, semVars, workerVars
    <2>2. BusyInv' BY <1>4 DEF vars, workerVars, Typed, BusyInv
    <2>3. SlotsExact' BY <1>4, SlotsKept DEF vars, workerVars, Typed
    <2> QED BY <2>1, <2>2, <2>3 DEF Typed
<1> QED BY <1>1, <1>2, <1>3, <1>4, TakeTyped, ProceedTyped, FaultTyped DEF Next

(* Every behaviour keeps to the types, never below zero.                   *)
THEOREM TypeCorrect == Spec => []TypeOK
<1>1. Typed => TypeOK BY DEF Typed
<1> QED BY <1>1, TypedInit, TypedStep, PTL DEF Spec

(* No path through Reconcile - success, failure, cancellation, conflict,   *)
(* crash - leaks a slot, releases one twice or exceeds the limit, for any  *)
(* number of workers and any --max-concurrent-warmups.                     *)
THEOREM SlotsAlwaysExact == Spec => []SlotsExact
<1>1. Typed => SlotsExact BY DEF Typed
<1> QED BY <1>1, TypedInit, TypedStep, PTL DEF Spec

=============================================================================
