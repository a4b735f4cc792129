-------------------------- MODULE PodVersionProofs --------------------------
(***************************************************************************)
(* What a write of the warmup condition may rest on: Reconcile works from  *)
(* a copy of the pod fetched before the warmup, and only the API server's  *)
(* version test ties that copy to the pod it writes to.                    *)
(***************************************************************************)
EXTENDS PodReconcilerProofs

(* p is a copy of some version of pod k: not from the future, and equal to *)
(* the stored version if it has its resourceVersion.                       *)
CopyOf(p, k) ==
    /\ p.name = k
    /\ p.rv <= rev[k]
    /\ store[k] # None /\ store[k].rv = p.rv => p = store[k]

CopiesInv ==
    /\ \A k \in Pods : store[k] # None => CopyOf(store[k], k)
    /\ \A c \in Controllers, k \in Pods :
          cache[c][k] # None => CopyOf(cache[c][k], k)

(* What worker w may rely on while it holds a snapshot. *)
WorkerInv(w) ==
    /\ snap[w] # None => /\ CopyOf(snap[w], snap[w].name)
                         /\ Unfinished(snap[w])
                         /\ WarmupEligible(snap[w])
    /\ pc[w] = "warming" /\ SameVersion(snap[w]) =>
          target[w] = Run(store[snap[w].name])
    /\ pc[w] = "update" /\ result[w] = "succeeded" /\ SameVersion(snap[w]) =>
          <<snap[w].name, Run(store[snap[w].name])>> \in warmed
    /\ pc[w] = "update" /\ result[w] = "interrupted" => stopping[CtrlOf[w]]

VersionInv == CopiesInv /\ \A w \in Workers : WorkerInv(w)

IInv == Typed /\ VersionInv

(* The ways a step may change the API server. *)
StoreStep ==
    \/ UNCHANGED apiVars
    \/ \E j \in Pods, q \in PodVersion : q.name = j /\ Put(j, q)
    \/ \E j \in Pods : store' = [store EXCEPT ![j] = None] /\ rev' = rev

-----------------------------------------------------------------------------
(* A resourceVersion is used once: a copy that still has the stored        *)
(* version's number shows that the step left the pod alone.                *)
LEMMA VersionKept ==
    ASSUME TypeOK, StoreStep, NEW k \in Pods, NEW p \in PodVersion,
           CopyOf(p, k), store'[k] # None, store'[k].rv = p.rv
    PROVE  store'[k] = store[k]
<1>1. p.rv \in Nat /\ rev[k] \in Nat /\ p.rv <= rev[k]
    BY DEF PodVersion, TypeOK, CopyOf
<1>2. CASE UNCHANGED apiVars
    BY <1>2 DEF apiVars
<1>3. ASSUME NEW j \in Pods, NEW q \in PodVersion, Put(j, q)
      PROVE  store'[k] = store[k]
    <2>1. CASE j = k
        <3>1. store'[k] = [q EXCEPT !.rv = rev[k] + 1]
            BY <1>3, <2>1 DEF Put, TypeOK
        <3>2. store'[k].rv = rev[k] + 1
            BY <3>1 DEF PodVersion
        <3> QED BY <1>1, <3>2
    <2>2. CASE j # k
        BY <1>3, <2>2 DEF Put, TypeOK
    <2> QED BY <2>1, <2>2
<1>4. ASSUME NEW j \in Pods, store' = [store EXCEPT ![j] = None]
      PROVE  store'[k] = store[k]
    BY <1>4 DEF TypeOK
<1> QED BY <1>2, <1>3, <1>4 DEF StoreStep

LEMMA RevGrows ==
    ASSUME TypeOK, StoreStep, NEW k \in Pods
    PROVE  rev[k] <= rev'[k]
<1>1. CASE UNCHANGED apiVars BY <1>1 DEF apiVars, TypeOK
<1>2. ASSUME NEW j \in Pods, NEW q \in PodVersion, Put(j, q)
      PROVE  rev[k] <= rev'[k]
    BY <1>2 DEF Put, TypeOK
<1>3. CASE rev' = rev BY <1>3 DEF TypeOK
<1> QED BY <1>1, <1>2, <1>3 DEF StoreStep

LEMMA CopyKept ==
    ASSUME TypeOK, TypeOK', StoreStep, NEW k \in Pods, NEW p \in PodVersion,
           CopyOf(p, k)
    PROVE  CopyOf(p, k)'
<1>1. p.rv <= rev'[k]
    <2>1. p.rv \in Nat /\ rev[k] \in Nat /\ rev'[k] \in Nat
        BY DEF PodVersion, TypeOK
    <2> QED BY <2>1, RevGrows DEF CopyOf
<1>2. ASSUME store'[k] # None, store'[k].rv = p.rv PROVE p = store'[k]
    <2>1. store'[k] = store[k] BY <1>2, VersionKept
    <2> QED BY <1>2, <2>1 DEF CopyOf
<1> QED BY <1>1, <1>2 DEF CopyOf

(* The version just stored is a copy of itself. *)
LEMMA StoreCopies ==
    ASSUME TypeOK, TypeOK', StoreStep,
           \A k \in Pods : store[k] # None => CopyOf(store[k], k)
    PROVE  \A k \in Pods : store'[k] # None => CopyOf(store[k], k)'
<1> SUFFICES ASSUME NEW k \in Pods, store'[k] # None
             PROVE  store'[k].name = k /\ store'[k].rv <= rev'[k]
    BY DEF CopyOf
<1>1. CASE UNCHANGED apiVars
    BY <1>1 DEF apiVars, CopyOf
<1>2. ASSUME NEW j \in Pods, NEW q \in PodVersion, q.name = j, Put(j, q)
      PROVE  store'[k].name = k /\ store'[k].rv <= rev'[k]
    <2>1. CASE j = k
        <3>1. store'[k] = [q EXCEPT !.rv = rev[k] + 1] /\ rev'[k] = rev[k] + 1
            BY <1>2, <2>1 DEF Put, TypeOK
        <3>2. store'[k].rv = rev[k] + 1 /\ store'[k].name = k
            BY <1>2, <2>1, <3>1 DEF PodVersion
        <3> QED BY <3>1, <3>2 DEF TypeOK
    <2>2. CASE j # k
        BY <1>2, <2>2 DEF Put, TypeOK, CopyOf
    <2> QED BY <2>1, <2>2
<1>3. ASSUME NEW j \in Pods, store' = [store EXCEPT ![j] = None], rev' = rev
      PROVE  store'[k].name = k /\ store'[k].rv <= rev'[k]
    BY <1>3 DEF TypeOK, CopyOf
<1> QED BY <1>1, <1>2, <1>3 DEF StoreStep

-----------------------------------------------------------------------------
(* Every step changes the API server in one of the ways of StoreStep. *)
LEMMA EnvironmentStores ==
    ASSUME TypeOK, NEW k \in Pods, Environment(k),
           store[k] # None => CopyOf(store[k], k)
    PROVE  StoreStep
<1>1. CASE CreatePod(k)
    <2>1. PICK spec \in PodSpecs, up \in BOOLEAN :
              Put(k, IF up THEN Handle(NewPod(k, spec)) ELSE NewPod(k, spec))
        BY <1>1 DEF CreatePod
    <2>2. NewPod(k, spec).name = k /\ Handle(NewPod(k, spec)).name = k
        BY DEF NewPod, Handle, InjectGate
    <2> QED BY <2>1, <2>2, NewPodType DEF StoreStep
<1>2. CASE SchedulePod(k)
    <2>1. PICK n \in Nodes : Put(k, [store[k] EXCEPT !.node = n])
        BY <1>2 DEF SchedulePod
    <2>2. store[k] \in PodVersion /\ store[k].name = k
        BY <1>2 DEF SchedulePod, TypeOK, CopyOf
    <2>3. /\ [store[k] EXCEPT !.node = n] \in PodVersion
          /\ [store[k] EXCEPT !.node = n].name = k
        BY <2>2 DEF PodVersion
    <2> QED BY <2>1, <2>3 DEF StoreStep
<1>3. CASE KubeletReport(k)
    <2>1. PICK s \in StatusReports, r \in {0, 1} :
              Put(k, [store[k] EXCEPT !.phase = s.phase,
                                      !.statuses = s.statuses,
                                      !.containersReady = s.containersReady,
                                      !.restarts = @ + r])
        BY <1>3 DEF KubeletReport
    <2> DEFINE p == [store[k] EXCEPT !.phase = s.phase,
                                     !.statuses = s.statuses,
                                     !.containersReady = s.containersReady,
                                     !.restarts = @ + r]
    <2>2. store[k] \in PodVersion /\ store[k].name = k
        BY <1>3 DEF KubeletReport, TypeOK, CopyOf
    <2>3. store[k].restarts + r \in Nat
        BY <2>2 DEF PodVersion
    <2>4. p \in PodVersion /\ p.name = k
        BY <2>2, <2>3, EnvironmentAssumption DEF PodVersion
    <2> QED BY <2>1, <2>4 DEF StoreStep
<1>4. CASE DeletePod(k)
    BY <1>4 DEF DeletePod, StoreStep
<1> QED BY <1>1, <1>2, <1>3, <1>4 DEF Environment

(* A condition update stores a version of the pod it was fetched as. *)
LEMMA UpdateStores ==
    ASSUME Typed, NEW w \in Workers, pc[w] = "update",
           Put(snap[w].name, WithCondition(snap[w], result[w]))
    PROVE  StoreStep
<1>1. snap[w] \in PodVersion /\ snap[w].name \in Pods
    BY DEF Typed, TypeOK, BusyInv, PodVersion
<1>2. /\ WithCondition(snap[w], result[w]) \in PodVersion
      /\ WithCondition(snap[w], result[w]).name = snap[w].name
    BY <1>1 DEF WithCondition, Reason, PodVersion
<1> QED BY <1>1, <1>2 DEF StoreStep

(* Only the environment and an accepted status update write to the API     *)
(* server.                                                                 *)
LEMMA StoreWriters ==
    ASSUME [Next]_vars
    PROVE  \/ UNCHANGED apiVars
           \/ \E k \in Pods : Environment(k)
           \/ \E w \in Workers : UpdateOK(w) \/ UpdateUnacked(w)
<1>1. ASSUME NEW w \in Workers, Proceed(w), ~UpdateOK(w) PROVE UNCHANGED apiVars
    BY <1>1 DEF Proceed, Acquire, AcquireCancelled, LookupFound, LookupFails,
       FinishWarmup, UpdateRejected
<1>2. ASSUME NEW w \in Workers, NEW k \in Pods, Take(w, k) PROVE UNCHANGED apiVars
    BY <1>2 DEF Take, ReconcileSkip, ReconcileRequeue, ReconcileAdmit
<1>3. ASSUME NEW c \in Controllers, NEW k \in Pods,
             Observe(c, k) \/ RequeueFires(c, k)
      PROVE  UNCHANGED apiVars
    BY <1>3 DEF Observe, RequeueFires
<1>4. ASSUME NEW c \in Controllers, Exit(c) PROVE UNCHANGED apiVars
    BY <1>4 DEF Exit, FreshProcess
<1>5. ASSUME Fault, ~\E w \in Workers : UpdateUnacked(w) PROVE UNCHANGED apiVars
    BY <1>5 DEF Fault, UpdateLost, ReconcileGetError, Stop, Crash, FreshProcess
<1>6. CASE UNCHANGED vars
    BY <1>6 DEF vars
<1> QED BY <1>1, <1>2, <1>3, <1>4, <1>5, <1>6 DEF Next

LEMMA NextStores ==
    ASSUME IInv, [Next]_vars
    PROVE  StoreStep
<1>1. ASSUME NEW k \in Pods, Environment(k) PROVE StoreStep
    BY <1>1, EnvironmentStores DEF IInv, Typed, VersionInv, CopiesInv
<1>2. ASSUME NEW w \in Workers, UpdateOK(w) \/ UpdateUnacked(w) PROVE StoreStep
    BY <1>2, UpdateStores DEF UpdateOK, UpdateUnacked, IInv
<1> QED BY <1>1, <1>2, StoreWriters DEF StoreStep

-----------------------------------------------------------------------------
(* A worker that takes no part in a step keeps its invariant. *)
LEMMA WorkerKept ==
    ASSUME IInv, TypeOK', StoreStep, NEW v \in Workers,
           pc'[v] = pc[v], snap'[v] = snap[v], result'[v] = result[v],
           target'[v] = target[v], warmed \subseteq warmed',
           stopping[CtrlOf[v]] => stopping'[CtrlOf[v]]
    PROVE  WorkerInv(v)'
<1>1. CASE snap[v] = None
    <2>1. pc[v] = "idle" BY <1>1 DEF IInv, Typed, BusyInv
    <2> QED BY <1>1, <2>1 DEF WorkerInv
<1>2. CASE snap[v] # None
    <2> DEFINE p == snap[v]
               k == p.name
    <2>1. p \in PodVersion /\ k \in Pods
        BY <1>2 DEF IInv, Typed, TypeOK, PodVersion
    <2>2. WorkerInv(v) BY DEF IInv, VersionInv
    <2>3. CopyOf(p, k) BY <1>2, <2>2 DEF WorkerInv
    <2>4. CopyOf(p, k)' BY <2>1, <2>3, CopyKept DEF IInv, Typed
    <2>5. SameVersion(p)' => store'[k] = store[k] /\ SameVersion(p)
        BY <2>1, <2>3, VersionKept DEF SameVersion, IInv, Typed
    <2> QED BY <2>2, <2>4, <2>5 DEF WorkerInv, SameVersion, Unfinished
<1> QED BY <1>1, <1>2

LEMMA WorkerIdle ==
    ASSUME NEW v \in Workers, pc'[v] = "idle", snap'[v] = None
    PROVE  WorkerInv(v)'
BY DEF WorkerInv

(* A cache entry changes to another version only by a watch event. *)
LEMMA CacheChanges ==
    ASSUME IInv, [Next]_vars, NEW c \in Controllers, NEW k \in Pods,
           cache'[c][k] # None, cache'[c][k] # cache[c][k]
    PROVE  \E d \in Controllers, j \in Pods : Observe(d, j)
<1>1. \A d \in Controllers : FreshProcess(d) => cache'[c][k] \in {cache[c][k], None}
    BY DEF FreshProcess, IInv, Typed, TypeOK
<1>2. cache' # cache OBVIOUS
<1>3. ASSUME NEW i \in Pods, Environment(i) PROVE cache' = cache
    BY <1>3 DEF Environment, CreatePod, SchedulePod, KubeletReport, DeletePod,
       procVars
<1>4. ASSUME NEW w \in Workers, Proceed(w) PROVE cache' = cache
    BY <1>4 DEF Proceed, Acquire, AcquireCancelled, LookupFound, LookupFails,
       FinishWarmup, UpdateOK, UpdateRejected, procVars
<1>5. ASSUME NEW w \in Workers, NEW i \in Pods, Take(w, i) PROVE cache' = cache
    BY <1>5 DEF Take, ReconcileSkip, ReconcileRequeue, ReconcileAdmit
<1>6. ASSUME NEW d \in Controllers, NEW i \in Pods, RequeueFires(d, i)
      PROVE  cache' = cache
    BY <1>6 DEF RequeueFires
<1>7. ASSUME Fault
      PROVE  cache' = cache \/ \E d \in Controllers : FreshProcess(d)
    BY <1>7 DEF Fault, UpdateLost, UpdateUnacked, ReconcileGetError, Stop, Crash
<1>8. ASSUME UNCHANGED vars PROVE cache' = cache
    BY <1>8 DEF vars, procVars
<1> QED BY <1>1, <1>2, <1>3, <1>4, <1>5, <1>6, <1>7, <1>8 DEF Next, Exit

(* The cache only ever takes over stored versions. *)
LEMMA CopiesStep ==
    ASSUME IInv, [Next]_vars, TypeOK'
    PROVE  CopiesInv'
<1>0. StoreStep BY NextStores
<1>1. \A k \in Pods : store'[k] # None => CopyOf(store[k], k)'
    BY <1>0, StoreCopies DEF IInv, Typed, VersionInv, CopiesInv
<1>2. ASSUME NEW c \in Controllers, NEW k \in Pods, cache'[c][k] # None,
             cache'[c][k] = cache[c][k]
      PROVE  CopyOf(cache[c][k], k)'
    <2>1. cache[c][k] \in PodVersion /\ CopyOf(cache[c][k], k)
        BY <1>2 DEF IInv, Typed, TypeOK, VersionInv, CopiesInv
    <2>2. ASSUME NEW p, p = cache[c][k] PROVE CopyOf(p, k)'
        BY <1>0, <2>1, <2>2, CopyKept DEF IInv, Typed
    <2> QED BY <1>2, <2>2 DEF CopyOf
<1>3. ASSUME NEW c \in Controllers, NEW k \in Pods, cache'[c][k] # None,
             cache'[c][k] # cache[c][k]
      PROVE  CopyOf(cache[c][k], k)'
    <2>1. PICK d \in Controllers, j \in Pods : Observe(d, j)
        BY <1>3, CacheChanges
    <2>2. cache'[c][k] = store[k] /\ UNCHANGED apiVars
        BY <1>3, <2>1 DEF Observe, View, IInv, Typed, TypeOK
    <2> QED BY <1>1, <1>3, <2>2 DEF apiVars, CopyOf
<1> QED BY <1>1, <1>2, <1>3 DEF CopiesInv

(* Begin: a warmup that starts now has the stored run as its target. *)
LEMMA BeginWorker ==
    ASSUME IInv, TypeOK', NEW w \in Workers, NEW p \in PodVersion, p # None,
           CopyOf(p, p.name), Unfinished(p), WarmupEligible(p),
           Begin(w, p), snap'[w] = p, UNCHANGED apiVars
    PROVE  WorkerInv(w)'
<1>1. p.name \in Pods /\ p.cfg \in {"invalid", "annotation", "warmupconfig"}
    BY DEF PodVersion
<1>2. /\ pc'[w] = "warming" => target'[w] = LiveRun(p.name)
      /\ pc'[w] = "update" => result'[w] = "failed"
    BY <1>1 DEF Begin, IInv, Typed, TypeOK
<1>3. store' = store /\ rev' = rev BY DEF apiVars
<1>4. CopyOf(p, p.name)' BY <1>3 DEF CopyOf
<1>5. SameVersion(p)' /\ target'[w] = LiveRun(p.name) =>
          target'[w] = Run(store[p.name])
    BY <1>3 DEF SameVersion, LiveRun
<1> QED BY <1>2, <1>3, <1>4, <1>5 DEF WorkerInv, SameVersion, Unfinished

LEMMA ProceedWorkers ==
    ASSUME IInv, TypeOK', NEW w \in Workers, Proceed(w), NEW v \in Workers
    PROVE  WorkerInv(v)'
<1>0. /\ StoreStep
      /\ WorkerInv(w)
      /\ pc[w] # "idle"
      /\ snap[w] \in PodVersion /\ snap[w] # None /\ snap[w].name \in Pods
    <2>1. StoreStep BY NextStores DEF Next
    <2>2. pc[w] # "idle"
        BY DEF Proceed, Acquire, AcquireCancelled, LookupFound, LookupFails,
           FinishWarmup, UpdateOK, UpdateRejected
    <2> QED BY <2>1, <2>2 DEF IInv, VersionInv, Typed, TypeOK, BusyInv, PodVersion
<1>1. CASE v # w
    <2>1. /\ pc'[v] = pc[v] /\ snap'[v] = snap[v] /\ result'[v] = result[v]
          /\ target'[v] = target[v]
        BY <1>1 DEF Proceed, Acquire, Begin, AcquireCancelled, LookupFound,
           LookupFails, FinishWarmup, UpdateOK, UpdateRejected, Return, IInv, Typed,
           TypeOK
    <2>2. warmed \subseteq warmed' /\ stopping' = stopping
        BY DEF Proceed, Acquire, AcquireCancelled, LookupFound, LookupFails,
           FinishWarmup, UpdateOK, UpdateRejected, procVars
    <2> QED BY <1>0, <2>1, <2>2, WorkerKept
<1>2. CASE v = w /\ Acquire(w)
    BY <1>0, <1>2, BeginWorker DEF Acquire, WorkerInv
<1>3. CASE v = w /\ AcquireCancelled(w)
    BY <1>3, WorkerIdle DEF AcquireCancelled, IInv, Typed, TypeOK
<1>4. CASE v = w /\ LookupFound(w)
    <2>1. /\ pc'[w] = "warming" /\ snap' = snap /\ store' = store /\ rev' = rev
          /\ target'[w] = LiveRun(snap[w].name)
        BY <1>4 DEF LookupFound, apiVars, IInv, Typed, TypeOK
    <2> QED BY <1>0, <1>4, <2>1 DEF WorkerInv, CopyOf, SameVersion, Unfinished,
            LiveRun
<1>5. CASE v = w /\ LookupFails(w)
    <2>1. /\ pc'[w] = "update" /\ snap' = snap /\ store' = store /\ rev' = rev
          /\ result'[w] = "failed"
        BY <1>5 DEF LookupFails, apiVars, IInv, Typed, TypeOK
    <2> QED BY <1>0, <1>5, <2>1 DEF WorkerInv, CopyOf, SameVersion, Unfinished
<1>6. CASE v = w /\ FinishWarmup(w)
    <2> DEFINE k == snap[w].name
    <2>1. /\ pc[w] = "warming" /\ pc'[w] = "update"
          /\ snap' = snap /\ store' = store /\ rev' = rev /\ stopping' = stopping
        BY <1>6 DEF FinishWarmup, apiVars, procVars, IInv, Typed, TypeOK
    <2>2. result'[w] = "interrupted" => stopping[CtrlOf[w]]
        BY <1>6 DEF FinishWarmup, IInv, Typed, TypeOK
    <2>3. ASSUME result'[w] = "succeeded", SameVersion(snap[w])
          PROVE  <<k, Run(store[k])>> \in warmed'
        <3>1. target[w] = Run(store[k]) BY <1>0, <2>1, <2>3 DEF WorkerInv
        <3>2. LiveRun(k) = Run(store[k]) BY <2>3 DEF SameVersion, LiveRun
        <3>3. store[k] \in PodVersion
            BY <1>0, <2>3 DEF SameVersion, IInv, Typed, TypeOK
        <3>4. Run(store[k]) \in PodRun BY <3>3 DEF Run, PodRun, PodVersion
        <3>5. target[w] # None BY <3>1, <3>4, NoneAssumption
        <3> QED BY <1>6, <2>3, <3>1, <3>2, <3>5
                DEF FinishWarmup, IInv, Typed, TypeOK
    <2> QED BY <1>0, <1>6, <2>1, <2>2, <2>3
            DEF WorkerInv, CopyOf, SameVersion, Unfinished
<1>7. CASE v = w /\ (UpdateOK(w) \/ UpdateRejected(w))
    BY <1>7, WorkerIdle DEF UpdateOK, UpdateRejected, Return, IInv, Typed, TypeOK
<1> QED BY <1>1, <1>2, <1>3, <1>4, <1>5, <1>6, <1>7 DEF Proceed

LEMMA TakeWorkers ==
    ASSUME IInv, TypeOK', NEW w \in Workers, NEW k \in Pods, Take(w, k),
           NEW v \in Workers
    PROVE  WorkerInv(v)'
<1>0. StoreStep BY NextStores DEF Next
<1> DEFINE p == cache[CtrlOf[w]][k]
<1>1. CASE ~ReconcileAdmit(w, k)
    <2>1. UNCHANGED <<workerVars, warmed, stopping>>
        BY <1>1 DEF Take, ReconcileSkip, ReconcileRequeue
    <2> QED BY <1>0, <2>1, WorkerKept DEF workerVars
<1>2. CASE ReconcileAdmit(w, k)
    <2>1. /\ UNCHANGED apiVars
          /\ stopping' = stopping /\ warmed' = warmed
          /\ snap' = [snap EXCEPT ![w] = p]
          /\ p # None /\ Unfinished(p) /\ WarmupEligible(p)
          /\ pc[w] = "idle"
        BY <1>2 DEF ReconcileAdmit, Due, Unfinished
    <2>2. p \in PodVersion /\ CopyOf(p, k) /\ p.name = k
        <3>1. CtrlOf[w] \in Controllers BY DeploymentAssumption
        <3>2. p \in PodVersion BY <2>1, <3>1 DEF IInv, Typed, TypeOK
        <3>3. CopyOf(p, k) BY <2>1, <3>1 DEF IInv, VersionInv, CopiesInv
        <3> QED BY <3>2, <3>3 DEF CopyOf
    <2>3. snap'[w] = p BY <2>1 DEF IInv, Typed, TypeOK
    <2>4. CASE v # w
        <3>1. /\ pc'[v] = pc[v] /\ snap'[v] = snap[v] /\ result'[v] = result[v]
              /\ target'[v] = target[v]
            BY <1>2, <2>4 DEF ReconcileAdmit, Begin, IInv, Typed, TypeOK
        <3> QED BY <1>0, <2>1, <3>1, WorkerKept
    <2>5. CASE v = w /\ MaxConcurrentWarmups > 0
        <3>1. pc'[w] = "queued"
            BY <1>2, <2>5 DEF ReconcileAdmit, IInv, Typed, TypeOK
        <3> QED BY <2>1, <2>2, <2>3, <2>5, <3>1
                DEF WorkerInv, CopyOf, Unfinished, apiVars
    <2>6. CASE v = w /\ ~(MaxConcurrentWarmups > 0)
        <3>1. Begin(w, p) BY <1>2, <2>6 DEF ReconcileAdmit
        <3> QED BY <2>1, <2>2, <2>3, <2>6, <3>1, BeginWorker
    <2> QED BY <2>4, <2>5, <2>6
<1> QED BY <1>1, <1>2

LEMMA FreshWorkers ==
    ASSUME IInv, TypeOK', NEW c \in Controllers, FreshProcess(c),
           NEW v \in Workers
    PROVE  WorkerInv(v)'
<1>1. CASE CtrlOf[v] = c
    BY <1>1, WorkerIdle DEF FreshProcess
<1>2. CASE CtrlOf[v] # c
    <2>1. StoreStep BY DEF FreshProcess, StoreStep
    <2>2. /\ pc'[v] = pc[v] /\ snap'[v] = snap[v] /\ result'[v] = result[v]
          /\ target'[v] = target[v] /\ warmed' = warmed
          /\ stopping'[CtrlOf[v]] = stopping[CtrlOf[v]]
        BY <1>2, DeploymentAssumption DEF FreshProcess, IInv, Typed, TypeOK
    <2> QED BY <2>1, <2>2, WorkerKept
<1> QED BY <1>1, <1>2

LEMMA FaultWorkers ==
    ASSUME IInv, TypeOK', Fault, NEW v \in Workers
    PROVE  WorkerInv(v)'
<1>0. StoreStep BY NextStores DEF Next
<1>1. ASSUME NEW w \in Workers, UpdateLost(w) \/ UpdateUnacked(w)
      PROVE  WorkerInv(v)'
    <2>1. Return(w) /\ warmed' = warmed /\ stopping' = stopping
        BY <1>1 DEF UpdateLost, UpdateUnacked
    <2>2. CASE v = w
        BY <2>1, <2>2, WorkerIdle DEF Return, IInv, Typed, TypeOK
    <2>3. CASE v # w
        <3>1. /\ pc'[v] = pc[v] /\ snap'[v] = snap[v] /\ result'[v] = result[v]
              /\ target'[v] = target[v]
            BY <2>1, <2>3 DEF Return, IInv, Typed, TypeOK
        <3> QED BY <1>0, <2>1, <3>1, WorkerKept
    <2> QED BY <2>2, <2>3
<1>2. ASSUME NEW w \in Workers, NEW k \in Pods, ReconcileGetError(w, k)
      PROVE  WorkerInv(v)'
    BY <1>0, <1>2, WorkerKept DEF ReconcileGetError, workerVars
<1>3. ASSUME NEW c \in Controllers, Stop(c) PROVE WorkerInv(v)'
    <2>1. stopping[CtrlOf[v]] => stopping'[CtrlOf[v]]
        BY <1>3, DeploymentAssumption DEF Stop, IInv, Typed, TypeOK
    <2> QED BY <1>0, <1>3, <2>1, WorkerKept DEF Stop, workerVars
<1>4. ASSUME NEW c \in Controllers, Crash(c) PROVE WorkerInv(v)'
    BY <1>4, FreshWorkers DEF Crash
<1> QED BY <1>1, <1>2, <1>3, <1>4 DEF Fault

LEMMA IInvStep == IInv /\ [Next]_vars => IInv'
<1> SUFFICES ASSUME IInv, [Next]_vars PROVE IInv' OBVIOUS
<1>0. Typed' /\ TypeOK' BY TypedStep DEF IInv, Typed
<1>1. CopiesInv' BY <1>0, CopiesStep
<1>2. StoreStep BY NextStores
<1>3. ASSUME NEW v \in Workers PROVE WorkerInv(v)'
    <2>1. ASSUME NEW k \in Pods, Environment(k) PROVE WorkerInv(v)'
        <3>1. UNCHANGED <<procVars, workerVars, warmed>>
            BY <2>1 DEF Environment, CreatePod, SchedulePod, KubeletReport,
               DeletePod
        <3> QED BY <1>0, <1>2, <3>1, WorkerKept DEF procVars, workerVars
    <2>2. ASSUME NEW c \in Controllers, NEW k \in Pods,
                 Observe(c, k) \/ RequeueFires(c, k)
          PROVE  WorkerInv(v)'
        <3>1. UNCHANGED <<stopping, workerVars, warmed>>
            BY <2>2 DEF Observe, RequeueFires
        <3> QED BY <1>0, <1>2, <3>1, WorkerKept DEF workerVars
    <2>3. ASSUME NEW c \in Controllers, Exit(c) PROVE WorkerInv(v)'
        BY <1>0, <2>3, FreshWorkers DEF Exit
    <2>4. CASE UNCHANGED vars
        BY <1>0, <1>2, <2>4, WorkerKept DEF vars, procVars, workerVars
    <2> QED BY <1>0, <2>1, <2>2, <2>3, <2>4, TakeWorkers, ProceedWorkers,
            FaultWorkers DEF Next
<1> QED BY <1>0, <1>1, <1>3 DEF IInv, VersionInv

LEMMA IInvInit == Init => IInv
<1> SUFFICES ASSUME Init PROVE IInv OBVIOUS
<1>1. CopiesInv BY DEF Init, CopiesInv
<1>2. \A w \in Workers : WorkerInv(w) BY DEF Init, WorkerInv
<1> QED BY <1>1, <1>2, TypedInit DEF IInv, VersionInv

-----------------------------------------------------------------------------
(* The environment leaves the warmup condition of a pod alone. *)
LEMMA EnvironmentKeepsCondition ==
    ASSUME IInv, NEW j \in Pods, Environment(j), NEW k \in Pods
    PROVE  ~WritesCondition(k)
<1> SUFFICES ASSUME store[k] # None, store'[k] # None
             PROVE  store'[k].cond = store[k].cond
    BY DEF WritesCondition
<1>1. store \in [Pods -> PodVersion \cup {None}] /\ store[k] \in PodVersion
    BY DEF IInv, Typed, TypeOK
<1>2. CASE j # k
    <2>1. store'[k] = store[k]
        BY <1>1, <1>2 DEF Environment, CreatePod, SchedulePod, KubeletReport,
           DeletePod, Put
    <2> QED BY <2>1
<1>3. CASE j = k /\ (CreatePod(k) \/ DeletePod(k))
    BY <1>1, <1>3 DEF CreatePod, DeletePod
<1>4. CASE j = k /\ SchedulePod(k)
    <2>1. PICK n \in Nodes :
              store'[k] = [[store[k] EXCEPT !.node = n] EXCEPT !.rv = rev[k] + 1]
        BY <1>1, <1>4 DEF SchedulePod, Put
    <2> QED BY <1>1, <2>1 DEF PodVersion
<1>5. CASE j = k /\ KubeletReport(k)
    <2>1. PICK s \in StatusReports, r \in {0, 1} :
              store'[k] = [[store[k] EXCEPT !.phase = s.phase,
                                           !.statuses = s.statuses,
                                           !.containersReady = s.containersReady,
                                           !.restarts = @ + r]
                              EXCEPT !.rv = rev[k] + 1]
        BY <1>1, <1>5 DEF KubeletReport, Put
    <2> QED BY <1>1, <2>1 DEF PodVersion
<1> QED BY <1>2, <1>3, <1>4, <1>5 DEF Environment

(* Whoever writes the condition of a pod fetched exactly the version it    *)
(* replaces, and its context was not done.                                 *)
LEMMA ConditionWriter ==
    ASSUME IInv, [Next]_vars, NEW k \in Pods, WritesCondition(k)
    PROVE  \E w \in Workers :
               /\ pc[w] = "update"
               /\ snap[w] = store[k]
               /\ SameVersion(snap[w])
               /\ ~stopping[CtrlOf[w]]
               /\ store'[k] = [store[k] EXCEPT !.cond = Reason(result[w]),
                                               !.rv = rev[k] + 1]
               /\ pc'[w] = "idle"
               /\ warmed' = warmed
<1>1. store' # store
    BY DEF WritesCondition
<1>2. ASSUME NEW j \in Pods, Environment(j) PROVE FALSE
    BY <1>2, EnvironmentKeepsCondition
<1>3. PICK w \in Workers : UpdateOK(w) \/ UpdateUnacked(w)
    BY <1>1, <1>2, StoreWriters DEF apiVars
<1>4. /\ pc[w] = "update"
      /\ ~stopping[CtrlOf[w]]
      /\ SameVersion(snap[w])
      /\ Put(snap[w].name, WithCondition(snap[w], result[w]))
      /\ Return(w)
      /\ warmed' = warmed
    BY <1>3 DEF UpdateOK, UpdateUnacked, UpdateAccepted
<1>5. /\ snap[w] \in PodVersion
      /\ snap[w].name \in Pods
      /\ CopyOf(snap[w], snap[w].name)
    <2>1. snap[w] # None BY <1>4 DEF IInv, Typed, BusyInv
    <2>2. snap[w] \in PodVersion BY <2>1 DEF IInv, Typed, TypeOK
    <2>3. snap[w].name \in Pods BY <2>2 DEF PodVersion
    <2>4. CopyOf(snap[w], snap[w].name)
        BY <2>1 DEF IInv, VersionInv, WorkerInv
    <2> QED BY <2>2, <2>3, <2>4
<1>6. snap[w].name = k
    BY <1>4, <1>5 DEF WritesCondition, Put, IInv, Typed, TypeOK
<1>7. snap[w] = store[k]
    BY <1>4, <1>5, <1>6 DEF SameVersion, CopyOf
<1>8. store'[k] = [WithCondition(store[k], result[w]) EXCEPT !.rv = rev[k] + 1]
    BY <1>4, <1>5, <1>6, <1>7 DEF Put, IInv, Typed, TypeOK
<1>9. store'[k] = [store[k] EXCEPT !.cond = Reason(result[w]), !.rv = rev[k] + 1]
    BY <1>8 DEF WithCondition
<1>10. pc'[w] = "idle" BY <1>4 DEF Return, IInv, Typed, TypeOK
<1> QED BY <1>4, <1>7, <1>9, <1>10

(* WarmupComplete is written only for a pod whose reported container run   *)
(* was warmed up from start to end, whatever happened during the warmup:   *)
(* deletion and re-creation, restarts, other replicas, retries, crashes.   *)
THEOREM CompleteIsWarmed == Spec => CompleteMeansWarmed
<1> DEFINE A == \A k \in Pods :
                   WritesCondition(k) /\ store'[k].cond = "WarmupComplete" =>
                       <<k, Run(store'[k])>> \in warmed
<1>1. ASSUME IInv, [Next]_vars PROVE A
    <2> SUFFICES ASSUME NEW k \in Pods, WritesCondition(k),
                        store'[k].cond = "WarmupComplete"
                 PROVE  <<k, Run(store'[k])>> \in warmed
        OBVIOUS
    <2>1. PICK w \in Workers :
              /\ pc[w] = "update"
              /\ snap[w] = store[k]
              /\ SameVersion(snap[w])
              /\ store'[k] = [store[k] EXCEPT !.cond = Reason(result[w]),
                                              !.rv = rev[k] + 1]
        BY <1>1, ConditionWriter
    <2>2. store[k] \in PodVersion
        BY <1>1 DEF WritesCondition, IInv, Typed, TypeOK
    <2>3. result[w] = "succeeded"
        BY <2>1, <2>2 DEF Reason, PodVersion
    <2>4. snap[w].name = k
        BY <1>1, <2>1 DEF WritesCondition, IInv, VersionInv, CopiesInv, CopyOf
    <2>5. <<k, Run(store[k])>> \in warmed
        BY <1>1, <2>1, <2>3, <2>4 DEF IInv, VersionInv, WorkerInv
    <2>6. Run(store'[k]) = Run(store[k])
        BY <2>1, <2>2 DEF Run, PodVersion
    <2> QED BY <2>5, <2>6
<1>2. IInv /\ [Next]_vars => [A]_vars BY <1>1
<1>3. Spec => [][A]_vars BY <1>2, IInvInit, IInvStep, PTL DEF Spec
<1> QED BY <1>3 DEF CompleteMeansWarmed

(* A gate opens only on a gated pod that is running with all containers    *)
(* ready when the condition is written.                                    *)
THEOREM GateOpensReady == Spec => GateOpensOnReadyPod
<1> DEFINE A == \A k \in Pods :
                   WritesCondition(k) => /\ hasReadinessGate(store[k])
                                         /\ WarmupEligible(store[k])
<1>1. ASSUME IInv, [Next]_vars PROVE A
    <2> SUFFICES ASSUME NEW k \in Pods, WritesCondition(k)
                 PROVE  hasReadinessGate(store[k]) /\ WarmupEligible(store[k])
        OBVIOUS
    <2>1. PICK w \in Workers : snap[w] = store[k]
        BY <1>1, ConditionWriter
    <2> QED BY <1>1, <2>1 DEF WritesCondition, IInv, VersionInv, WorkerInv, Unfinished
<1>2. IInv /\ [Next]_vars => [A]_vars BY <1>1
<1>3. Spec => [][A]_vars BY <1>2, IInvInit, IInvStep, PTL DEF Spec
<1> QED BY <1>3 DEF GateOpensOnReadyPod

(* setConditionTrue sends the whole object it copied before the warmup, and *)
(* still no write of the kubelet or the scheduler is ever undone.          *)
THEOREM UpdateLosesNothing == Spec => NoLostUpdate
<1> DEFINE A == \A k \in Pods :
                   WritesCondition(k) =>
                       store'[k] = [store[k] EXCEPT !.cond = store'[k].cond,
                                                    !.rv = store'[k].rv]
<1>1. ASSUME IInv, [Next]_vars PROVE A
    <2> SUFFICES ASSUME NEW k \in Pods, WritesCondition(k)
                 PROVE  store'[k] = [store[k] EXCEPT !.cond = store'[k].cond,
                                                     !.rv = store'[k].rv]
        OBVIOUS
    <2>1. PICK w \in Workers :
              store'[k] = [store[k] EXCEPT !.cond = Reason(result[w]),
                                           !.rv = rev[k] + 1]
        BY <1>1, ConditionWriter
    <2>2. store[k] \in PodVersion
        BY <1>1 DEF WritesCondition, IInv, Typed, TypeOK
    <2>3. store'[k].cond = Reason(result[w]) /\ store'[k].rv = rev[k] + 1
        BY <2>1, <2>2 DEF PodVersion
    <2> QED BY <2>1, <2>3
<1>2. IInv /\ [Next]_vars => [A]_vars BY <1>1
<1>3. Spec => [][A]_vars BY <1>2, IInvInit, IInvStep, PTL DEF Spec
<1> QED BY <1>3 DEF NoLostUpdate

(* No replica, retry or restarted controller rewrites a recorded outcome.  *)
THEOREM OutcomeStaysFinal == Spec => OutcomeIsFinal
<1> DEFINE A == \A k \in Pods : WritesCondition(k) => store[k].cond = "Unset"
<1>1. ASSUME IInv, [Next]_vars PROVE A
    <2> SUFFICES ASSUME NEW k \in Pods, WritesCondition(k)
                 PROVE  store[k].cond = "Unset"
        OBVIOUS
    <2>1. PICK w \in Workers : snap[w] = store[k]
        BY <1>1, ConditionWriter
    <2> QED BY <1>1, <2>1 DEF WritesCondition, IInv, VersionInv, WorkerInv, Unfinished,
            isConditionTrue
<1>2. IInv /\ [Next]_vars => [A]_vars BY <1>1
<1>3. Spec => [][A]_vars BY <1>2, IInvInit, IInvStep, PTL DEF Spec
<1> QED BY <1>3 DEF OutcomeIsFinal

(* A warmup cut short by a shutdown opens no gate.                          *)
THEOREM ShutdownOpensNoGate == Spec => ShutdownNeverOpensGate
<1> DEFINE A == \A w \in Workers :
                   pc[w] = "update" /\ result[w] = "interrupted" /\ pc'[w] = "idle" =>
                       store' = store
<1>1. ASSUME IInv, [Next]_vars PROVE A
    <2> SUFFICES ASSUME NEW w \in Workers, pc[w] = "update",
                        result[w] = "interrupted", pc'[w] = "idle",
                        store' # store
                 PROVE  FALSE
        OBVIOUS
    <2>1. stopping[CtrlOf[w]] BY <1>1 DEF IInv, VersionInv, WorkerInv
    <2>2. ASSUME NEW k \in Pods, Environment(k) PROVE FALSE
        BY <2>2 DEF Environment, CreatePod, SchedulePod, KubeletReport, DeletePod,
           workerVars
    <2>3. ASSUME NEW v \in Workers, UpdateOK(v) \/ UpdateUnacked(v) PROVE FALSE
        <3>1. v # w BY <2>1, <2>3 DEF UpdateOK, UpdateUnacked, UpdateAccepted
        <3> QED BY <1>1, <2>3, <3>1 DEF UpdateOK, UpdateUnacked, Return, IInv, Typed,
                TypeOK
    <2> QED BY <1>1, <2>2, <2>3, StoreWriters DEF apiVars
<1>2. IInv /\ [Next]_vars => [A]_vars BY <1>1
<1>3. Spec => [][A]_vars BY <1>2, IInvInit, IInvStep, PTL DEF Spec
<1> QED BY <1>3 DEF ShutdownNeverOpensGate

=============================================================================
