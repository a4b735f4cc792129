-------------------------- MODULE WorkqueueProofs ---------------------------
(***************************************************************************)
(* What the workqueue and the informer caches give: no return of           *)
(* Reconcile, lost answer or crash makes a controller forget a pod whose   *)
(* gate is still shut, and in the DaemonSet no two reconciles are on the   *)
(* same incarnation of a pod.                                              *)
(***************************************************************************)
EXTENDS PodVersionProofs

(* k is in the workqueue of c, waiting for a retry or being reconciled. *)
Remembered(c, k) == k \in queue[c] \cup delayed[c] \/ Processing(c, k)

(* A cache entry that is up to date after a step that left it alone was up *)
(* to date before: the step did not write the pod.                         *)
LEMMA UpToDateBefore ==
    ASSUME IInv, StoreStep, NEW c \in Controllers, NEW k \in Pods,
           cache'[c][k] = cache[c][k],
           Unfinished(cache[c][k])', cache'[c][k] = View(c, k)'
    PROVE  /\ Unfinished(cache[c][k])
           /\ cache[c][k] = View(c, k)
           /\ store'[k] = store[k]
           /\ store[k] = cache[c][k]
<1> DEFINE p == cache[c][k]
<1>1. p # None /\ Unfinished(p)
    BY DEF Unfinished, hasReadinessGate, isConditionTrue
<1>2. p \in PodVersion /\ CopyOf(p, k)
    <2>1. p \in PodVersion
        <3>1. cache \in [Controllers -> [Pods -> PodVersion \cup {None}]]
            BY DEF IInv, Typed, TypeOK
        <3>2. p \in PodVersion \cup {None} BY <3>1
        <3> QED BY <1>1, <3>2
    <2>2. CopyOf(p, k) BY <1>1 DEF IInv, VersionInv, CopiesInv
    <2> QED BY <2>1, <2>2
<1>3. store'[k] # None /\ store'[k] = p /\ View(c, k)' = store'[k]
    BY <1>1 DEF View
<1>4. store'[k] = store[k]
    BY <1>2, <1>3, VersionKept DEF IInv, Typed
<1>5. View(c, k) = p
    BY <1>3, <1>4 DEF View, Selects
<1> QED BY <1>1, <1>3, <1>4, <1>5

(* A busy worker stays on its pod through a step that leaves it busy. *)
LEMMA ProcessingKept ==
    ASSUME NEW c \in Controllers, NEW k \in Pods, Processing(c, k),
           \A w \in WorkersOf(c) : pc[w] # "idle" /\ snap[w].name = k =>
               pc'[w] # "idle" /\ snap'[w] = snap[w]
    PROVE  Processing(c, k)'
BY DEF Processing, WorkersOf

LEMMA TakeRemembers ==
    ASSUME IInv, NEW c \in Controllers, NEW k \in Pods, Remembered(c, k),
           Unfinished(cache[c][k]),
           NEW w \in Workers, NEW j \in Pods, Take(w, j)
    PROVE  Remembered(c, k)'
<1>0. /\ CtrlOf[w] \in Controllers
      /\ pc[w] = "idle"
      /\ queue' = [queue EXCEPT ![CtrlOf[w]] = @ \ {j}]
    BY DeploymentAssumption
    DEF Take, ReconcileSkip, ReconcileRequeue, ReconcileAdmit, Due, Taken
<1>1. \A v \in Workers : v # w => pc'[v] = pc[v] /\ snap'[v] = snap[v]
    BY DEF Take, ReconcileSkip, ReconcileRequeue, ReconcileAdmit, Begin, workerVars,
       IInv, Typed, TypeOK
<1>2. delayed[c] \subseteq delayed'[c]
    BY <1>0 DEF Take, ReconcileSkip, ReconcileRequeue, ReconcileAdmit, Again, IInv,
       Typed, TypeOK
<1>3. CASE Processing(c, k)
    BY <1>0, <1>1, <1>3, ProcessingKept DEF WorkersOf, Remembered
<1>4. CASE k \in delayed[c]
    BY <1>2, <1>4 DEF Remembered
<1>5. CASE k \in queue[c] /\ ~(CtrlOf[w] = c /\ j = k)
    BY <1>0, <1>5 DEF Remembered, IInv, Typed, TypeOK
<1>6. CASE CtrlOf[w] = c /\ j = k
    <2>1. ~ReconcileSkip(w, k)
        BY <1>6 DEF ReconcileSkip, Unfinished
    <2>2. CASE ReconcileRequeue(w, k)
        BY <1>0, <1>6, <2>2 DEF ReconcileRequeue, Again, Remembered, IInv, Typed,
           TypeOK
    <2>3. CASE ReconcileAdmit(w, k)
        <3>1. cache[c][k] \in PodVersion /\ cache[c][k].name = k
            BY DEF Unfinished, IInv, Typed, TypeOK, VersionInv, CopiesInv, CopyOf
        <3>2. snap'[w].name = k
            BY <1>6, <2>3, <3>1 DEF ReconcileAdmit, IInv, Typed, TypeOK
        <3>3. pc'[w] # "idle"
            BY <1>6, <2>3, <3>1 DEF ReconcileAdmit, Begin, PodVersion, IInv, Typed,
               TypeOK
        <3> QED BY <1>6, <3>2, <3>3 DEF Remembered, Processing, WorkersOf
    <2> QED BY <1>6, <2>1, <2>2, <2>3 DEF Take
<1> QED BY <1>3, <1>4, <1>5, <1>6 DEF Remembered

(* A return of Reconcile that hands its key back. *)
LEMMA ReturnRemembers ==
    ASSUME IInv, NEW c \in Controllers, NEW k \in Pods, Remembered(c, k),
           NEW w \in Workers, pc[w] # "idle",
           delayed' = Again(w, snap[w].name), queue' = queue,
           \A v \in Workers : v # w => pc'[v] = pc[v] /\ snap'[v] = snap[v]
    PROVE  Remembered(c, k)'
<1>0. CtrlOf[w] \in Controllers /\ snap[w].name \in Pods
    BY DeploymentAssumption DEF IInv, Typed, TypeOK, BusyInv, PodVersion
<1>1. CASE CtrlOf[w] = c /\ snap[w].name = k
    BY <1>0, <1>1 DEF Again, Remembered, IInv, Typed, TypeOK
<1>2. CASE k \in queue[c] \cup delayed[c]
    BY <1>0, <1>2 DEF Again, Remembered, IInv, Typed, TypeOK
<1>3. CASE Processing(c, k) /\ ~(CtrlOf[w] = c /\ snap[w].name = k)
    BY <1>3, ProcessingKept DEF WorkersOf, Remembered
<1> QED BY <1>1, <1>2, <1>3 DEF Remembered

LEMMA ProceedRemembers ==
    ASSUME IInv, NEW c \in Controllers, NEW k \in Pods, Remembered(c, k),
           Unfinished(cache[c][k]), store'[k] = store[k], store[k] = cache[c][k],
           NEW w \in Workers, Proceed(w)
    PROVE  Remembered(c, k)'
<1>0. pc[w] # "idle" /\ snap[w] \in PodVersion /\ snap[w].name \in Pods
    <2>1. pc[w] # "idle"
        BY DEF Proceed, Acquire, AcquireCancelled, LookupFound, LookupFails,
           FinishWarmup, UpdateOK, UpdateRejected
    <2> QED BY <2>1 DEF IInv, Typed, TypeOK, BusyInv, PodVersion
<1>1. \A v \in Workers : v # w => pc'[v] = pc[v] /\ snap'[v] = snap[v]
    BY DEF Proceed, Acquire, Begin, AcquireCancelled, LookupFound, LookupFails,
       FinishWarmup, UpdateOK, UpdateRejected, Return, IInv, Typed, TypeOK
<1>2. CASE Acquire(w) \/ LookupFound(w) \/ LookupFails(w) \/ FinishWarmup(w)
    <2>1. queue' = queue /\ delayed' = delayed /\ snap' = snap
        BY <1>2 DEF Acquire, LookupFound, LookupFails, FinishWarmup, procVars
    <2>2. pc'[w] # "idle"
        BY <1>0, <1>2 DEF Acquire, Begin, PodVersion, LookupFound, LookupFails,
           FinishWarmup, IInv, Typed, TypeOK
    <2>3. Processing(c, k) => Processing(c, k)'
        BY <1>1, <2>1, <2>2, ProcessingKept DEF WorkersOf
    <2> QED BY <2>1, <2>3 DEF Remembered
<1>3. CASE AcquireCancelled(w) \/ UpdateRejected(w)
    BY <1>0, <1>1, <1>3, ReturnRemembers DEF AcquireCancelled, UpdateRejected
<1>4. CASE UpdateOK(w)
    <2>1. snap[w].name # k
        <3> SUFFICES ASSUME snap[w].name = k PROVE FALSE OBVIOUS
        <3>1. store'[k] = [WithCondition(snap[w], result[w]) EXCEPT !.rv = rev[k] + 1]
            BY <1>4 DEF UpdateOK, Put, IInv, Typed, TypeOK
        <3>2. store'[k].cond = Reason(result[w])
            BY <1>0, <3>1 DEF WithCondition, PodVersion
        <3> QED BY <3>2 DEF Unfinished, isConditionTrue, Reason
    <2>2. queue' = queue /\ delayed' = delayed
        BY <1>4 DEF UpdateOK, procVars
    <2>3. Processing(c, k) => Processing(c, k)'
        BY <1>1, <2>1, ProcessingKept DEF WorkersOf
    <2> QED BY <2>2, <2>3 DEF Remembered
<1> QED BY <1>2, <1>3, <1>4 DEF Proceed

LEMMA FaultRemembers ==
    ASSUME IInv, NEW c \in Controllers, NEW k \in Pods, Remembered(c, k),
           cache'[c][k] # None, Fault
    PROVE  Remembered(c, k)'
<1>1. ASSUME NEW w \in Workers, UpdateLost(w) \/ UpdateUnacked(w)
      PROVE  Remembered(c, k)'
    <2>1. /\ pc[w] # "idle" /\ queue' = queue
          /\ delayed' = Again(w, snap[w].name)
          /\ \A v \in Workers : v # w => pc'[v] = pc[v] /\ snap'[v] = snap[v]
        BY <1>1 DEF UpdateLost, UpdateUnacked, Return, IInv, Typed, TypeOK
    <2> QED BY <2>1, ReturnRemembers
<1>2. ASSUME NEW w \in Workers, NEW j \in Pods, ReconcileGetError(w, j)
      PROVE  Remembered(c, k)'
    <2>1. /\ CtrlOf[w] \in Controllers /\ UNCHANGED workerVars
          /\ queue' = [queue EXCEPT ![CtrlOf[w]] = @ \ {j}]
          /\ delayed' = [delayed EXCEPT ![CtrlOf[w]] = @ \cup {j}]
        BY <1>2, DeploymentAssumption DEF ReconcileGetError, Taken, Again
    <2>2. k \in queue[c] \cup delayed[c] => k \in queue'[c] \cup delayed'[c]
        BY <2>1 DEF IInv, Typed, TypeOK
    <2>3. Processing(c, k) => Processing(c, k)'
        BY <2>1, ProcessingKept DEF workerVars
    <2> QED BY <2>2, <2>3 DEF Remembered
<1>3. ASSUME NEW d \in Controllers, Stop(d) PROVE Remembered(c, k)'
    <2>1. queue' = queue /\ delayed' = delayed /\ UNCHANGED workerVars
        BY <1>3 DEF Stop
    <2>2. Processing(c, k) => Processing(c, k)'
        BY <2>1, ProcessingKept DEF workerVars
    <2> QED BY <2>1, <2>2 DEF Remembered
<1>4. ASSUME NEW d \in Controllers, Crash(d) PROVE Remembered(c, k)'
    <2>1. d # c BY <1>4 DEF Crash, FreshProcess, IInv, Typed, TypeOK
    <2>2. queue'[c] = queue[c] /\ delayed'[c] = delayed[c]
        BY <1>4, <2>1 DEF Crash, FreshProcess, IInv, Typed, TypeOK
    <2>3. \A w \in WorkersOf(c) : pc'[w] = pc[w] /\ snap'[w] = snap[w]
        BY <1>4, <2>1 DEF Crash, FreshProcess, WorkersOf
    <2>4. Processing(c, k) => Processing(c, k)'
        BY <2>3, ProcessingKept
    <2> QED BY <2>2, <2>4 DEF Remembered
<1> QED BY <1>1, <1>2, <1>3, <1>4 DEF Fault

LEMMA NoPodForgottenStep ==
    IInv /\ NoPodForgotten /\ [Next]_vars => NoPodForgotten'
<1> SUFFICES ASSUME IInv, NoPodForgotten, [Next]_vars,
                    NEW c \in Controllers, NEW k \in Pods,
                    Unfinished(cache[c][k])', cache'[c][k] = View(c, k)'
             PROVE  Remembered(c, k)'
    BY DEF NoPodForgotten, Remembered
<1>0. StoreStep BY NextStores
<1>1. CASE cache'[c][k] = cache[c][k]
    <2>1. /\ Unfinished(cache[c][k])
          /\ store'[k] = store[k]
          /\ store[k] = cache[c][k]
          /\ Remembered(c, k)
        BY <1>0, <1>1, UpToDateBefore DEF NoPodForgotten, Remembered
    <2>2. ASSUME queue' = queue, delayed' = delayed, UNCHANGED workerVars
          PROVE  Remembered(c, k)'
        <3>1. Processing(c, k) => Processing(c, k)'
            BY <2>2, ProcessingKept DEF workerVars
        <3> QED BY <2>1, <2>2, <3>1 DEF Remembered
    <2>3. ASSUME NEW j \in Pods, Environment(j) PROVE Remembered(c, k)'
        BY <2>2, <2>3 DEF Environment, CreatePod, SchedulePod, KubeletReport,
           DeletePod, procVars
    <2>4. ASSUME NEW d \in Controllers, NEW j \in Pods,
                 Observe(d, j) \/ RequeueFires(d, j)
          PROVE  Remembered(c, k)'
        <3>1. UNCHANGED workerVars BY <2>4 DEF Observe, RequeueFires
        <3>2. k \in queue[c] \cup delayed[c] => k \in queue'[c] \cup delayed'[c]
            <4>1. /\ queue \in [Controllers -> SUBSET Pods]
                  /\ delayed \in [Controllers -> SUBSET Pods]
                BY DEF IInv, Typed, TypeOK
            <4>2. CASE Observe(d, j) BY <4>1, <4>2 DEF Observe
            <4>3. CASE RequeueFires(d, j) BY <4>1, <4>3 DEF RequeueFires
            <4> QED BY <2>4, <4>2, <4>3
        <3>3. Processing(c, k) => Processing(c, k)'
            BY <3>1, ProcessingKept DEF workerVars
        <3> QED BY <2>1, <3>2, <3>3 DEF Remembered
    <2>5. ASSUME NEW d \in Controllers, Exit(d) PROVE Remembered(c, k)'
        <3>0. cache'[c][k] # None BY DEF Unfinished
        <3>1. d # c BY <2>5, <3>0 DEF Exit, FreshProcess, IInv, Typed, TypeOK
        <3>2. queue'[c] = queue[c] /\ delayed'[c] = delayed[c]
            BY <2>5, <3>1 DEF Exit, FreshProcess, IInv, Typed, TypeOK
        <3>3. \A w \in WorkersOf(c) : pc'[w] = pc[w] /\ snap'[w] = snap[w]
            BY <2>5, <3>1 DEF Exit, FreshProcess, WorkersOf
        <3>4. Processing(c, k) => Processing(c, k)'
            BY <3>3, ProcessingKept
        <3> QED BY <2>1, <3>2, <3>4 DEF Remembered
    <2>6. CASE Fault
        <3>1. cache'[c][k] # None BY DEF Unfinished
        <3> QED BY <2>1, <2>6, <3>1, FaultRemembers
    <2>7. CASE UNCHANGED vars
        BY <2>2, <2>7 DEF vars, procVars
    <2> QED BY <2>1, <2>3, <2>4, <2>5, <2>6, <2>7, TakeRemembers, ProceedRemembers
            DEF Next
<1>2. CASE cache'[c][k] # cache[c][k]
    <2>1. cache'[c][k] # None BY DEF Unfinished
    <2>2. PICK d \in Controllers, j \in Pods : Observe(d, j)
        BY <1>2, <2>1, CacheChanges
    <2>3. d = c /\ j = k
        BY <1>2, <2>2 DEF Observe, IInv, Typed, TypeOK
    <2>4. cache'[c][k] = View(c, k)
        BY <2>2, <2>3 DEF Observe, IInv, Typed, TypeOK
    <2>5. HasReadinessGatePredicate(View(c, k))
        BY <2>1, <2>4 DEF Unfinished, HasReadinessGatePredicate, hasReadinessGate
    <2>6. k \in queue'[c]
        BY <2>2, <2>3, <2>5 DEF Observe, IInv, Typed, TypeOK
    <2> QED BY <2>6 DEF Remembered
<1> QED BY <1>1, <1>2

(* A controller whose cache shows a pod with its gate shut always has the  *)
(* pod queued, due for a retry or in the hands of a worker: no error path  *)
(* of Reconcile drops it.                                                  *)
THEOREM NoPodIsForgotten == Spec => []NoPodForgotten
<1>1. Init => NoPodForgotten
    BY DEF Init, NoPodForgotten, Unfinished
<1> QED BY <1>1, IInvInit, IInvStep, NoPodForgottenStep, PTL DEF Spec

-----------------------------------------------------------------------------
(* One reconcile per pod *)

(* Every copy of a pod version there is: stored, cached, or fetched by a   *)
(* reconcile.                                                              *)
Copies ==
    ({store[k] : k \in Pods}
        \cup {cache[c][k] : c \in Controllers, k \in Pods}
        \cup {snap[w] : w \in Workers}) \ {None}

SameIncarnation(p, q) == p.name = q.name /\ p.uid = q.uid

(* A pod is bound to a node once: no uid is used twice, a stored pod has   *)
(* the node any copy of it has, and so do two copies.                      *)
NodeInv ==
    /\ \A p \in Copies : p.uid <= rev[p.name]
    /\ \A k \in Pods, p \in Copies :
          /\ store[k] # None
          /\ SameIncarnation(p, store[k])
          /\ p.node # NoNode
          => store[k].node = p.node
    /\ \A p, q \in Copies :
          /\ SameIncarnation(p, q)
          /\ p.node # NoNode
          /\ q.node # NoNode
          => p.node = q.node

(* A process only sees pods its field selector lets through. *)
SelectsInv ==
    /\ \A c \in Controllers, k \in Pods :
          cache[c][k] # None => Selects(c, cache[c][k])
    /\ \A w \in Workers : snap[w] # None => Selects(CtrlOf[w], snap[w])

(* The workers of a process are on different pods. *)
QueueInv ==
    \A v, w \in Workers :
        /\ v # w
        /\ CtrlOf[v] = CtrlOf[w]
        /\ pc[v] # "idle"
        /\ pc[w] # "idle"
        => snap[v].name # snap[w].name

NodeLocalInv == IInv /\ NodeInv /\ SelectsInv /\ QueueInv

-----------------------------------------------------------------------------
(* A worker comes by a snapshot only by taking a key from the queue. *)
LEMMA BusyChanges ==
    ASSUME IInv, [Next]_vars, NEW w \in Workers, snap'[w] # None \/ pc'[w] # "idle"
    PROVE  \/ \E k \in Pods : ReconcileAdmit(w, k)
           \/ /\ snap'[w] = snap[w]
              /\ pc'[w] # "idle" => pc[w] # "idle"
<1> DEFINE Kept == snap'[w] = snap[w] /\ (pc'[w] # "idle" => pc[w] # "idle")
<1> USE DEF IInv, Typed, TypeOK
<1>1. ASSUME UNCHANGED workerVars PROVE Kept
    BY <1>1 DEF workerVars
<1>2. ASSUME NEW k \in Pods, Environment(k) PROVE Kept
    BY <1>1, <1>2 DEF Environment, CreatePod, SchedulePod, KubeletReport, DeletePod
<1>3. ASSUME NEW c \in Controllers, NEW k \in Pods,
             Observe(c, k) \/ RequeueFires(c, k)
      PROVE  Kept
    BY <1>1, <1>3 DEF Observe, RequeueFires
<1>4. ASSUME NEW v \in Workers, NEW k \in Pods, Take(v, k),
             ~(v = w /\ ReconcileAdmit(v, k))
      PROVE  Kept
    <2>1. CASE ReconcileAdmit(v, k)
        BY <1>4, <2>1 DEF ReconcileAdmit, Begin
    <2>2. CASE ReconcileSkip(v, k) \/ ReconcileRequeue(v, k)
        BY <1>1, <2>2 DEF ReconcileSkip, ReconcileRequeue
    <2> QED BY <1>4, <2>1, <2>2 DEF Take
<1>5. ASSUME NEW v \in Workers, Return(v) PROVE Kept
    BY <1>5 DEF Return
<1>6. ASSUME NEW v \in Workers, Proceed(v) PROVE Kept
    <2>1. CASE Acquire(v) BY <2>1 DEF Acquire, Begin
    <2>2. CASE AcquireCancelled(v) BY <2>2 DEF AcquireCancelled
    <2>3. CASE LookupFound(v) \/ LookupFails(v) BY <2>3 DEF LookupFound, LookupFails
    <2>4. CASE FinishWarmup(v) BY <2>4 DEF FinishWarmup
    <2>5. CASE UpdateOK(v) \/ UpdateRejected(v)
        BY <1>5, <2>5 DEF UpdateOK, UpdateRejected
    <2> QED BY <1>6, <2>1, <2>2, <2>3, <2>4, <2>5 DEF Proceed
<1>7. ASSUME NEW c \in Controllers, FreshProcess(c) PROVE Kept
    BY <1>7 DEF FreshProcess
<1>8. CASE Fault
    <2>1. ASSUME NEW v \in Workers, UpdateLost(v) \/ UpdateUnacked(v) PROVE Kept
        BY <1>5, <2>1 DEF UpdateLost, UpdateUnacked
    <2>2. ASSUME NEW v \in Workers, NEW k \in Pods, ReconcileGetError(v, k)
          PROVE  Kept
        BY <1>1, <2>2 DEF ReconcileGetError
    <2>3. ASSUME NEW c \in Controllers, Stop(c) \/ Crash(c) PROVE Kept
        BY <1>1, <1>7, <2>3 DEF Stop, Crash
    <2> QED BY <1>8, <2>1, <2>2, <2>3 DEF Fault
<1>9. CASE UNCHANGED vars
    BY <1>1, <1>9 DEF vars
<1> QED BY <1>2, <1>3, <1>4, <1>6, <1>7, <1>8, <1>9 DEF Next, Exit

(* What ReconcileAdmit takes over is a cached copy, and nobody else of its *)
(* process is on that pod.                                                 *)
LEMMA AdmitTakes ==
    ASSUME IInv, NEW w \in Workers, NEW k \in Pods, ReconcileAdmit(w, k)
    PROVE  LET p == cache[CtrlOf[w]][k] IN
           /\ p # None
           /\ p.name = k
           /\ snap' = [snap EXCEPT ![w] = p]
           /\ snap'[w] = p
           /\ pc[w] = "idle"
           /\ \A v \in Workers :
                 /\ v # w => pc'[v] = pc[v] /\ snap'[v] = snap[v]
                 /\ CtrlOf[v] = CtrlOf[w] /\ pc[v] # "idle" => snap[v].name # k
<1> DEFINE p == cache[CtrlOf[w]][k]
<1>1. /\ p # None
      /\ snap' = [snap EXCEPT ![w] = p]
      /\ pc[w] = "idle"
      /\ \A v \in WorkersOf(CtrlOf[w]) : pc[v] # "idle" => snap[v].name # k
    BY DEF ReconcileAdmit, Due
<1>2. p.name = k
    BY <1>1, DeploymentAssumption DEF IInv, VersionInv, CopiesInv, CopyOf
<1>3. snap'[w] = p /\ \A v \in Workers : v # w => snap'[v] = snap[v]
    BY <1>1 DEF IInv, Typed, TypeOK
<1>4. ASSUME NEW v \in Workers, v # w PROVE pc'[v] = pc[v]
    BY <1>4 DEF ReconcileAdmit, Begin, IInv, Typed, TypeOK
<1> QED BY <1>1, <1>2, <1>3, <1>4 DEF WorkersOf

(* No copy comes from anywhere but the API server. *)
LEMMA CopiesFrom ==
    ASSUME IInv, [Next]_vars, NEW p \in Copies'
    PROVE  p \in Copies \/ \E k \in Pods : p = store'[k] /\ p # None
<1>0. p # None BY DEF Copies
<1>1. ASSUME NEW k \in Pods, p = store'[k]
      PROVE  p \in Copies \/ \E j \in Pods : p = store'[j] /\ p # None
    BY <1>0, <1>1
<1>2. ASSUME NEW c \in Controllers, NEW k \in Pods, p = cache'[c][k] PROVE p \in Copies
    <2>1. CASE cache'[c][k] = cache[c][k]
        BY <1>0, <1>2, <2>1 DEF Copies
    <2>2. CASE cache'[c][k] # cache[c][k]
        <3>1. PICK d \in Controllers, j \in Pods : Observe(d, j)
            BY <1>0, <1>2, <2>2, CacheChanges
        <3>2. p = store[k]
            BY <1>0, <1>2, <2>2, <3>1 DEF Observe, View, IInv, Typed, TypeOK
        <3> QED BY <1>0, <3>2 DEF Copies
    <2> QED BY <2>1, <2>2
<1>3. ASSUME NEW w \in Workers, p = snap'[w] PROVE p \in Copies
    <2>1. CASE snap'[w] = snap[w]
        BY <1>0, <1>3, <2>1 DEF Copies
    <2>2. ASSUME NEW k \in Pods, ReconcileAdmit(w, k) PROVE p \in Copies
        <3>1. p = cache[CtrlOf[w]][k] BY <1>3, <2>2, AdmitTakes
        <3>2. CtrlOf[w] \in Controllers BY DeploymentAssumption
        <3> QED BY <1>0, <3>1, <3>2 DEF Copies
    <2> QED BY <1>0, <1>3, <2>1, <2>2, BusyChanges
<1> QED BY <1>1, <1>2, <1>3 DEF Copies

(* Which versions a step may store: the one there is, one of a new         *)
(* incarnation, or one of the same that keeps the node it is bound to.     *)
LEMMA IncarnationKept ==
    ASSUME IInv, [Next]_vars, NEW k \in Pods, store'[k] # None
    PROVE  \/ store'[k] = store[k]
           \/ store'[k].uid = rev[k] + 1 /\ rev'[k] = rev[k] + 1
           \/ /\ store[k] # None
              /\ store'[k].uid = store[k].uid
              /\ store[k].node # NoNode => store'[k].node = store[k].node
<1> DEFINE Goal == \/ store'[k] = store[k]
                   \/ store'[k].uid = rev[k] + 1 /\ rev'[k] = rev[k] + 1
                   \/ /\ store[k] # None
                      /\ store'[k].uid = store[k].uid
                      /\ store[k].node # NoNode => store'[k].node = store[k].node
<1>0. /\ store \in [Pods -> PodVersion \cup {None}]
      /\ rev \in [Pods -> Nat]
      /\ store[k] # None => store[k] \in PodVersion
    BY DEF IInv, Typed, TypeOK
<1>1. ASSUME NEW j \in Pods, Environment(j) PROVE Goal
    <2>1. CASE j # k
        BY <1>0, <1>1, <2>1 DEF Environment, CreatePod, SchedulePod, KubeletReport,
           DeletePod, Put
    <2>2. CASE j = k /\ CreatePod(k)
        <3>1. PICK spec \in PodSpecs, up \in BOOLEAN :
                  Put(k, IF up THEN Handle(NewPod(k, spec)) ELSE NewPod(k, spec))
            BY <2>2 DEF CreatePod
        <3> DEFINE q == IF up THEN Handle(NewPod(k, spec)) ELSE NewPod(k, spec)
        <3>2. q \in PodVersion /\ q.uid = rev[k] + 1
            <4>1. q \in PodVersion BY NewPodType DEF IInv, Typed
            <4>2. NewPod(k, spec).uid = rev[k] + 1 BY DEF NewPod
            <4>3. Handle(NewPod(k, spec)).uid = NewPod(k, spec).uid
                BY NewPodType DEF Handle, InjectGate, PodVersion, IInv, Typed
            <4> QED BY <4>1, <4>2, <4>3
        <3>3. store'[k] = [q EXCEPT !.rv = rev[k] + 1] /\ rev'[k] = rev[k] + 1
            BY <1>0, <3>1 DEF Put
        <3>4. store'[k].uid = rev[k] + 1
            BY <3>2, <3>3 DEF PodVersion
        <3> QED BY <3>3, <3>4
    <2>3. CASE j = k /\ SchedulePod(k)
        <3>1. PICK n \in Nodes :
                  store'[k] = [[store[k] EXCEPT !.node = n] EXCEPT !.rv = rev[k] + 1]
            BY <1>0, <2>3 DEF SchedulePod, Put
        <3>2. store[k] # None /\ store[k].node = NoNode
            BY <2>3 DEF SchedulePod
        <3>3. store'[k].uid = store[k].uid
            BY <1>0, <3>1, <3>2 DEF PodVersion
        <3> QED BY <3>2, <3>3
    <2>4. CASE j = k /\ KubeletReport(k)
        <3>1. PICK s \in StatusReports, r \in {0, 1} :
                  store'[k] = [[store[k] EXCEPT !.phase = s.phase,
                                               !.statuses = s.statuses,
                                               !.containersReady = s.containersReady,
                                               !.restarts = @ + r]
                                  EXCEPT !.rv = rev[k] + 1]
            BY <1>0, <2>4 DEF KubeletReport, Put
        <3>2. store[k] # None BY <2>4 DEF KubeletReport
        <3> QED BY <1>0, <3>1, <3>2 DEF PodVersion
    <2>5. CASE j = k /\ DeletePod(k)
        BY <1>0, <2>5 DEF DeletePod
    <2> QED BY <1>1, <2>1, <2>2, <2>3, <2>4, <2>5 DEF Environment
<1>2. ASSUME NEW w \in Workers, UpdateOK(w) \/ UpdateUnacked(w) PROVE Goal
    <2>1. /\ pc[w] = "update"
          /\ SameVersion(snap[w])
          /\ Put(snap[w].name, WithCondition(snap[w], result[w]))
        BY <1>2 DEF UpdateOK, UpdateUnacked, UpdateAccepted
    <2>2. /\ snap[w] \in PodVersion
          /\ snap[w].name \in Pods
          /\ CopyOf(snap[w], snap[w].name)
        BY <2>1 DEF IInv, Typed, TypeOK, BusyInv, PodVersion, VersionInv, WorkerInv
    <2>3. CASE snap[w].name # k
        BY <1>0, <2>1, <2>2, <2>3 DEF Put
    <2>4. CASE snap[w].name = k
        <3>1. store[k] = snap[w] /\ store[k] # None
            BY <2>1, <2>2, <2>4 DEF SameVersion, CopyOf
        <3>2. store'[k] = [WithCondition(store[k], result[w]) EXCEPT !.rv = rev[k] + 1]
            BY <1>0, <2>1, <2>4, <3>1 DEF Put
        <3> QED BY <1>0, <3>1, <3>2 DEF WithCondition, PodVersion
    <2> QED BY <2>3, <2>4
<1>3. ASSUME UNCHANGED apiVars PROVE Goal
    BY <1>3 DEF apiVars
<1> QED BY <1>1, <1>2, <1>3, StoreWriters

LEMMA NodeInvStep ==
    ASSUME IInv, IInv', NodeInv, [Next]_vars
    PROVE  NodeInv'
<1>1. ASSUME NEW p \in Copies PROVE p.name \in Pods /\ p.uid \in Nat
    BY <1>1 DEF Copies, IInv, Typed, TypeOK, PodVersion
<1>2. ASSUME NEW k \in Pods, store'[k] # None
      PROVE  store'[k].name = k /\ store'[k].uid \in Nat /\ rev'[k] \in Nat
    BY <1>2 DEF IInv, Typed, TypeOK, VersionInv, CopiesInv, CopyOf, PodVersion
<1>3. \A k \in Pods : rev[k] \in Nat /\ rev'[k] \in Nat /\ rev[k] <= rev'[k]
    BY NextStores, RevGrows DEF IInv, Typed, TypeOK
<1>4. ASSUME NEW p \in Copies' PROVE p.uid <= rev'[p.name]
    <2>1. CASE p \in Copies
        BY <1>1, <1>3, <2>1 DEF NodeInv
    <2>2. ASSUME NEW k \in Pods, p = store'[k], p # None PROVE p.uid <= rev'[p.name]
        <3>1. store[k] # None => store[k] \in Copies BY DEF Copies
        <3>2. store[k] # None => store[k].uid <= rev[k] /\ store[k].uid \in Nat
            BY <1>1, <3>1 DEF NodeInv, IInv, VersionInv, CopiesInv, CopyOf
        <3> QED BY <1>2, <1>3, <2>2, <3>2, IncarnationKept
    <2> QED BY <2>1, <2>2, CopiesFrom
<1>5. ASSUME NEW k \in Pods, NEW p \in Copies', store'[k] # None,
             SameIncarnation(p, store'[k]), p.node # NoNode
      PROVE  store'[k].node = p.node
    <2>1. CASE p \in Copies
        <3>1. p.name = k /\ p.uid = store'[k].uid
            BY <1>2, <1>5 DEF SameIncarnation
        <3>2. p.uid <= rev[k] /\ p.uid \in Nat
            BY <1>1, <2>1, <3>1 DEF NodeInv
        <3>3. store'[k].uid # rev[k] + 1
            BY <1>3, <3>1, <3>2
        <3>4. store[k] # None /\ store[k].uid = p.uid
            BY <1>5, <3>1, <3>3, IncarnationKept
        <3>5. store[k].node = p.node
            BY <1>5, <2>1, <3>1, <3>4
            DEF NodeInv, SameIncarnation, IInv, VersionInv, CopiesInv, CopyOf
        <3> QED BY <1>5, <3>3, <3>5, IncarnationKept
    <2>2. ASSUME NEW j \in Pods, p = store'[j], p # None PROVE store'[k].node = p.node
        BY <1>2, <1>5, <2>2 DEF SameIncarnation
    <2> QED BY <2>1, <2>2, CopiesFrom
<1>6. ASSUME NEW p \in Copies', NEW q \in Copies', SameIncarnation(p, q),
             p.node # NoNode, q.node # NoNode
      PROVE  p.node = q.node
    <2>1. CASE p \in Copies /\ q \in Copies
        BY <1>6, <2>1 DEF NodeInv
    <2>2. ASSUME NEW k \in Pods, p = store'[k], p # None PROVE p.node = q.node
        BY <1>5, <1>6, <2>2 DEF SameIncarnation
    <2>3. ASSUME NEW k \in Pods, q = store'[k], q # None PROVE p.node = q.node
        BY <1>5, <1>6, <2>3 DEF SameIncarnation
    <2> QED BY <2>1, <2>2, <2>3, CopiesFrom
<1> QED BY <1>4, <1>5, <1>6 DEF NodeInv, SameIncarnation

LEMMA SelectsInvStep ==
    ASSUME IInv, SelectsInv, [Next]_vars
    PROVE  SelectsInv'
<1>1. ASSUME NEW c \in Controllers, NEW k \in Pods, cache'[c][k] # None
      PROVE  Selects(c, cache'[c][k])
    <2>1. CASE cache'[c][k] = cache[c][k]
        BY <1>1, <2>1 DEF SelectsInv
    <2>2. CASE cache'[c][k] # cache[c][k]
        <3>1. PICK d \in Controllers, j \in Pods : Observe(d, j)
            BY <1>1, <2>2, CacheChanges
        <3>2. cache'[c][k] = View(c, k)
            BY <2>2, <3>1 DEF Observe, IInv, Typed, TypeOK
        <3> QED BY <1>1, <3>2 DEF View
    <2> QED BY <2>1, <2>2
<1>2. ASSUME NEW w \in Workers, snap'[w] # None
      PROVE  Selects(CtrlOf[w], snap'[w])
    <2>1. CASE snap'[w] = snap[w]
        BY <1>2, <2>1 DEF SelectsInv
    <2>2. ASSUME NEW k \in Pods, ReconcileAdmit(w, k)
          PROVE  Selects(CtrlOf[w], snap'[w])
        <3>1. snap'[w] = cache[CtrlOf[w]][k] BY <2>2, AdmitTakes
        <3> QED BY <1>2, <3>1, DeploymentAssumption DEF SelectsInv
    <2> QED BY <1>2, <2>1, <2>2, BusyChanges
<1> QED BY <1>1, <1>2 DEF SelectsInv, Selects

LEMMA QueueInvStep ==
    ASSUME IInv, QueueInv, [Next]_vars
    PROVE  QueueInv'
<1> SUFFICES ASSUME NEW v \in Workers, NEW w \in Workers, v # w,
                    CtrlOf[v] = CtrlOf[w], pc'[v] # "idle", pc'[w] # "idle"
             PROVE  snap'[v].name # snap'[w].name
    BY DEF QueueInv
<1>1. ASSUME NEW k \in Pods, ReconcileAdmit(v, k)
      PROVE  snap'[v].name # snap'[w].name
    BY <1>1, AdmitTakes
<1>2. ASSUME NEW k \in Pods, ReconcileAdmit(w, k)
      PROVE  snap'[v].name # snap'[w].name
    BY <1>2, AdmitTakes
<1>3. CASE /\ snap'[v] = snap[v] /\ pc[v] # "idle"
           /\ snap'[w] = snap[w] /\ pc[w] # "idle"
    BY <1>3 DEF QueueInv
<1> QED BY <1>1, <1>2, <1>3, BusyChanges

(* Two reconciles of one incarnation see one node, so they belong to the   *)
(* process that watches it, and its workqueue keeps them apart.            *)
LEMMA NodeLocalIsExclusive ==
    ASSUME NodeLocalInv
    PROVE  NodeLocalExclusive
<1> SUFFICES ASSUME OneControllerPerNode, NEW v \in Workers, NEW w \in Workers, v # w,
                    pc[v] # "idle", pc[w] # "idle", SameIncarnation(snap[v], snap[w])
             PROVE  FALSE
    BY DEF NodeLocalExclusive, SameIncarnation
<1> DEFINE c == CtrlOf[v]
           d == CtrlOf[w]
<1>1. snap[v] # None /\ snap[w] # None
    BY DEF NodeLocalInv, IInv, Typed, BusyInv
<1>2. c # d
    BY DEF NodeLocalInv, QueueInv, SameIncarnation
<1>3. c \in Controllers /\ d \in Controllers
    BY DeploymentAssumption
<1>4. /\ WatchedNode[c] # AnyNode
      /\ WatchedNode[d] # AnyNode
      /\ WatchedNode[c] # WatchedNode[d]
    BY <1>2, <1>3 DEF OneControllerPerNode
<1>5. snap[v].node = WatchedNode[c] /\ snap[w].node = WatchedNode[d]
    BY <1>1, <1>4 DEF NodeLocalInv, SelectsInv, Selects
<1>6. snap[v].node # NoNode /\ snap[w].node # NoNode
    BY <1>3, <1>5, DeploymentAssumption
<1>7. snap[v] \in Copies /\ snap[w] \in Copies
    BY <1>1 DEF Copies
<1> QED BY <1>4, <1>5, <1>6, <1>7 DEF NodeLocalInv, NodeInv

(* In the DaemonSet deployment no two reconciles ever work on the same     *)
(* incarnation of a pod, in one process or in two.                         *)
THEOREM NodeLocalAlwaysExclusive == Spec => []NodeLocalExclusive
<1>1. Init => NodeLocalInv
    <2> SUFFICES ASSUME Init PROVE NodeLocalInv OBVIOUS
    <2>1. Copies = {} BY DeploymentAssumption DEF Init, Copies
    <2>2. SelectsInv /\ QueueInv BY DEF Init, SelectsInv, QueueInv
    <2> QED BY <2>1, <2>2, IInvInit DEF NodeLocalInv, NodeInv
<1>2. NodeLocalInv /\ [Next]_vars => NodeLocalInv'
    BY IInvStep, NodeInvStep, SelectsInvStep, QueueInvStep DEF NodeLocalInv
<1>3. NodeLocalInv => NodeLocalExclusive BY NodeLocalIsExclusive
<1> QED BY <1>1, <1>2, <1>3, PTL DEF Spec
=============================================================================
