--------------------------- MODULE PodReconciler ----------------------------
(***************************************************************************)
(* The warmup controller: one or more controller processes, each with an   *)
(* informer cache, a workqueue, worker goroutines running                  *)
(* PodReconciler.Reconcile (pkg/controller/pod_controller.go), a warmup    *)
(* semaphore and an active-warmups gauge, acting on pods kept by the API   *)
(* server under optimistic concurrency.                                    *)
(*                                                                         *)
(* The environment is the rest of the cluster: users create and delete     *)
(* pods (creation goes through the mutating webhook), the scheduler binds  *)
(* them, the kubelet reports their status and restarts containers.         *)
(*                                                                         *)
(* A pod version is the part of a Pod object the controller reads:         *)
(*   name, uid, rv      - key, metadata.uid, metadata.resourceVersion      *)
(*   enabled, gates     - see PodMutator                                   *)
(*   cfg                - what ParseConfig makes of the annotations:       *)
(*                        "invalid", "annotation" or "warmupconfig"        *)
(*   node               - spec.nodeName                                    *)
(*   phase, statuses, containersReady                                      *)
(*                      - status.phase, the Ready flags of                 *)
(*                        status.containerStatuses, condition              *)
(*                        ContainersReady                                  *)
(*   restarts           - container restarts reported in status            *)
(*   cond               - condition kube-booster.io/warmup-ready: "Unset"  *)
(*                        or True with this reason                         *)
(***************************************************************************)
EXTENDS Naturals, FiniteSets, PodMutator

CONSTANTS
    Pods,                   \* pod names
    Controllers,            \* controller processes
    Workers,                \* worker goroutines of all the processes
    CtrlOf,                 \* CtrlOf[w]: the process w is a goroutine of
    Nodes,
    WatchedNode,            \* WatchedNode[c]: --node-name, or AnyNode for ""
    AnyNode,
    NoNode,                 \* the node of a pod not yet scheduled
    MaxConcurrentWarmups,   \* --max-concurrent-warmups; 0: no semaphore
    PodSpecs,               \* [enabled, gates, cfg] records users submit
    StatusReports,          \* [phase, statuses, containersReady] records
    None,                   \* no object
    MaxRev,                 \* bound: environment writes per pod name
    MaxFaults               \* bound: API errors, stops and crashes

ASSUME DeploymentAssumption ==
    /\ CtrlOf \in [Workers -> Controllers]
    /\ WatchedNode \in [Controllers -> Nodes \cup {AnyNode}]
    /\ AnyNode \notin Nodes
    /\ NoNode \notin Nodes \cup {AnyNode}
    /\ IsFiniteSet(Workers)

ASSUME BoundsAssumption ==
    /\ MaxConcurrentWarmups \in Nat
    /\ MaxRev \in Nat
    /\ MaxFaults \in Nat

ASSUME EnvironmentAssumption ==
    /\ PodSpecs \subseteq [enabled : BOOLEAN, gates : Seq(STRING),
                           cfg : {"invalid", "annotation", "warmupconfig"}]
    /\ StatusReports \subseteq [phase : {"Pending", "Running", "Failed"},
                                statuses : Seq(BOOLEAN),
                                containersReady : BOOLEAN]
    /\ WarmupGate \in STRING

(* Versions of a pod, and its runs: which incarnation, restarted how often. *)
PodVersion ==
    [name : Pods, uid : Nat, rv : Nat, enabled : BOOLEAN,
     gates : Seq(STRING), cfg : {"invalid", "annotation", "warmupconfig"},
     node : Nodes \cup {NoNode}, phase : {"Pending", "Running", "Failed"},
     statuses : Seq(BOOLEAN), containersReady : BOOLEAN, restarts : Nat,
     cond : {"Unset", "WarmupComplete", "WarmupFailedOpen"}]

PodRun == Nat \X Nat

ASSUME NoneAssumption == None \notin PodVersion \cup PodRun

VARIABLES
    \* API server
    store,      \* store[k]: the stored version of pod k, or None
    rev,        \* rev[k]: resourceVersions handed out for name k so far
    \* controller process c
    cache,      \* cache[c][k]: the informer's copy of pod k, or None
    queue,      \* queue[c]: keys due in the workqueue (its dirty set)
    delayed,    \* delayed[c]: keys waiting in AddAfter or AddRateLimited
    stopping,   \* stopping[c]: SIGTERM received, the root context is done
    sem,        \* sem[c]: semaphore slots in use
    active,     \* active[c]: the gauge kube_booster_warmup_active_pods
    \* worker goroutine w
    pc,         \* where Reconcile is
    snap,       \* snap[w]: the pod Reconcile fetched, or None when idle
    result,     \* result[w]: outcome of the warmup
    \* history
    target,     \* target[w]: the run of pod snap[w].name being warmed
    warmed,     \* <<k, run>> a warmup of which succeeded from start to end
    faults      \* faults that have happened

apiVars == <<store, rev>>
procVars == <<cache, queue, delayed, stopping>>
semVars == <<sem, active>>
workerVars == <<pc, snap, result, target>>
vars == <<apiVars, procVars, semVars, workerVars, warmed, faults>>

-----------------------------------------------------------------------------
(* Pods *)

Run(p) == <<p.uid, p.restarts>>

LiveRun(k) == IF store[k] = None THEN None ELSE Run(store[k])

(* Mutation: the condition is never recognised. *)
ConditionOverlooked(p) == FALSE

isConditionTrue(p) == p.cond # "Unset"

areContainersReady(p) ==
    /\ \A i \in DOMAIN p.statuses : p.statuses[i]
    /\ Len(p.statuses) > 0

(* The checks between fetching the pod and queueing for the semaphore. *)
WarmupEligible(p) ==
    /\ p.phase = "Running"
    /\ areContainersReady(p)
    /\ p.containersReady

(* Mutation: the outcome is not looked at. *)
ReasonAlwaysComplete(r) == "WarmupComplete"

Reason(r) == IF r = "succeeded" THEN "WarmupComplete" ELSE "WarmupFailedOpen"

(* Mutation: no field selector. *)
SelectsEverything(c, p) == TRUE

(* The cache's field selector spec.nodeName=<node-name>. *)
Selects(c, p) == WatchedNode[c] = AnyNode \/ p.node = WatchedNode[c]

-----------------------------------------------------------------------------
(* API server *)

(* Store p as the next version of pod k. *)
Put(k, p) ==
    /\ store' = [store EXCEPT ![k] = [p EXCEPT !.rv = rev[k] + 1]]
    /\ rev' = [rev EXCEPT ![k] = @ + 1]

(* The resourceVersion test the API server makes on a status update. *)
SameVersion(p) == store[p.name] # None /\ store[p.name].rv = p.rv

(* The copy of the fetched pod with the condition set. *)
WithCondition(p, r) == [p EXCEPT !.cond = Reason(r)]

-----------------------------------------------------------------------------
(* Environment: users, webhook, scheduler, kubelet, garbage collection *)

NewPod(k, spec) ==
    [name |-> k, uid |-> rev[k] + 1, rv |-> rev[k] + 1,
     enabled |-> spec.enabled, gates |-> spec.gates, cfg |-> spec.cfg,
     node |-> NoNode, phase |-> "Pending", statuses |-> <<>>,
     containersReady |-> FALSE, restarts |-> 0, cond |-> "Unset"]

(* A pod is created.  failurePolicy is Ignore: with no webhook replica     *)
(* answering, the pod is stored as submitted.                              *)
CreatePod(k) ==
    /\ store[k] = None
    /\ rev[k] < MaxRev
    /\ \E spec \in PodSpecs, webhookUp \in BOOLEAN :
          LET pod == NewPod(k, spec)
          IN  Put(k, IF webhookUp THEN Handle(pod) ELSE pod)
    /\ UNCHANGED <<procVars, semVars, workerVars, warmed, faults>>

SchedulePod(k) ==
    /\ store[k] # None
    /\ store[k].node = NoNode
    /\ rev[k] < MaxRev
    /\ \E n \in Nodes : Put(k, [store[k] EXCEPT !.node = n])
    /\ UNCHANGED <<procVars, semVars, workerVars, warmed, faults>>

(* The kubelet patches the status fields it owns; a pod's phase never      *)
(* returns to Pending and Failed is final.                                 *)
KubeletReport(k) ==
    /\ store[k] # None
    /\ store[k].node # NoNode
    /\ store[k].phase # "Failed"
    /\ rev[k] < MaxRev
    /\ \E s \in StatusReports, restarted \in {0, 1} :
          /\ s.phase = "Pending" => store[k].phase = "Pending"
          /\ restarted = 1 => store[k].phase = "Running"
          /\ Put(k, [store[k] EXCEPT !.phase = s.phase,
                                     !.statuses = s.statuses,
                                     !.containersReady = s.containersReady,
                                     !.restarts = @ + restarted])
    /\ UNCHANGED <<procVars, semVars, workerVars, warmed, faults>>

DeletePod(k) ==
    /\ store[k] # None
    /\ rev[k] < MaxRev
    /\ store' = [store EXCEPT ![k] = None]
    /\ UNCHANGED <<rev, procVars, semVars, workerVars, warmed, faults>>

-----------------------------------------------------------------------------
(* Controller process: informer and workqueue *)

(* Pod k through the field selector of c's watch. *)
View(c, k) ==
    IF store[k] # None /\ Selects(c, store[k]) THEN store[k] ELSE None

(* The predicate: a create or update of a gated pod is enqueued, a delete  *)
(* is not.                                                                 *)
HasReadinessGatePredicate(p) == p # None /\ hasReadinessGate(p)

(* A watch event (or the list after a start) reaches c's cache. *)
Observe(c, k) ==
    /\ cache[c][k] # View(c, k)
    /\ cache' = [cache EXCEPT ![c][k] = View(c, k)]
    /\ queue' = IF HasReadinessGatePredicate(View(c, k))
                THEN [queue EXCEPT ![c] = @ \cup {k}] ELSE queue
    /\ UNCHANGED <<apiVars, delayed, stopping, semVars, workerVars, warmed,
                   faults>>

(* The delay of a RequeueAfter or of a rate-limited retry is over. *)
RequeueFires(c, k) ==
    /\ k \in delayed[c]
    /\ delayed' = [delayed EXCEPT ![c] = @ \ {k}]
    /\ queue' = [queue EXCEPT ![c] = @ \cup {k}]
    /\ UNCHANGED <<apiVars, cache, stopping, semVars, workerVars, warmed,
                   faults>>

-----------------------------------------------------------------------------
(* Worker: Reconcile *)

WorkersOf(c) == {w \in Workers : CtrlOf[w] = c}

(* Worker w may start on key k: the workqueue never gives one key to two   *)
(* workers at a time.                                                      *)
Due(w, k) ==
    /\ pc[w] = "idle"
    /\ k \in queue[CtrlOf[w]]
    /\ \A v \in WorkersOf(CtrlOf[w]) : pc[v] # "idle" => snap[v].name # k

Taken(w, k) == [queue EXCEPT ![CtrlOf[w]] = @ \ {k}]

(* Mutation: an error is logged and swallowed. *)
NotAgain(w, k) == delayed

(* Keys that Reconcile hands back with RequeueAfter or an error. *)
Again(w, k) == [delayed EXCEPT ![CtrlOf[w]] = @ \cup {k}]

(* Where Reconcile holds a semaphore slot and is counted by the gauge. *)
Holding == {"lookup", "warming", "update"}

(* Mutations: no release; two decrements. *)
NotReleased(w) == sem
DecrementedTwice(w) == [active EXCEPT ![CtrlOf[w]] = @ - 2]

(* The deferred Release and DecrementWarmupActivePods. *)
Released(w) == [sem EXCEPT ![CtrlOf[w]] =
                   IF MaxConcurrentWarmups > 0 THEN @ - 1 ELSE @]
Decremented(w) == [active EXCEPT ![CtrlOf[w]] = @ - 1]

(* The pod is gone, has no gate, or has its condition: nothing to do. *)
ReconcileSkip(w, k) ==
    LET p == cache[CtrlOf[w]][k] IN
    /\ Due(w, k)
    /\ p # None => ~hasReadinessGate(p) \/ isConditionTrue(p)
    /\ queue' = Taken(w, k)
    /\ UNCHANGED <<apiVars, cache, delayed, stopping, semVars, workerVars,
                   warmed, faults>>

(* Not running or not ready yet: look again in 5 seconds. *)
ReconcileRequeue(w, k) ==
    LET p == cache[CtrlOf[w]][k] IN
    /\ Due(w, k)
    /\ p # None
    /\ hasReadinessGate(p)
    /\ ~isConditionTrue(p)
    /\ ~WarmupEligible(p)
    /\ queue' = Taken(w, k)
    /\ delayed' = Again(w, k)
    /\ UNCHANGED <<apiVars, cache, stopping, semVars, workerVars, warmed,
                   faults>>

(* Get fails with something other than NotFound. *)
ReconcileGetError(w, k) ==
    /\ Due(w, k)
    /\ faults < MaxFaults
    /\ faults' = faults + 1
    /\ queue' = Taken(w, k)
    /\ delayed' = Again(w, k)
    /\ UNCHANGED <<apiVars, cache, stopping, semVars, workerVars, warmed>>

(* From the acquired slot to the dispatch on the configuration: the gauge  *)
(* goes up; a configuration that does not parse goes straight to the       *)
(* fail-open update, a named WarmupConfig has to be fetched first.         *)
Begin(w, p) ==
    /\ active' = [active EXCEPT ![CtrlOf[w]] = @ + 1]
    /\ pc' = [pc EXCEPT ![w] = CASE p.cfg = "invalid"      -> "update"
                                 [] p.cfg = "warmupconfig" -> "lookup"
                                 [] p.cfg = "annotation"   -> "warming"]
    /\ result' = [result EXCEPT ![w] = IF p.cfg = "invalid" THEN "failed"
                                       ELSE "none"]
    /\ target' = [target EXCEPT ![w] = IF p.cfg = "annotation"
                                       THEN LiveRun(p.name) ELSE None]

(* An eligible pod: wait for a slot, or begin at once without a semaphore. *)
ReconcileAdmit(w, k) ==
    LET p == cache[CtrlOf[w]][k] IN
    /\ Due(w, k)
    /\ p # None
    /\ hasReadinessGate(p)
    /\ ~isConditionTrue(p)
    /\ WarmupEligible(p)
    /\ queue' = Taken(w, k)
    /\ snap' = [snap EXCEPT ![w] = p]
    /\ IF MaxConcurrentWarmups > 0
       THEN /\ pc' = [pc EXCEPT ![w] = "queued"]
            /\ UNCHANGED <<active, result, target>>
       ELSE Begin(w, p)
    /\ UNCHANGED <<apiVars, cache, delayed, stopping, sem, warmed, faults>>

(* Mutation: one slot too many. *)
AcquireOffByOne(w) ==
    /\ pc[w] = "queued"
    /\ ~stopping[CtrlOf[w]]
    /\ sem[CtrlOf[w]] <= MaxConcurrentWarmups
    /\ sem' = [sem EXCEPT ![CtrlOf[w]] = @ + 1]
    /\ Begin(w, snap[w])
    /\ UNCHANGED <<apiVars, procVars, snap, warmed, faults>>

Acquire(w) ==
    /\ pc[w] = "queued"
    /\ ~stopping[CtrlOf[w]]
    /\ sem[CtrlOf[w]] < MaxConcurrentWarmups
    /\ sem' = [sem EXCEPT ![CtrlOf[w]] = @ + 1]
    /\ Begin(w, snap[w])
    /\ UNCHANGED <<apiVars, procVars, snap, warmed, faults>>

(* The semaphore's Acquire returns the context's error. *)
AcquireCancelled(w) ==
    /\ pc[w] = "queued"
    /\ stopping[CtrlOf[w]]
    /\ pc' = [pc EXCEPT ![w] = "idle"]
    /\ delayed' = Again(w, snap[w].name)
    /\ snap' = [snap EXCEPT ![w] = None]
    /\ UNCHANGED <<apiVars, cache, queue, stopping, semVars, result, target,
                   warmed, faults>>

LookupFound(w) ==
    /\ pc[w] = "lookup"
    /\ pc' = [pc EXCEPT ![w] = "warming"]
    /\ target' = [target EXCEPT ![w] = LiveRun(snap[w].name)]
    /\ UNCHANGED <<apiVars, procVars, semVars, snap, result, warmed, faults>>

(* Any error of the lookup is handled as "not found", failing open. *)
LookupFails(w) ==
    /\ pc[w] = "lookup"
    /\ pc' = [pc EXCEPT ![w] = "update"]
    /\ result' = [result EXCEPT ![w] = "failed"]
    /\ UNCHANGED <<apiVars, procVars, semVars, snap, target, warmed, faults>>

(* The executor returns; a shutdown may have cut the warmup short. *)
FinishWarmup(w) ==
    LET k == snap[w].name IN
    /\ pc[w] = "warming"
    /\ \E r \in {"succeeded", "failed"} \cup
                (IF stopping[CtrlOf[w]] THEN {"interrupted"} ELSE {}) :
          /\ result' = [result EXCEPT ![w] = r]
          /\ warmed' = IF /\ r = "succeeded"
                          /\ target[w] # None
                          /\ target[w] = LiveRun(k)
                       THEN warmed \cup {<<k, target[w]>>} ELSE warmed
    /\ pc' = [pc EXCEPT ![w] = "update"]
    /\ target' = [target EXCEPT ![w] = None]
    /\ UNCHANGED <<apiVars, procVars, semVars, snap, faults>>

(* Reconcile returns and its deferred calls run. *)
Return(w) ==
    /\ sem' = Released(w)
    /\ active' = Decremented(w)
    /\ pc' = [pc EXCEPT ![w] = "idle"]
    /\ snap' = [snap EXCEPT ![w] = None]
    /\ result' = [result EXCEPT ![w] = "none"]
    /\ UNCHANGED target

(* Mutations: the update does not use the reconcile's context; it carries  *)
(* no resourceVersion.                                                     *)
AcceptedAfterStop(w) == SameVersion(snap[w])
AcceptedAnyVersion(w) ==
    ~stopping[CtrlOf[w]] /\ store[snap[w].name] # None

(* The API server accepts the update of w: the context is not done and the *)
(* fetched pod is still the stored version.                                *)
UpdateAccepted(w) == ~stopping[CtrlOf[w]] /\ SameVersion(snap[w])

(* setConditionTrue's Status().Update succeeds. *)
UpdateOK(w) ==
    /\ pc[w] = "update"
    /\ UpdateAccepted(w)
    /\ Put(snap[w].name, WithCondition(snap[w], result[w]))
    /\ Return(w)
    /\ UNCHANGED <<procVars, warmed, faults>>

(* A conflict, a deleted pod or a done context: the error is returned and  *)
(* the key retried, the warmup included.                                   *)
UpdateRejected(w) ==
    /\ pc[w] = "update"
    /\ ~UpdateAccepted(w)
    /\ delayed' = Again(w, snap[w].name)
    /\ Return(w)
    /\ UNCHANGED <<apiVars, cache, queue, stopping, warmed, faults>>

(* The request never reaches the API server. *)
UpdateLost(w) ==
    /\ pc[w] = "update"
    /\ faults < MaxFaults
    /\ faults' = faults + 1
    /\ delayed' = Again(w, snap[w].name)
    /\ Return(w)
    /\ UNCHANGED <<apiVars, cache, queue, stopping, warmed>>

(* The update is applied but its answer is lost. *)
UpdateUnacked(w) ==
    /\ pc[w] = "update"
    /\ UpdateAccepted(w)
    /\ faults < MaxFaults
    /\ faults' = faults + 1
    /\ Put(snap[w].name, WithCondition(snap[w], result[w]))
    /\ delayed' = Again(w, snap[w].name)
    /\ Return(w)
    /\ UNCHANGED <<cache, queue, stopping, warmed>>

-----------------------------------------------------------------------------
(* Controller process: stop and crash *)

(* SIGTERM cancels the context of every reconcile of c. *)
Stop(c) ==
    /\ ~stopping[c]
    /\ faults < MaxFaults
    /\ faults' = faults + 1
    /\ stopping' = [stopping EXCEPT ![c] = TRUE]
    /\ UNCHANGED <<apiVars, cache, queue, delayed, semVars, workerVars, warmed>>

(* The process ends and a new one starts with nothing in memory. *)
FreshProcess(c) ==
    /\ cache' = [cache EXCEPT ![c] = [k \in Pods |-> None]]
    /\ queue' = [queue EXCEPT ![c] = {}]
    /\ delayed' = [delayed EXCEPT ![c] = {}]
    /\ stopping' = [stopping EXCEPT ![c] = FALSE]
    /\ sem' = [sem EXCEPT ![c] = 0]
    /\ active' = [active EXCEPT ![c] = 0]
    /\ pc' = [w \in Workers |-> IF CtrlOf[w] = c THEN "idle" ELSE pc[w]]
    /\ snap' = [w \in Workers |-> IF CtrlOf[w] = c THEN None ELSE snap[w]]
    /\ result' = [w \in Workers |-> IF CtrlOf[w] = c THEN "none"
                                    ELSE result[w]]
    /\ target' = [w \in Workers |-> IF CtrlOf[w] = c THEN None
                                    ELSE target[w]]
    /\ UNCHANGED <<apiVars, warmed>>

(* The manager has stopped its workers, or their grace period is over. *)
Exit(c) ==
    /\ stopping[c]
    /\ FreshProcess(c)
    /\ UNCHANGED faults

Crash(c) ==
    /\ ~stopping[c]
    /\ faults < MaxFaults
    /\ faults' = faults + 1
    /\ FreshProcess(c)

-----------------------------------------------------------------------------
Init ==
    /\ store = [k \in Pods |-> None]
    /\ rev = [k \in Pods |-> 0]
    /\ cache = [c \in Controllers |-> [k \in Pods |-> None]]
    /\ queue = [c \in Controllers |-> {}]
    /\ delayed = [c \in Controllers |-> {}]
    /\ stopping = [c \in Controllers |-> FALSE]
    /\ sem = [c \in Controllers |-> 0]
    /\ active = [c \in Controllers |-> 0]
    /\ pc = [w \in Workers |-> "idle"]
    /\ snap = [w \in Workers |-> None]
    /\ result = [w \in Workers |-> "none"]
    /\ target = [w \in Workers |-> None]
    /\ warmed = {}
    /\ faults = 0

Environment(k) ==
    CreatePod(k) \/ SchedulePod(k) \/ KubeletReport(k) \/ DeletePod(k)

(* A worker takes key k off the queue. *)
Take(w, k) ==
    ReconcileSkip(w, k) \/ ReconcileRequeue(w, k) \/ ReconcileAdmit(w, k)

(* The rest of a reconcile that has taken its key. *)
Proceed(w) ==
    \/ Acquire(w) \/ AcquireCancelled(w)
    \/ LookupFound(w) \/ LookupFails(w)
    \/ FinishWarmup(w)
    \/ UpdateOK(w) \/ UpdateRejected(w)

Fault ==
    \/ \E w \in Workers : UpdateLost(w) \/ UpdateUnacked(w)
    \/ \E w \in Workers, k \in Pods : ReconcileGetError(w, k)
    \/ \E c \in Controllers : Stop(c) \/ Crash(c)

Next ==
    \/ \E k \in Pods : Environment(k)
    \/ \E c \in Controllers, k \in Pods : Observe(c, k) \/ RequeueFires(c, k)
    \/ \E w \in Workers, k \in Pods : Take(w, k)
    \/ \E w \in Workers : Proceed(w)
    \/ \E c \in Controllers : Exit(c)
    \/ Fault

(* Goroutines, timers and watches run on; an executor returns because its  *)
(* context has a deadline.  The semaphore serves its waiters in order; the *)
(* workqueue takes keys of a priority in order, and one that was passed    *)
(* over for its priority finds the others waiting for a timer or an event: *)
(* neither passes anyone over for ever.  Nothing is assumed of the         *)
(* environment or of faults.                                               *)
Fairness ==
    /\ \A c \in Controllers, k \in Pods :
          WF_vars(Observe(c, k)) /\ WF_vars(RequeueFires(c, k))
    /\ \A c \in Controllers, k \in Pods :
          SF_vars(\E w \in WorkersOf(c) : Take(w, k))
    /\ \A w \in Workers : WF_vars(Proceed(w)) /\ SF_vars(Acquire(w))
    /\ \A c \in Controllers : WF_vars(Exit(c))

Spec == Init /\ [][Next]_vars

FairSpec == Spec /\ Fairness

-----------------------------------------------------------------------------
(* Properties *)

(* Every variable keeps to its type; in particular the semaphore count and *)
(* the gauge never go below zero.                                          *)
TypeOK ==
    /\ store \in [Pods -> PodVersion \cup {None}]
    /\ rev \in [Pods -> Nat]
    /\ cache \in [Controllers -> [Pods -> PodVersion \cup {None}]]
    /\ queue \in [Controllers -> SUBSET Pods]
    /\ delayed \in [Controllers -> SUBSET Pods]
    /\ stopping \in [Controllers -> BOOLEAN]
    /\ sem \in [Controllers -> Nat]
    /\ active \in [Controllers -> Nat]
    /\ pc \in [Workers -> {"idle", "queued"} \cup Holding]
    /\ snap \in [Workers -> PodVersion \cup {None}]
    /\ result \in [Workers -> {"none", "succeeded", "failed", "interrupted"}]
    /\ target \in [Workers -> PodRun \cup {None}]
    /\ warmed \subseteq Pods \X PodRun
    /\ faults \in Nat

(* A worker of c is reconciling pod k. *)
Processing(c, k) ==
    \E w \in WorkersOf(c) : pc[w] # "idle" /\ snap[w].name = k

(* Reconcile must act on pod p: gated, condition not set. *)
Unfinished(p) == p # None /\ hasReadinessGate(p) /\ ~isConditionTrue(p)

(* No pod is forgotten: when the cache of c is up to date with pod k and   *)
(* the pod's gate is shut, k is in the workqueue, waiting for a retry, or  *)
(* being reconciled.  Each return of Reconcile that leaves the gate shut   *)
(* must requeue or be followed by a watch event.                           *)
NoPodForgotten ==
    \A c \in Controllers, k \in Pods :
        Unfinished(cache[c][k]) /\ cache[c][k] = View(c, k) =>
            k \in queue[c] \cup delayed[c] \/ Processing(c, k)

(* The slots in use and the gauge are exactly the reconciles between       *)
(* Acquire and return, on every path out of Reconcile, and never more      *)
(* slots are in use than --max-concurrent-warmups allows.                  *)
SlotsExact ==
    \A c \in Controllers :
        LET holders == {w \in WorkersOf(c) : pc[w] \in Holding} IN
        /\ active[c] = Cardinality(holders)
        /\ MaxConcurrentWarmups > 0 =>
              sem[c] = Cardinality(holders) /\ sem[c] <= MaxConcurrentWarmups

(* With one controller per node (the DaemonSet), no two reconciles work on *)
(* the same incarnation of a pod at the same time, across processes,       *)
(* restarts, retries and re-created pods.                                  *)
OneControllerPerNode ==
    \A c, d \in Controllers :
        c # d => WatchedNode[c] # AnyNode /\ WatchedNode[c] # WatchedNode[d]

NodeLocalExclusive ==
    OneControllerPerNode =>
        \A v, w \in Workers :
            /\ v # w
            /\ pc[v] # "idle"
            /\ pc[w] # "idle"
            => \/ snap[v].name # snap[w].name
               \/ snap[v].uid # snap[w].uid

(* Pod k is the same incarnation before and after the step, and the step   *)
(* writes its warmup condition.                                            *)
WritesCondition(k) ==
    /\ store[k] # None
    /\ store'[k] # None
    /\ store[k].uid = store'[k].uid
    /\ store[k].cond # store'[k].cond

(* WarmupComplete is recorded only for a pod a warmup of which succeeded   *)
(* from its start to its end on the very container run the pod now         *)
(* reports: a warmup of a deleted namesake, or of containers that have     *)
(* since been reported restarted, never opens the gate.                    *)
CompleteMeansWarmed ==
    [][\A k \in Pods :
          WritesCondition(k) /\ store'[k].cond = "WarmupComplete" =>
              <<k, Run(store'[k])>> \in warmed]_vars

(* A gate opens only on a pod that is running with all containers ready at *)
(* the moment of the write, however long ago Reconcile checked it.         *)
GateOpensOnReadyPod ==
    [][\A k \in Pods :
          WritesCondition(k) => /\ hasReadinessGate(store[k])
                                /\ WarmupEligible(store[k])]_vars

(* The status update writes the whole object from a copy read before the   *)
(* warmup; nothing the kubelet or the scheduler wrote since is undone.     *)
NoLostUpdate ==
    [][\A k \in Pods :
          WritesCondition(k) =>
              store'[k] = [store[k] EXCEPT !.cond = store'[k].cond,
                                           !.rv = store'[k].rv]]_vars

(* The outcome of a pod's warmup is written once: no retry, replica or     *)
(* restarted controller turns WarmupComplete into WarmupFailedOpen or the  *)
(* reverse, or takes the condition back.                                   *)
OutcomeIsFinal ==
    [][\A k \in Pods : WritesCondition(k) => store[k].cond = "Unset"]_vars

(* A warmup that a shutdown interrupted never opens a gate: the pod is     *)
(* left for the next controller process.                                   *)
ShutdownNeverOpensGate ==
    [][\A w \in Workers :
          pc[w] = "update" /\ result[w] = "interrupted" /\ pc'[w] = "idle" =>
              store' = store]_vars

(* A pod that stays healthy, gated and watched by a controller has its     *)
(* gate opened for good, whatever the warmups' outcomes and whichever      *)
(* faults happened before: fail-open.                                      *)
Healthy(k) ==
    /\ store[k] # None
    /\ hasReadinessGate(store[k])
    /\ WarmupEligible(store[k])
    /\ \E c \in Controllers : Selects(c, store[k])

PodsBecomeReady ==
    \A k \in Pods :
        <>[]Healthy(k) => <>[](store[k] # None /\ isConditionTrue(store[k]))

(* A reconcile waiting for a slot gets one, or is told to stop: no path    *)
(* out of Reconcile leaks a slot.                                          *)
SlotWaitersServed ==
    \A w \in Workers : pc[w] = "queued" ~> pc[w] # "queued"

-----------------------------------------------------------------------------
(* Refinement *)

GateState(k) ==
    CASE store[k] = None                -> "absent"
      [] Unfinished(store[k])           -> "shut"
      [] store[k] # None /\ isConditionTrue(store[k]) -> store[k].cond
      [] OTHER                          -> "ungated"

(* Outcomes about to be written for the stored version of k. *)
GatePending(k) ==
    IF Unfinished(store[k])
    THEN {result[w] : w \in {v \in Workers : /\ pc[v] = "update"
                                            /\ snap[v].name = k
                                            /\ snap[v].rv = store[k].rv}}
    ELSE {}

Gate == INSTANCE ReadinessGate WITH
            state <- [k \in Pods |-> GateState(k)],
            pending <- [k \in Pods |-> GatePending(k)]

(* The controllers, the webhook and the API server's version test together *)
(* keep the promise of ReadinessGate.                                      *)
KeepsGatePromise == Gate!Spec
=============================================================================
