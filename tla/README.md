# kube-booster in TLA+

A verification project for kube-booster, the Kubernetes controller that keeps a
pod's readiness gate `kube-booster.io/warmup-ready` shut until warmup requests
have been sent to the pod. The modules are translated from the Go source; paths
below are relative to the repository.

## The system

| part | state it keeps | operations | interacts with |
|---|---|---|---|
| mutating webhook (`pkg/webhook`) | none | `Handle`: append the gate to an annotated pod | API server, at pod creation; `failurePolicy: Ignore` |
| pod controller (`pkg/controller`) | informer cache, workqueue, semaphore, gauge; per worker the fetched pod and the result | `Reconcile`, `setConditionTrue`, event predicate | API server (watch, status update), executors |
| warmup executor (`pkg/warmup/warmup_executor.go`) | loop counters, latencies | `Execute` | sender, rate limiter, context |
| scenario executor (`scenario_executor.go`, `session.go`) | three loop indices, counts, session | `ExecuteScenario`, `executeStep` | senders, rate limiter, two contexts |
| gRPC sender (`grpc_sender.go`) | connection, cached method, sticky reflection failure | `Send`, `Close` | pod's gRPC server |
| HTTP sender (`http_sender.go`) | none | `Send` | pod |
| rate limiter (`rate_limiter.go`) | token bucket shared by all warmups | `Wait` | executors |
| annotation parser (`config.go`) | none | `ParseConfig` | controller |
| process (`cmd/controller/main.go`) | flags | start, stop on SIGTERM | everything |

What is hard here, and what would make the system wrong:

* `Reconcile` reads a pod from a cache, runs a warmup for up to minutes, and then
  writes the *whole* status from its old copy. In between the pod may become
  unready, restart, be deleted and re-created, or be warmed up by another replica.
  Only the `resourceVersion` test of the API server protects the write.
* A pod whose gate stays shut never serves traffic. Every return of `Reconcile`
  must requeue the pod or be followed by a watch event, across API errors, lost
  answers, stops and crashes.
* The semaphore slot and the gauge are given back by deferred calls, on every way
  out.
* Shutdown cancels warmups; a warmup cut short must not be recorded.
* The executors race a deadline with a rate limiter that may refuse before the
  deadline, and must account for every request and always return.
* The scenario executor shares one gRPC sender among the requests of a step, and
  one session among all steps.
* All warmups of a process draw from one token bucket, each under nested deadlines
  of its own: the bucket's rate has to hold for all of them together, and none may
  use up the time of the others.
* A reflection response lists files in any order, and values put into a text may
  hold tokens themselves: the result must not depend on luck.

`PROJECT.json` lists the hazards at their lines with the properties that cover them.

## Modules

| module | models | notes |
|---|---|---|
| `PodMutator` | webhook, gate test | functions on pod records |
| `PodReconciler` | controller processes with API server, kubelet, scheduler, users | the core |
| `ReadinessGate` | abstract promise about a gate | `PodReconciler` implements it (`KeepsGatePromise`, proved) |
| `WarmupResult` | `Result`, `BuildMessage` | shared by both executors |
| `Executor` | abstract promise of an executor to `Reconcile` | both executors implement it (`KeepsContract`, proved) |
| `WarmupExecutor` | `Execute` | |
| `GRPCSender` | `GRPCSender` | `Send` as the set of its outcomes |
| `ScenarioExecutor` | `ExecuteScenario`, `executeStep` | uses `GRPCSender` |
| `RequestRateLimiter` | `NewRequestRateLimiter`, the token bucket | functions on the limiter |
| `WarmupTiming` | the warmups of a process in time | uses `RequestRateLimiter` |
| `AnnotationConfig` | `ParseConfig` | a function |
| `FileSet` | `buildFileSet`, `fileSetResolver`, `resolveMethodDescriptor` | a state machine: the calls of `register` are a stack |
| `SessionContext` | `Interpolate`, `extractVariables`, `jsonPathLookup` | functions |
| `WarmupFunctions` | a call of one of these with any input | composes the three |
| `MC...` | instances for TLC | |
| `...Proofs` | theorems | see below |

The control flow of a warmup is modelled twice, for two questions:
`WarmupExecutor` and `ScenarioExecutor` keep every count and every way out and let a
deadline come at any moment; `WarmupTiming` keeps the times and drops the counts.

### PodReconciler

One action per section of `Reconcile` between two points where something else can
happen:

| source (`pod_controller.go`) | action |
|---|---|
| `Get` not found, no gate, condition already True (48-77) | `ReconcileSkip` |
| `Get` error (55-56) | `ReconcileGetError` |
| not Running, containers not ready, no `ContainersReady` (79-95) | `ReconcileRequeue` |
| passes all checks (97) | `ReconcileAdmit`; goes on to `Begin` at once without a semaphore |
| `WarmupSemaphore.Acquire` (104) | `Acquire`, `AcquireCancelled` |
| gauge, `ParseConfig` and its failure path (113-158) | `Begin`, part of the two above |
| `Get` of the WarmupConfig (160) | `LookupFound`, `LookupFails` |
| executor returns (176, 179), metrics, events | `FinishWarmup` |
| `Status().Update` (285) and return with deferred calls | `UpdateOK`, `UpdateRejected`, `UpdateLost`, `UpdateUnacked` |
| SIGTERM, end of process, crash (`main.go` 183) | `Stop`, `Exit`, `Crash` |

External parts are modelled as the code uses them: the API server numbers versions
and refuses a status update of an old one; the informer brings the latest version
into the cache (events coalesce) and passes it through the predicate; the workqueue
never hands a key to two workers and keeps delayed keys; the kubelet, the scheduler
and users change pods at any time.

Abstractions. A pod is the fields the controller reads; `cond = "Unset"` stands for
a condition that is absent or not True. What `ParseConfig` returns is one of three
outcomes. Sending an update and applying it is one step: an update still on its way
when the process stops is the same as one applied before, since it is accepted or
refused by its version alone. `restarts` is what the API server knows; a restart the
kubelet has not reported yet is invisible to anybody reading the API. A key may be
in the queue and delayed at once, which only adds reconciles. Statuses all ready
with `ContainersReady` False happen with sidecar init containers, which are not
among the container statuses. Left out: event and log texts, graceful deletion
(`deletionTimestamp`), decode and marshal errors of the webhook, nil executors
(`main.go` always sets both), leader election (off by default; `Replicas` shows what
holds without it).

In the shipped binary `SetupWithManager` leaves one concurrent reconcile per process,
so the semaphore is never contended there; the instance with two workers in a process
(`Slots`) is that of the unit test `TestPodReconciler_Semaphore_SerializesExecution`, which runs
`Reconcile` concurrently on one reconciler.

### WarmupExecutor, ScenarioExecutor, GRPCSender

One action per loop head, wait and send, because the context may be done between any
two of them. `Expire` (`ExpireScenario`, `ExpireStep`) may happen at any moment; the
limiter may refuse at any moment, since `rate.Limiter.Wait` refuses as soon as the
wait would outlast the deadline. The pod answers, fails or stays silent. A gRPC
executor call with a single method behaves as any sender does, so `WarmupExecutor`
does not track its cache; `ScenarioExecutor` does. `Execute`'s own guard against an
unknown protocol, which `ParseConfig` never produces, is included. A session value is
represented by the response it was taken from, and a lookup may find any subset of
the paths (not JSON: none).

`Executor` says what `Reconcile` relies on, whichever executor it calls: one result
whose counts do not exceed the requests asked for and whose success means that a
request succeeded (or none was asked for). `asked` is the request count of the
annotation, or the sum over the requests of the scenario.

### RequestRateLimiter, WarmupTiming

The unit of time is what one token takes. `Wait` of x/time/rate is external: it
reserves a token, which makes the bucket negative while reservations are
outstanding, and refuses at once, reserving nothing, if the token comes after the
deadline or the bucket can hold none (`NoToken`). The rate is given in quarters of a
request per second, so that rates below a half and the rounding of
`NewRequestRateLimiter` happen; the nil limiter is rate 0. The rate is converted to an
int before it is capped: what an int cannot hold becomes, as Go leaves it to the
architecture, the largest or the least int (`ToInt`, with `MaxInt` small), so `Burst` is
the set of sizes the bucket may get.

A warmup has the deadline of `Reconcile`'s context (annotation timeout plus grace),
inside it that of the executor, inside it that of the step. When the executor has
returned, `Reconcile` still holds its slot during the status update (`update`), which
runs under the context of the process and ends when the API server answers (`Release`);
no fairness is assumed of that. Time passes only while a warmup waits for a token or
for an answer, since the code's own statements take none to speak of; a done context
ends both at once. A step has one request, sent `count` times: a refusal ends the
request, which is then the whole step. Left out: an answer that arrives at the very
moment of the deadline wins or loses without consequence for the times; a reservation
given up on shutdown returns its token.

### AnnotationConfig, FileSet, SessionContext, WarmupFunctions

An annotation is absent, unparsable or a number. A text is a
sequence of words, some of which are tokens; tokens put together from pieces of two
values are not modelled. A document is the set of its nodes, each under the path that
leads to it, so that every prefix of a path is a node.

`buildFileSet` is one action per step of the code: the size check with the
unmarshalling (`Unmarshal`), a call of `register` for a file of the response
(`RegisterFile`) or for an import (`RegisterImport`), `NewFile` with `RegisterFile` and
the return (`AddFile`), and the end (`Built`). The recursion is a stack of calls. If a
file imports itself the stack grows for ever, as it does in the code; the safety
properties hold for such responses too, and the depth is bounded for all others.

A file of a response has imports, some of them public, symbols of a kind (message, enum,
service), the packages it is in and references to types. `protodesc.NewFile` and
`RegisterFile` are external: `NewFile` asks the resolver for each import and each type
mentioned, and refuses a type of the wrong kind or of a file that is not imported,
directly or through public imports (`Visible`, `Resolves`); `RegisterFile` refuses a name
declared twice or that of a package (`Clash`). What else `NewFile` finds wrong with a
file by itself is its field `valid`. The resolver is the repository's: a type is looked
for in the set under construction, then among the messages linked into the program
(`GlobalMessages`), and nowhere else (`fileSetResolver`). References are full names, as
compilers write them; the well-known files have no public imports.

The resolver has two consequences that the reference definitions show. An enum of a
well-known file that was not sent (`google.protobuf.NullValue`) is not found, and the
response is refused: `Buildable` asks for every type mentioned among the symbols of the
response and the global *messages*. And if a response declares the name of a global
message elsewhere (`Redeclares`), what the name stands for depends on whether that file
is registered yet, so that a response may be refused in one order and accepted in
another. `FileSetComplete` and `UnaryMethodFound` except such responses from "fails only
if" and from "is found", not from the rest: a set that is built is complete and a method
that is found is there.

`WarmupFunctions` calls one of the functions with any input of its kind and compares
the result with a reference definition that is not an algorithm: a response that can
be built and a set that is complete and has imports first (`Buildable`, `Effective`,
`ImportsFirst`), the expansion of a text word by word (`Expansion`), the nodes that
paths name (`Extracted`), and for `ParseConfig` what the executors need (`Runnable`,
`PortCertain`). Its inputs are CONSTANTS: `MCFunctions` gives small sets of them, the
proofs only their kinds (`InputsAssumption`).

## Runs

| run | instance | checks |
|---|---|---|
| `OnePod` | 1 process, 1 worker, 1 pod name, all kinds of submissions and reports, 5 environment writes, 2 faults | types, `NoPodForgotten`, `CompleteMeansWarmed`, `GateOpensOnReadyPod`, `NoLostUpdate`, `OutcomeIsFinal`, `ShutdownNeverOpensGate`, refinement `KeepsGatePromise` |
| `NodeLocal` | 2 node-local processes, 2 nodes, no semaphore | `NodeLocalExclusive` |
| `Replicas` | 2 processes watching all pods | `OutcomeIsFinal`, refinement `KeepsGatePromise` |
| `Slots` | 2 workers, 1 slot, 2 pods | `SlotsExact`, `SlotWaitersServed` |
| `BecomesReady` | 1 process, 1 worker, 2 pods with a WarmupConfig, 2 faults | `PodsBecomeReady` |
| `Execute` | 1 to 5 requests, with and without a limiter | counts, errors, message, percentiles, contract, termination |
| `Scenario` | 4 scenarios of up to 3 steps, HTTP and gRPC, with and without a limiter | continuation, extraction, connections, one reflection lookup per step, contract, termination |
| `Timing` | 2 warmups out of 5 plans, started at different times, 4 rates | `RateBounded`, `FairShare`, `RefusedOnlyNearDeadline`, `OnlyUpdateOutlastsTimeout`, `WarmupsReturn` |
| `Functions` | annotations at and beyond every limit, responses of up to 3 files, texts and sessions over 3 keys, documents of depth 2 | each function against its reference definition |
| `DocGRPCMethod`, `DocInterpolate`, `DocScenarioTimeout` | small | one claim of a document or comment each, violated |

Bounds. `MaxRev` is the number of versions the environment may write under a name;
five allow create, schedule, ready, restart or unready, ready again, or a deletion
and a re-creation during a warmup. `MaxFaults` bounds API errors, stops and crashes;
two allow a fault while recovering from a fault. The controller's own retries are not
bounded. With one slot and two workers the semaphore is contended; with two
processes every race over one pod appears. Five requests cover each way out of the
loop at its first, middle and last turn, and percentile indices are proved for every
number. The scenarios have a request repeated, a step after a failing one, a
malformed method, two requests on one sender and variables set twice. The plans of
`Timing` are a warmup that fits its timeout, one that does not, and scenarios whose
own timeout is shorter, longer and not given; its rates are unlimited, one that rounds
to zero, one below the cap and one that neither the cap nor an int holds, with more
requests than the bucket has tokens. `LastStart` lets the second
warmup find the bucket full, half empty or overdrawn, and `Horizon` is beyond every
deadline. The responses of `Functions` have repeated names, imports in either
direction, missing ones, well-known ones in and out of the response, an undecodable
file, an invalid one, one too large, symbols declared twice, a symbol named as a
package, types of imports, of public imports and of files not imported, enums and
messages of well-known files in and out of the response, and a global message declared
again. Deadlock is checked in `Functions`, where every call goes on until it returns (its responses have
no import cycle); elsewhere it is not, since a cluster with nothing left to do, or an
executor that has returned, is at rest.

Fairness. Watch events arrive, timers fire and goroutines go on (weak fairness of
`Observe`, `RequeueFires`, `Proceed`, `Exit`); an executor returns because its
context has a deadline, which the executors' own runs check. `semaphore.Weighted` serves
its waiters in order, hence strong fairness of `Acquire`. The workqueue of
controller-runtime is a priority queue: it takes keys of a priority in order, and keys of
the initial list after others. A key that is passed over gets its turn when the others
wait for their timer or the next event, as each reconciled key does, hence strong
fairness of taking a key.
Nothing is assumed of users, kubelet, scheduler or faults. In the executors the
goroutine goes on, the deadline comes and a done context ends a wait or a request;
no answer and no token is relied on. In `WarmupTiming` the clock goes on and a `Send`
returns once its context is done.

## What the documents say and the code does not do

* A second gRPC method in a step is not called; the first one is called again
  (`DocGRPCMethod`).
* Sorting the keys does not keep `Interpolate` from substituting inside substituted
  values, as the comment in `session.go` claims (`DocInterpolate`).
  `InterpolateExpandsForward` says what it does instead: tokens of keys that come
  later in the order are replaced in values, tokens of earlier ones are not.
* A WarmupConfig's timeout of more than the annotation's plus five seconds, the
  default of 120s included, has no effect (`DocScenarioTimeout`).

Seen while modelling, without a run of its own: a conflicting status update repeats
the whole warmup, which `docs/IMPLEMENTATION_SUMMARY.md` calls a "single attempt"; a
container restarted after the condition was set is ready without a warmup, although
`docs/USAGE.md` says the gate "prevents pods from receiving traffic until they are
fully warmed up"; the requests counter, "requests sent" in `docs/OBSERVABILITY.md`,
includes those the limiter refused; a warmup takes longer when other pods compete for
tokens, where `docs/USAGE.md` says "regardless of how many other pods are competing"
(`FairShare` bounds by how much); and the comment above `buildFileSet` says that
dependencies are resolved "then from the global registry", which is true of files and of
messages, not of enums.

`PROJECT.json` quotes the lines.

## What is proved

The controller, for every set of pods, processes, workers and nodes, every deployment
and bound, from the assumptions named in `PodReconciler` (a worker belongs to a
process; `None` is not a pod):

* `PodReconcilerProofs`: `TypeCorrect` and `SlotsAlwaysExact`. The gauge and the
  semaphore are cardinalities of the set of holding workers, so each action is shown
  to add or remove exactly one worker; types and slots are proved together
  (`Typed`), since a count stays a natural number only if somebody holds a slot.
* `PodVersionProofs`: `CompleteIsWarmed`, `GateOpensReady`, `UpdateLosesNothing`,
  `OutcomeStaysFinal`, `ShutdownOpensNoGate`. None of these is inductive. The
  invariant `VersionInv` says that every copy in a cache or a worker is not newer
  than the last number handed out and equals the stored version if it has its number
  (`CopiesInv`), and what a worker may rely on as long as its copy is still the
  stored version (`WorkerInv`): it is warming the run that is stored, and a success
  it is about to write is that run's.
* `WorkqueueProofs`: `NoPodIsForgotten`, by the same invariant: a step that
  leaves a cache entry alone and up to date did not write the pod, so the key is
  where it was unless the step is the one that reconciled it. And
  `NodeLocalAlwaysExclusive`: two processes can only be on the same incarnation if
  both node selectors let it through, and it has one node for all its life
  (`NodeInv`: uids are not used again, and all copies of an incarnation that have a
  node have the same one, stale ones in caches and workers included; `SelectsInv`: a
  process has only copies its selector lets through); two workers of a process are
  kept apart by the queue (`QueueInv`).
* `ReadinessGateProofs`: `GatePromiseKept`, the refinement of `ReadinessGate`, step by
  step. Only the environment and an accepted update change a gate (`StoreWriters`); a
  reconcile that comes to its update is an `Attempt` if its copy is still the stored
  version and invisible otherwise; every other step lets attempts lapse. That an
  update records an outcome that was pending needs `VersionInv` and that a reconcile
  at its update has an outcome (`OutcomeInv`).

The executors, for every configuration, scenario, set of statuses and methods:

* `WarmupExecutorProofs`: `CountsStayBounded`, `ShortfallAlwaysHasError`,
  `MessageAlwaysTruthful`, `PercentilesAlwaysNearestRank`, for every number of
  requests. The invariant `LoopInv` ties the counts to the loop index up to a refusal
  of the limiter and to the number of requests afterwards. From it also follow
  `TypesKept` and `ExecuteKeepsContract`: every step of `Execute` is the return of the
  abstract executor with an acceptable result, or a stutter.
* `ScenarioExecutorProofs`, from `ScenarioAssumption` (steps are sequences of
  requests) and `GRPCMethodAssumption`. `Placed` says where the three loops may be and
  that the open connections are the sender's; it gives `ScenarioTypes` and
  `NoConnectionEverLeaks`. `BodyInv` (the body kept inside a request answers that
  request) gives `AlwaysExtractedFromOwnResponse`; `LookupInv` (a step has made a
  lookup exactly if its sender has a method or remembers a failure) gives
  `AlwaysOneLookupPerStep`. For the counts, the shots of a scenario are ordered as the
  loops take them: `Before` is the finite set of those before a place, and the lemmas
  on it say what the end of a repetition, a request and a step add to it. `CountInv`
  bounds the requests counted so far from both sides by such sets: not more than were
  passed, whence the refinement `ScenarioKeepsContract`, and not fewer than those
  passed in steps that did not time out, whence, with `BegunInv`,
  `ScenarioAlwaysContinues`.

The functions, for every pod, response, session, text, document and set of paths, from
`KeysAssumption` (the sorted keys are the keys, each once), `InputsAssumption` (the
inputs are of their kinds) and `GlobalMessagesAssumption` (a name has one global message):

* `WarmupFunctionsProofs`. `ParseConfigSound` is about one call, and gives
  `AcceptedConfigsRun` and `PortsCertain`.
  `FileSetsComplete` and `UnaryMethodsFound` rest on `BuildInv`: the files in the set
  come from the response, each once and after its imports (`GoodFiles`), every import
  that a pending call has followed is registered, but for the one the call above it is
  for (`Waiting`), and a failure has a reason in the response. For the types mentioned
  this needs that a file sees the same files in the set under construction as in the
  whole response, since all it imports is there (`VisibleSame`), so that what the
  resolver finds is what the response declares (`ResolvesRefers`) and, unless a global
  message is redeclared, also the other way round (`RefersResolves`). `RecursionBounded` adds
  that each call on the stack is for an import of the one below (`Nested`): if files
  can be put in layers, imports in lower ones, the stack is not higher than the layers.
  `TextsExpanded` follows the passes of `Interpolate`: what is left to expand after `n`
  keys, expanded, is the `Expansion` of the text. `VariablesExtracted` follows a path
  part by part (`LookupFinds`).
  Induction over numbers, sequences and texts is done with sets: the set of the
  counterexamples has a least member, by well-foundedness of the natural numbers
  (`LeastNat`, `NatSetInduction`, `SeqSetInduction`), and that a recursive function
  satisfies its equation is proved the same way, from finite approximations of it
  (`IterationExists`). So the folds and recursive functions of the model need no
  induction principle with an operator as parameter.

Time and rate, for every finite set of warmups and every plan, rate and timeout, from
`PlansAssumption` (types; an annotation's timeout is positive, as `ParseConfig`
makes sure), `TimingAssumption` (the clock does not stop before the last deadline) and
`MaxBurstAssumption` (the cap is positive and an int):

* `WarmupTimingProofs`: `TimingTypes`, `RateAlwaysBounded`, `ShareAlwaysFair`,
  `OnlyUpdateEverOutlastsTimeout`, `RefusalsNearDeadline`. `ContextOK` says that the deadlines
  are nested and that nobody waits beyond the innermost one. `DebtInv` is the heart of
  the limiter: each token the bucket lacks is one that exactly one warmup waits for,
  and they come due one by one, so the overdraft is at most the number of waiting
  warmups and bounds how long any of them waits. `RateInv` adds up, for every earlier
  moment, what was granted since, what is granted now and what is in the bucket. That the bucket
  holds at least one token and at most a second's worth (`BurstBounds`) is shown for each
  size the conversion may give.

Only model-checked: liveness (`PodsBecomeReady`, `SlotWaitersServed`,
`ExecuteReturns`, `ScenarioReturns`, `WarmupsReturn`), which is out of the prover's
reach. Every inductive invariant named above was also checked with TLC on instances of
the runs, where it holds.

## Not modelled

* Metrics other than the gauge: counters and histograms that nothing reads back.
* `deepcopy.go` and `register.go`: field-by-field copying and registration, without a
  decision in them.
* URLs and addresses (`BuildEndpointURL`, `BuildGRPCAddress`), event and log texts.
* Leader election, ports and probes: configuration handed to controller-runtime.
* The five seconds between polls: a requeue may fire at any time.
* That `buildFileSet` returns for a response with an import cycle: it would not.
  protobuf compilers refuse such files, and the inputs of `Functions` have none.
* Tokens returned to the bucket when a shutdown cancels a reservation.
* Test doubles and the demo server.

## Plan

Every safety property that a passing run checks, action properties and refinements
included, is now a theorem. What is left are the liveness properties, which stay with
TLC, and the composition: that what `ReadinessGate` calls an attempt is a call of an
executor that keeps `Executor`.
