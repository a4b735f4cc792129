-------------------------- MODULE ScenarioExecutor --------------------------
(***************************************************************************)
(* One call of ExecuteScenario (pkg/warmup/scenario_executor.go): the      *)
(* steps of a WarmupConfig in order, in a step its requests in order, each *)
(* request Count times, under a deadline for the scenario and one for each *)
(* step.  Values extracted from responses are kept in a session for later  *)
(* requests; gRPC requests of a step share a sender.                       *)
(*                                                                         *)
(* A request is [protocol, method (of gRPC), count, expected (status),     *)
(* extract (set of variables)].  A shot <<s, r, n>> is the n-th sending of *)
(* request r of step s; a session value is the shot whose response it was  *)
(* taken from.                                                             *)
(***************************************************************************)
EXTENDS Naturals, Sequences, FiniteSets, GRPCSender, WarmupResult

CONSTANTS
    Scenarios,      \* the lists of steps to consider
    Variables,      \* names of session variables
    Statuses,       \* HTTP statuses the pod may answer with
    None            \* nothing: no value, no response body

Requests == [protocol : {"", "http", "grpc"}, method : GRPCMethods,
             count : Nat, expected : Nat, extract : SUBSET Variables]

ASSUME ScenarioAssumption ==
    /\ Scenarios \subseteq Seq(Seq(Requests))
    /\ Statuses \subseteq Nat
    /\ None \notin Nat \X Nat \X Nat

VARIABLES
    spec,           \* the steps
    config,         \* [podIP known, protocol] of the pod, limiter # nil
    pc,             \* where ExecuteScenario is
    stepIdx, reqIdx, i,             \* the three loops
    scenarioDone, stepDone,         \* the two contexts are done
    completed, failed,              \* of the step
    totalCompleted, totalFailed,
    grpcSender,     \* the step's sender; NewGRPCSender also stands for nil
    lastBody,       \* the shot of the last non-empty response, or None
    session,        \* values by variable
    result,
    begun,          \* history: <<step, request>> begun
    expired,        \* history: steps that timed out
    answered,       \* history: shots that got a response
    openConns,      \* history: gRPC connections open
    lookups,        \* history: shots that looked their method up
    skipped,        \* history: shots skipped after a failed lookup
    lastCall        \* history: [asked, invoked] of the last gRPC send

loopVars == <<stepIdx, reqIdx, i>>
ctxVars == <<scenarioDone, stepDone>>
countVars == <<completed, failed, totalCompleted, totalFailed>>
dataVars == <<grpcSender, lastBody, session>>
grpcHist == <<openConns, lookups, skipped, lastCall>>
histVars == <<begun, expired, answered, grpcHist>>
vars == <<spec, config, pc, loopVars, ctxVars, countVars, dataVars, result,
          histVars>>

-----------------------------------------------------------------------------
step == spec[stepIdx]
req == step[reqIdx]
Shot == <<stepIdx, reqIdx, i>>

(* The defaults of a request's fields. *)
Count(r) == IF r.count < 1 THEN 1 ELSE r.count

Protocol(r) == IF r.protocol = "" THEN config.protocol ELSE r.protocol

isSuccess(status, expected, protocol) ==
    CASE protocol = "grpc"                    -> status = 200
      [] protocol # "grpc" /\ expected # 0    -> status = expected
      [] protocol # "grpc" /\ expected = 0    -> status \in 200 .. 399

-----------------------------------------------------------------------------
Init ==
    /\ spec \in Scenarios
    /\ config \in [podIP : BOOLEAN, protocol : {"http", "grpc"},
                  limited : BOOLEAN]
    /\ pc = "start"
    /\ stepIdx = 1 /\ reqIdx = 1 /\ i = 0
    /\ scenarioDone = FALSE /\ stepDone = FALSE
    /\ completed = 0 /\ failed = 0 /\ totalCompleted = 0 /\ totalFailed = 0
    /\ grpcSender = NewGRPCSender
    /\ lastBody = None
    /\ session = [v \in Variables |-> None]
    /\ result = NoResult
    /\ begun = {} /\ expired = {} /\ answered = {}
    /\ openConns = 0 /\ lookups = {} /\ skipped = {}
    /\ lastCall = [asked |-> NoMethod, invoked |-> NoMethod]

(* Returns before the first step: no pod IP, or no steps. *)
NoScenario ==
    /\ pc = "start"
    /\ ~config.podIP \/ spec = <<>>
    /\ result' = IF ~config.podIP
                 THEN [NoResult EXCEPT !.error = TRUE, !.message = "refused"]
                 ELSE [NoResult EXCEPT !.success = TRUE, !.message = "no steps"]
    /\ pc' = "returned"
    /\ UNCHANGED <<spec, config, loopVars, ctxVars, countVars, dataVars, histVars>>

Begin ==
    /\ pc = "start"
    /\ config.podIP
    /\ spec # <<>>
    /\ pc' = "steps"
    /\ UNCHANGED <<spec, config, loopVars, ctxVars, countVars, dataVars, result,
                   histVars>>

(* The head of the loop over the steps: a new step with a fresh context    *)
(* and no sender yet.                                                      *)
StepBegin ==
    /\ pc = "steps"
    /\ stepIdx <= Len(spec)
    /\ ~scenarioDone
    /\ pc' = "requests"
    /\ reqIdx' = 1
    /\ stepDone' = FALSE
    /\ completed' = 0
    /\ failed' = 0
    /\ grpcSender' = NewGRPCSender
    /\ UNCHANGED <<spec, config, stepIdx, i, scenarioDone, totalCompleted,
                   totalFailed, lastBody, session, result, histVars>>

ScenarioEnd ==
    /\ pc = "steps"
    /\ stepIdx > Len(spec) \/ scenarioDone
    /\ result' = Summary(totalCompleted, totalFailed, scenarioDone)
    /\ pc' = "returned"
    /\ UNCHANGED <<spec, config, loopVars, ctxVars, countVars, dataVars, histVars>>

(* Mutation: the body of an earlier request is kept. *)
KeptBody == lastBody

(* var lastBody []byte *)
FreshBody == None

(* The head of the loop over the requests of a step. *)
RequestBegin ==
    /\ pc = "requests"
    /\ reqIdx <= Len(step)
    /\ ~stepDone
    /\ pc' = "repeat"
    /\ i' = 0
    /\ lastBody' = FreshBody
    /\ begun' = begun \cup {<<stepIdx, reqIdx>>}
    /\ UNCHANGED <<spec, config, stepIdx, reqIdx, ctxVars, countVars, grpcSender,
                   session, result, expired, answered, grpcHist>>

(* Mutation: a step that timed out ends the scenario. *)
NextUnlessExpired == IF stepDone THEN Len(spec) + 1 ELSE stepIdx + 1

NextStep == stepIdx + 1

(* executeStep returns, its deferred Close runs, its counts are added. *)
StepEnd ==
    /\ pc = "requests"
    /\ reqIdx > Len(step) \/ stepDone
    /\ pc' = "steps"
    /\ stepIdx' = NextStep
    /\ totalCompleted' = totalCompleted + completed
    /\ totalFailed' = totalFailed + failed
    /\ openConns' = Close(grpcSender, openConns)
    /\ grpcSender' = NewGRPCSender
    /\ UNCHANGED <<spec, config, reqIdx, i, ctxVars, completed, failed, lastBody,
                   session, result, begun, expired, answered, lookups,
                   skipped, lastCall>>

(* The head of the loop over the repetitions of a request. *)
RepeatHead ==
    /\ pc = "repeat"
    /\ pc' = IF i < Count(req) /\ ~stepDone THEN "wait" ELSE "extract"
    /\ UNCHANGED <<spec, config, loopVars, ctxVars, countVars, dataVars, result,
                   histVars>>

WaitGranted ==
    /\ pc = "wait"
    /\ pc' = "send"
    /\ UNCHANGED <<spec, config, loopVars, ctxVars, countVars, dataVars, result,
                   histVars>>

(* Mutation: all repetitions count as failed. *)
UnsentAll == Count(req)

Unsent == Count(req) - i

(* The limiter refuses: the rest of this request fails, the next request   *)
(* of the step is tried all the same.                                      *)
WaitRefused ==
    /\ pc = "wait"
    /\ config.limited
    /\ failed' = failed + Unsent
    /\ pc' = "extract"
    /\ UNCHANGED <<spec, config, loopVars, ctxVars, completed, totalCompleted,
                   totalFailed, dataVars, result, histVars>>

(* What executeStep does with a response. *)
HandleResponse(resp) ==
    /\ i' = i + 1
    /\ pc' = "repeat"
    /\ IF ~resp.error /\ isSuccess(resp.status, req.expected, Protocol(req))
       THEN completed' = completed + 1 /\ UNCHANGED failed
       ELSE failed' = failed + 1 /\ UNCHANGED completed
    /\ lastBody' = IF resp.error THEN lastBody
                   ELSE IF resp.body THEN Shot ELSE None
    /\ answered' = IF resp.error THEN answered ELSE answered \cup {Shot}
    /\ UNCHANGED <<spec, config, stepIdx, reqIdx, ctxVars, totalCompleted,
                   totalFailed, session, result, begun, expired>>

(* Mutation: the request does not carry the context. *)
SendHTTPFailedNoContext ==
    /\ pc = "send"
    /\ Protocol(req) # "grpc"
    /\ ~stepDone
    /\ HandleResponse(ErrorResponse)
    /\ UNCHANGED <<grpcSender, grpcHist>>

(* HTTPSender.Send: an error, or a status and perhaps a body. *)
SendHTTPFailed ==
    /\ pc = "send"
    /\ Protocol(req) # "grpc"
    /\ HandleResponse(ErrorResponse)
    /\ UNCHANGED <<grpcSender, grpcHist>>

SendHTTPAnswered ==
    /\ pc = "send"
    /\ Protocol(req) # "grpc"
    /\ \E status \in Statuses, body \in BOOLEAN :
          HandleResponse([error |-> FALSE, status |-> status, body |-> body])
    /\ UNCHANGED <<grpcSender, grpcHist>>

(* GRPCSender.Send with outcome o. *)
SendGRPC(o) ==
    /\ HandleResponse(o.resp)
    /\ grpcSender' = o.sender
    /\ openConns' = IF o.sender.conn /\ ~grpcSender.conn THEN openConns + 1
                    ELSE openConns
    /\ lookups' = IF o.how = "looked up" THEN lookups \cup {Shot} ELSE lookups
    /\ skipped' = IF o.how = "skipped" THEN skipped \cup {Shot} ELSE skipped
    /\ lastCall' = [asked |-> req.method, invoked |-> o.invoked]

SendGRPCFailed ==
    /\ pc = "send"
    /\ Protocol(req) = "grpc"
    /\ \E o \in Send(grpcSender, req.method) : o.resp.error /\ SendGRPC(o)

SendGRPCAnswered ==
    /\ pc = "send"
    /\ Protocol(req) = "grpc"
    /\ \E o \in Send(grpcSender, req.method) : ~o.resp.error /\ SendGRPC(o)

(* extractVariables on the last body: not JSON, or some of the paths are   *)
(* not in it, leaves the variables as they are.                            *)
ExtractVariables ==
    /\ pc = "extract"
    /\ \E found \in SUBSET req.extract :
          /\ lastBody = None => found = {}
          /\ session' = [v \in Variables |-> IF v \in found THEN lastBody
                                             ELSE session[v]]
    /\ reqIdx' = reqIdx + 1
    /\ pc' = "requests"
    /\ UNCHANGED <<spec, config, stepIdx, i, ctxVars, countVars, grpcSender,
                   lastBody, result, histVars>>

Running == pc \in {"steps", "requests", "repeat", "wait", "send", "extract"}

(* The scenario's deadline, or the caller's; the step's context is done    *)
(* with it.                                                                *)
ExpireScenario ==
    /\ Running
    /\ ~scenarioDone
    /\ scenarioDone' = TRUE
    /\ stepDone' = TRUE
    /\ UNCHANGED <<spec, config, pc, loopVars, countVars, dataVars, result,
                   histVars>>

ExpireStep ==
    /\ Running
    /\ pc # "steps"
    /\ ~stepDone
    /\ stepDone' = TRUE
    /\ expired' = expired \cup {stepIdx}
    /\ UNCHANGED <<spec, config, pc, loopVars, scenarioDone, countVars, dataVars,
                   result, begun, answered, grpcHist>>

Advance ==
    \/ NoScenario \/ Begin \/ StepBegin \/ ScenarioEnd
    \/ RequestBegin \/ StepEnd \/ RepeatHead \/ ExtractVariables

Next ==
    \/ Advance
    \/ WaitGranted \/ WaitRefused
    \/ SendHTTPFailed \/ SendHTTPAnswered \/ SendGRPCFailed \/ SendGRPCAnswered
    \/ ExpireScenario \/ ExpireStep

(* The goroutine runs, the scenario's deadline comes, a done context ends  *)
(* a wait or a send.  Step deadlines, tokens and answers are not relied on.*)
Fairness ==
    /\ WF_vars(Advance)
    /\ WF_vars(ExpireScenario)
    /\ WF_vars(stepDone /\ WaitRefused)
    /\ WF_vars(stepDone /\ (SendHTTPFailed \/ SendGRPCFailed))
    /\ WF_vars(~config.limited /\ WaitGranted)

Spec == Init /\ [][Next]_vars

FairSpec == Spec /\ Fairness

-----------------------------------------------------------------------------
(* Properties *)

(* The shots a list of steps asks for. *)
Shots(sc) ==
    UNION {UNION {{<<s, r, n>> : n \in 0 .. Count(sc[s][r]) - 1} :
                     r \in DOMAIN sc[s]} : s \in DOMAIN sc}

(* Every variable keeps to its type. *)
TypeOK ==
    /\ spec \in Scenarios
    /\ config \in [podIP : BOOLEAN, protocol : {"http", "grpc"},
                  limited : BOOLEAN]
    /\ pc \in {"start", "steps", "requests", "repeat", "wait", "send", "extract",
               "returned"}
    /\ stepIdx \in 1 .. Len(spec) + 1
    /\ reqIdx \in Nat \ {0}
    /\ i \in Nat
    /\ scenarioDone \in BOOLEAN
    /\ stepDone \in BOOLEAN
    /\ completed \in Nat /\ failed \in Nat
    /\ totalCompleted \in Nat /\ totalFailed \in Nat
    /\ grpcSender \in GRPCSenders
    /\ lastBody \in Shots(spec) \cup {None}
    /\ session \in [Variables -> Shots(spec) \cup {None}]
    /\ result \in Results
    /\ begun \subseteq {<<sh[1], sh[2]>> : sh \in Shots(spec)}
    /\ expired \subseteq DOMAIN spec
    /\ answered \subseteq Shots(spec)
    /\ openConns \in Nat
    /\ lookups \subseteq Shots(spec) /\ skipped \subseteq Shots(spec)
    /\ lastCall \in [asked : GRPCMethods \cup {NoMethod},
                     invoked : GRPCMethods \cup {NoMethod}]

Contract == INSTANCE Executor WITH asked <- Cardinality(Shots(spec)),
                                   returned <- (pc = "returned")

(* ExecuteScenario implements what Reconcile expects of an executor: one   *)
(* result, success only after a request that succeeded, and counts within  *)
(* the requests asked for: on no way out of the nested loops is one        *)
(* counted twice.                                                          *)
KeepsContract == Contract!Spec

(* Unless the scenario ran out of time, it tried every step, and every     *)
(* request of a step that did not time out; each repetition it has not     *)
(* counted belongs to a step that timed out.  A failed request or a step   *)
(* out of time does not end the scenario.                                  *)
ScenarioContinues ==
    pc = "returned" /\ config.podIP /\ ~scenarioDone =>
        /\ \A s \in DOMAIN spec \ expired :
              \A r \in DOMAIN spec[s] : <<s, r>> \in begun
        /\ Cardinality({sh \in Shots(spec) : sh[1] \notin expired})
              <= result.completed + result.failed

(* A session variable holds a value from a response to a request that      *)
(* extracts it, never one from the response to another request.            *)
ExtractedFromOwnResponse ==
    \A v \in Variables :
        session[v] # None =>
            /\ session[v] \in answered
            /\ v \in spec[session[v][1]][session[v][2]].extract

(* At most one gRPC connection is open, only inside a step, and none is    *)
(* left when ExecuteScenario returns.                                      *)
NoConnectionLeak ==
    /\ openConns <= 1
    /\ pc \in {"steps", "returned"} => openConns = 0

(* ExecuteScenario returns, even if no step times out, the pod never       *)
(* answers and the limiter never grants a token.                           *)
ScenarioReturns == Contract!Returns

(* The gRPC requests of a step make at most one reflection lookup between  *)
(* them, and a request is skipped unsent only for a lookup of its own      *)
(* step: what failed in one step is tried again in the next.               *)
OneLookupPerStep ==
    /\ \A a, b \in lookups : a[1] = b[1] => a = b
    /\ \A sh \in skipped : \E l \in lookups : l[1] = sh[1]

-----------------------------------------------------------------------------
(* grpc_sender.go says of Send that it "invokes the gRPC method described  *)
(* by target.Method"; the sender of a step invokes the method of its first *)
(* gRPC request.                                                           *)
GRPCMethodHonoured == lastCall.invoked \in {NoMethod, lastCall.asked}
=============================================================================
