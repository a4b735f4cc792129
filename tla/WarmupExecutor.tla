--------------------------- MODULE WarmupExecutor ---------------------------
(***************************************************************************)
(* One call of WarmupExecutor.Execute (pkg/warmup/warmup_executor.go): a   *)
(* loop of at most RequestCount requests against one pod, each after a     *)
(* token of the shared rate limiter, under a context with a deadline.      *)
(*                                                                         *)
(* The server may answer or not; the limiter may grant a token or not; it  *)
(* refuses as soon as the wait would outlast the deadline, before the      *)
(* context is done.  Only the deadline itself is certain to come.          *)
(***************************************************************************)
EXTENDS Integers, WarmupResult

CONSTANT RequestCounts      \* values of config.RequestCount to consider

ASSUME RequestCountAssumption ==
    RequestCounts \subseteq Nat \ {0}         \* ParseConfig refuses 0

VARIABLES
    config,         \* [count, podIP known, protocol, limiter # nil]
    pc,             \* where Execute is
    i,              \* the loop's index
    successCount,
    failCount,
    ctxDone,        \* warmupCtx.Err() # nil
    result,         \* what Execute returned
    sent,           \* history: requests handed to the sender
    answered        \* history: completed round trips, len(latencies)

vars == <<config, pc, i, successCount, failCount, ctxDone, result, sent, answered>>

Protocols == {"http", "grpc", "other"}

Configs == [count : RequestCounts, podIP : BOOLEAN, protocol : Protocols,
            limited : BOOLEAN]

-----------------------------------------------------------------------------
(* Mutation: rounds the rank down. *)
p50idxFloor(n) == LET r == (n * 50) \div 100 IN IF r > 0 THEN r - 1 ELSE r

(* Indices into the n sorted latencies that calculatePercentiles reads. *)
p50idx(n) == LET r == (n * 50 + 99) \div 100 IN IF r > 0 THEN r - 1 ELSE r

p99idx(n) ==
    LET r == (n * 99 + 99) \div 100
        j == IF r > 0 THEN r - 1 ELSE r
    IN  IF j >= n THEN n - 1 ELSE j

-----------------------------------------------------------------------------
Init ==
    /\ config \in Configs
    /\ pc = "start"
    /\ i = 0
    /\ successCount = 0
    /\ failCount = 0
    /\ ctxDone = FALSE
    /\ result = NoResult
    /\ sent = 0
    /\ answered = 0

(* No pod IP, or no sender for the protocol: an error and no request. *)
Refuse ==
    /\ pc = "start"
    /\ ~config.podIP \/ config.protocol = "other"
    /\ result' = [NoResult EXCEPT !.error = TRUE, !.message = "refused"]
    /\ pc' = "returned"
    /\ UNCHANGED <<config, i, successCount, failCount, ctxDone, sent, answered>>

Begin ==
    /\ pc = "start"
    /\ config.podIP
    /\ config.protocol # "other"
    /\ pc' = "loop"
    /\ UNCHANGED <<config, i, successCount, failCount, ctxDone, result, sent,
                   answered>>

(* The timeout fires, or the caller's context is done. *)
Expire ==
    /\ pc \in {"loop", "wait", "send", "end"}
    /\ ~ctxDone
    /\ ctxDone' = TRUE
    /\ UNCHANGED <<config, pc, i, successCount, failCount, result, sent, answered>>

(* The loop's condition and the check of the context. *)
LoopHead ==
    /\ pc = "loop"
    /\ pc' = IF i < config.count /\ ~ctxDone THEN "wait" ELSE "end"
    /\ UNCHANGED <<config, i, successCount, failCount, ctxDone, result, sent,
                   answered>>

(* A nil limiter always grants. *)
WaitGranted ==
    /\ pc = "wait"
    /\ pc' = "send"
    /\ sent' = sent + 1
    /\ UNCHANGED <<config, i, successCount, failCount, ctxDone, result, answered>>

(* Mutations: failed requests counted twice; not counted; wrong sign. *)
RemainingMiscounted == config.count - successCount
RemainingIgnored == 0
RemainingReversed == successCount + failCount - config.count

(* Requests neither answered nor failed so far. *)
Remaining == config.count - successCount - failCount

WaitRefused ==
    /\ pc = "wait"
    /\ config.limited
    /\ failCount' = failCount + Remaining
    /\ pc' = "end"
    /\ UNCHANGED <<config, i, successCount, ctxDone, result, sent, answered>>

(* Mutation: any failed request ends the loop. *)
SendFailedStops ==
    /\ pc = "send"
    /\ failCount' = failCount + 1
    /\ pc' = "end"
    /\ UNCHANGED <<config, i, successCount, ctxDone, result, sent, answered>>

(* Mutation: the request does not carry the context. *)
SendFailedNoContext ==
    /\ pc = "send"
    /\ ~ctxDone
    /\ failCount' = failCount + 1
    /\ pc' = "loop"
    /\ i' = i + 1
    /\ UNCHANGED <<config, successCount, ctxDone, result, sent, answered>>

(* Send returns an error: the server is unreachable, or the context done. *)
SendFailed ==
    /\ pc = "send"
    /\ failCount' = failCount + 1
    /\ IF ctxDone THEN pc' = "end" /\ UNCHANGED i
       ELSE pc' = "loop" /\ i' = i + 1
    /\ UNCHANGED <<config, successCount, ctxDone, result, sent, answered>>

(* Send returns a status, in 200..399 or not. *)
SendAnswered ==
    /\ pc = "send"
    /\ answered' = answered + 1
    /\ \/ successCount' = successCount + 1 /\ UNCHANGED failCount
       \/ failCount' = failCount + 1 /\ UNCHANGED successCount
    /\ i' = i + 1
    /\ pc' = "loop"
    /\ UNCHANGED <<config, ctxDone, result, sent>>

Finish ==
    /\ pc = "end"
    /\ result' = Summary(successCount, failCount, ctxDone)
    /\ pc' = "returned"
    /\ UNCHANGED <<config, i, successCount, failCount, ctxDone, sent, answered>>

Next ==
    \/ Refuse \/ Begin \/ Expire \/ LoopHead
    \/ WaitGranted \/ WaitRefused
    \/ SendFailed \/ SendAnswered
    \/ Finish

(* The goroutine runs, the deadline comes, and a done context ends a wait  *)
(* or a request; no answer and no token is taken for granted, except that  *)
(* a nil limiter does not block.                                           *)
Fairness ==
    /\ WF_vars(Refuse \/ Begin \/ LoopHead \/ Finish)
    /\ WF_vars(Expire)
    /\ WF_vars(ctxDone /\ WaitRefused)
    /\ WF_vars(ctxDone /\ SendFailed)
    /\ WF_vars(~config.limited /\ WaitGranted)

Spec == Init /\ [][Next]_vars

FairSpec == Spec /\ Fairness

-----------------------------------------------------------------------------
(* Properties *)

(* Every variable keeps to its type. *)
TypeOK ==
    /\ config \in Configs
    /\ pc \in {"start", "loop", "wait", "send", "end", "returned"}
    /\ i \in Nat
    /\ successCount \in Nat
    /\ failCount \in Nat
    /\ ctxDone \in BOOLEAN
    /\ result \in Results
    /\ sent \in Nat
    /\ answered \in Nat

(* The two counts stay within the requests asked for, on every way out of  *)
(* the loop, and no more requests than that are ever sent.                 *)
CountsBounded ==
    /\ successCount + failCount <= config.count
    /\ sent <= config.count
    /\ successCount <= answered
    /\ answered <= sent

(* Whenever Execute accounts for fewer requests than asked for, it reports *)
(* an error: nothing but the context ends the loop early without counting. *)
ShortfallHasError ==
    pc = "returned" /\ result.completed + result.failed < config.count =>
        result.error

(* A warmup is never reported as skipped, and one reported as completed    *)
(* accounts for every request it was asked for.                            *)
MessageTruthful ==
    pc = "returned" =>
        /\ result.message # "skipped"
        /\ result.message = "completed" =>
              /\ result.success
              /\ result.completed + result.failed = config.count

(* The latencies reported are the nearest-rank percentiles: the smallest   *)
(* index below which lie at least p percent of the n latencies.            *)
NearestRank(idx, p, n) ==
    /\ idx \in 0 .. n - 1
    /\ 100 * (idx + 1) >= p * n
    /\ 100 * idx < p * n

PercentilesNearestRank ==
    answered > 0 => /\ NearestRank(p50idx(answered), 50, answered)
                    /\ NearestRank(p99idx(answered), 99, answered)

Contract == INSTANCE Executor WITH asked <- config.count,
                                   returned <- (pc = "returned")

(* Execute implements what Reconcile expects of an executor: one result,   *)
(* with counts within RequestCount and success only after one.             *)
KeepsContract == Contract!Spec

(* Execute returns, even if the server never answers and the limiter never *)
(* grants a token.                                                         *)
ExecuteReturns == Contract!Returns
=============================================================================
