------------------------ MODULE WarmupExecutorProofs ------------------------
(***************************************************************************)
(* Theorems about WarmupExecutor, for every number of requests.            *)
(***************************************************************************)
EXTENDS WarmupExecutor, TLAPS

(* Where the loop is, in terms of its counters.  Up to a refusal of the    *)
(* limiter the counts add up to the index; afterwards to RequestCount.     *)
LoopInv ==
    /\ i <= config.count
    /\ sent <= config.count
    /\ successCount <= answered
    /\ pc \in {"start", "loop"} => sent = i
    /\ pc \in {"start", "loop", "wait", "send"} => successCount + failCount = i
    /\ pc \in {"wait", "send"} => i < config.count
    /\ pc = "wait" => sent = i
    /\ pc = "send" => sent = i + 1 /\ answered <= i
    /\ pc \in {"start", "loop", "wait"} => answered <= i
    /\ answered <= sent
    /\ pc \in {"end", "returned"} => successCount + failCount <= config.count
    /\ pc = "end" => successCount + failCount = config.count \/ ctxDone

ResultInv ==
    pc = "returned" =>
        /\ result.completed + result.failed < config.count => result.error
        /\ result.message # "skipped"
        /\ result.message = "completed" =>
              /\ result.success
              /\ result.completed + result.failed = config.count

ExecInv == TypeOK /\ LoopInv /\ ResultInv

LEMMA ConfigType ==
    ASSUME TypeOK
    PROVE  config.count \in Nat /\ config.count > 0
<1>1. config.count \in RequestCounts BY DEF TypeOK, Configs
<1>2. config.count \in Nat /\ config.count # 0
    BY <1>1, RequestCountAssumption
<1> QED BY <1>2

LEMMA ExecInit == Init => ExecInv
<1> SUFFICES ASSUME Init PROVE ExecInv OBVIOUS
<1>1. TypeOK BY DEF Init, TypeOK, NoResult, Results, Messages
<1>2. LoopInv BY <1>1, ConfigType DEF Init, LoopInv
<1>3. ResultInv BY DEF Init, ResultInv
<1> QED BY <1>1, <1>2, <1>3 DEF ExecInv

LEMMA ExecStep == ExecInv /\ [Next]_vars => ExecInv'
<1> SUFFICES ASSUME ExecInv, [Next]_vars PROVE ExecInv' OBVIOUS
<1> USE DEF ExecInv
<1>0. config.count \in Nat /\ config.count > 0 BY ConfigType
<1>1. CASE Refuse
    <2>1. TypeOK' BY <1>1 DEF Refuse, TypeOK, NoResult, Results, Messages
    <2>2. LoopInv' BY <1>0, <1>1 DEF Refuse, LoopInv, TypeOK
    <2>3. ResultInv' BY <1>0, <1>1 DEF Refuse, ResultInv, NoResult
    <2> QED BY <2>1, <2>2, <2>3
<1>2. CASE Begin
    BY <1>0, <1>2 DEF Begin, TypeOK, LoopInv, ResultInv
<1>3. CASE Expire
    BY <1>0, <1>3 DEF Expire, TypeOK, LoopInv, ResultInv
<1>4. CASE LoopHead
    <2>1. TypeOK' BY <1>4 DEF LoopHead, TypeOK
    <2>2. LoopInv' BY <1>0, <1>4 DEF LoopHead, LoopInv, TypeOK
    <2>3. ResultInv' BY <1>4 DEF LoopHead, ResultInv
    <2> QED BY <2>1, <2>2, <2>3
<1>5. CASE WaitGranted
    <2>1. TypeOK' BY <1>5 DEF WaitGranted, TypeOK
    <2>2. LoopInv' BY <1>0, <1>5 DEF WaitGranted, LoopInv, TypeOK
    <2>3. ResultInv' BY <1>5 DEF WaitGranted, ResultInv
    <2> QED BY <2>1, <2>2, <2>3
<1>6. CASE WaitRefused
    <2>1. failCount' = config.count - successCount /\ failCount' \in Nat
        BY <1>0, <1>6 DEF WaitRefused, Remaining, LoopInv, TypeOK
    <2>2. TypeOK' BY <1>6, <2>1 DEF WaitRefused, TypeOK
    <2>3. LoopInv' BY <1>0, <1>6, <2>1 DEF WaitRefused, LoopInv, TypeOK
    <2>4. ResultInv' BY <1>6 DEF WaitRefused, ResultInv
    <2> QED BY <2>2, <2>3, <2>4
<1>7. CASE SendFailed
    <2>1. TypeOK' BY <1>7 DEF SendFailed, TypeOK
    <2>2. LoopInv' BY <1>0, <1>7 DEF SendFailed, LoopInv, TypeOK
    <2>3. ResultInv' BY <1>7 DEF SendFailed, ResultInv
    <2> QED BY <2>1, <2>2, <2>3
<1>8. CASE SendAnswered
    <2>1. TypeOK' BY <1>8 DEF SendAnswered, TypeOK
    <2>2. LoopInv' BY <1>0, <1>8 DEF SendAnswered, LoopInv, TypeOK
    <2>3. ResultInv' BY <1>8 DEF SendAnswered, ResultInv
    <2> QED BY <2>1, <2>2, <2>3
<1>9. CASE Finish
    <2> DEFINE m == BuildMessage(successCount, failCount, successCount > 0, ctxDone)
    <2>1. /\ m \in Messages
          /\ m = "skipped" => ~ctxDone /\ successCount + failCount = 0
          /\ m = "completed" => ~ctxDone /\ successCount > 0
        <3>1. ctxDone \in BOOLEAN /\ successCount \in Nat /\ failCount \in Nat
            BY DEF TypeOK
        <3>2. CASE ctxDone BY <3>2 DEF BuildMessage, Messages
        <3>3. CASE ~ctxDone /\ successCount + failCount = 0
            <4>1. successCount = 0 /\ failCount = 0 BY <3>1, <3>3
            <4> QED BY <3>3, <4>1 DEF BuildMessage, Messages
        <3>4. CASE ~ctxDone /\ successCount + failCount > 0 /\ successCount > 0
            <4>1. ~(successCount = 0 /\ failCount = 0) BY <3>1, <3>4
            <4>2. m = "completed" BY <3>4, <4>1 DEF BuildMessage
            <4> QED BY <3>4, <4>2 DEF Messages
        <3>5. CASE ~ctxDone /\ successCount + failCount > 0 /\ ~(successCount > 0)
            <4>1. ~(successCount = 0 /\ failCount = 0) BY <3>1, <3>5
            <4>2. m = "completed with failures" BY <3>5, <4>1 DEF BuildMessage
            <4> QED BY <4>2 DEF Messages
        <3> QED BY <3>1, <3>2, <3>3, <3>4, <3>5
    <2>2. /\ result' = [completed |-> successCount, failed |-> failCount,
                        success |-> successCount > 0, error |-> ctxDone,
                        message |-> m]
          /\ UNCHANGED <<config, i, successCount, failCount, ctxDone, sent, answered>>
          /\ pc = "end" /\ pc' = "returned"
        BY <1>9 DEF Finish, Summary
    <2> HIDE DEF m
    <2>3. TypeOK' BY <2>1, <2>2 DEF TypeOK, Results
    <2>4. LoopInv' BY <1>0, <2>2 DEF LoopInv, TypeOK
    <2>5. successCount + failCount = config.count \/ ctxDone
        BY <2>2 DEF LoopInv
    <2>6. /\ result'.completed = successCount
          /\ result'.failed = failCount
          /\ result'.success = (successCount > 0)
          /\ result'.error = ctxDone
          /\ result'.message = m
          /\ config'.count = config.count
        BY <2>2
    <2>7. ~(successCount + failCount < config.count) \/ ctxDone
        BY <1>0, <2>5 DEF TypeOK
    <2>8. m # "skipped" BY <1>0, <2>1, <2>5 DEF TypeOK
    <2>9. ResultInv' BY <2>1, <2>5, <2>6, <2>7, <2>8 DEF ResultInv
    <2> QED BY <2>3, <2>4, <2>9
<1>10. CASE UNCHANGED vars
    BY <1>10 DEF vars, TypeOK, LoopInv, ResultInv
<1> QED BY <1>1, <1>2, <1>3, <1>4, <1>5, <1>6, <1>7, <1>8, <1>9, <1>10 DEF Next

(* Execute never counts or sends more requests than RequestCount.          *)
THEOREM CountsStayBounded == Spec => []CountsBounded
<1>1. ExecInv => CountsBounded
    BY ConfigType DEF ExecInv, LoopInv, CountsBounded, TypeOK
<1> QED BY <1>1, ExecInit, ExecStep, PTL DEF Spec

(* An incomplete warmup is always returned with an error.                  *)
THEOREM ShortfallAlwaysHasError == Spec => []ShortfallHasError
<1>1. ExecInv => ShortfallHasError
    BY DEF ExecInv, ResultInv, ShortfallHasError
<1> QED BY <1>1, ExecInit, ExecStep, PTL DEF Spec

(* The message never claims more, or less, than the run accounted for.     *)
THEOREM MessageAlwaysTruthful == Spec => []MessageTruthful
<1>1. ExecInv => MessageTruthful
    BY DEF ExecInv, ResultInv, MessageTruthful
<1> QED BY <1>1, ExecInit, ExecStep, PTL DEF Spec

(* calculatePercentiles picks the nearest-rank entries, in range, for any  *)
(* number of latencies.                                                    *)
LEMMA PercentileIndices ==
    ASSUME NEW n \in Nat, n > 0
    PROVE  /\ NearestRank(p50idx(n), 50, n)
           /\ NearestRank(p99idx(n), 99, n)
<1>1. NearestRank(p50idx(n), 50, n)
    BY DEF NearestRank, p50idx
<1>2. NearestRank(p99idx(n), 99, n)
    BY DEF NearestRank, p99idx
<1> QED BY <1>1, <1>2

THEOREM PercentilesAlwaysNearestRank == Spec => []PercentilesNearestRank
<1>1. ExecInv => PercentilesNearestRank
    BY PercentileIndices DEF ExecInv, TypeOK, PercentilesNearestRank
<1> QED BY <1>1, ExecInit, ExecStep, PTL DEF Spec

(* Every variable of Execute keeps to its type.                            *)
THEOREM TypesKept == Spec => []TypeOK
<1>1. ExecInv => TypeOK BY DEF ExecInv
<1> QED BY <1>1, ExecInit, ExecStep, PTL DEF Spec

(* Reading the contract's formulas in the state of Execute. *)
LEMMA ContractStep == ExecInv /\ [Next]_vars => [Contract!Return]_Contract!vars
<1> SUFFICES ASSUME ExecInv, [Next]_vars
             PROVE  [Contract!Return]_Contract!vars
    OBVIOUS
<1>0. ExecInv' BY ExecStep
<1>t. TypeOK /\ TypeOK' BY <1>0 DEF ExecInv
<1>1. CASE Refuse
    <2>1. /\ pc = "start" /\ pc' = "returned" /\ config' = config
          /\ result' = [completed |-> 0, failed |-> 0, success |-> FALSE,
                        error |-> TRUE, message |-> "refused"]
        BY <1>1 DEF Refuse, NoResult
    <2>2. config.count \in Nat BY <1>t, ConfigType
    <2>3. result' \in Contract!Results BY <1>t DEF TypeOK, Results, Contract!Results, Messages, Contract!Messages
    <2>4. Contract!Acceptable(result') BY <2>1, <2>2 DEF Contract!Acceptable
    <2> QED BY <2>1, <2>3, <2>4 DEF Contract!Return
<1>2. CASE Finish
    <2>1. /\ pc = "end" /\ pc' = "returned" /\ config' = config
          /\ result'.completed = successCount
          /\ result'.failed = failCount
          /\ result'.success = (successCount > 0)
          /\ result'.message = BuildMessage(successCount, failCount,
                                            successCount > 0, ctxDone)
        BY <1>2 DEF Finish, Summary
    <2>2. /\ config.count \in Nat /\ config.count > 0
          /\ successCount \in Nat /\ failCount \in Nat /\ ctxDone \in BOOLEAN
          /\ successCount + failCount <= config.count
        BY <1>t, <2>1, ConfigType DEF ExecInv, LoopInv, TypeOK
    <2>3. result' \in Contract!Results BY <1>t DEF TypeOK, Results, Contract!Results, Messages, Contract!Messages
    <2>4. BuildMessage(successCount, failCount, successCount > 0, ctxDone) # "none"
        BY <2>2 DEF BuildMessage
    <2>5. Contract!Acceptable(result') BY <2>1, <2>2, <2>4 DEF Contract!Acceptable
    <2> QED BY <2>1, <2>3, <2>5 DEF Contract!Return
<1>3. CASE Begin \/ Expire \/ LoopHead \/ WaitGranted \/ WaitRefused
           \/ SendFailed \/ SendAnswered \/ UNCHANGED vars
    <2>1. config' = config /\ result' = result
        BY <1>3 DEF Begin, Expire, LoopHead, WaitGranted, WaitRefused, SendFailed,
                    SendAnswered, vars
    <2>2. (pc' = "returned") = (pc = "returned")
        BY <1>3 DEF Begin, Expire, LoopHead, WaitGranted, WaitRefused, SendFailed,
                    SendAnswered, vars
    <2> QED BY <2>1, <2>2 DEF Contract!vars
<1> QED BY <1>1, <1>2, <1>3 DEF Next

(* Execute implements the contract of an executor, for every number of     *)
(* requests.                                                               *)
THEOREM ExecuteKeepsContract == Spec => KeepsContract
<1>1. Init => Contract!Init
    <2> SUFFICES ASSUME Init PROVE Contract!Init OBVIOUS
    <2>1. TypeOK BY ExecInit DEF ExecInv
    <2>2. config.count \in Nat BY <2>1, ConfigType
    <2> QED BY <2>2 DEF Init, Contract!Init, NoResult, Contract!NoResult
<1> QED BY <1>1, ExecInit, ExecStep, ContractStep, PTL
        DEF Spec, KeepsContract, Contract!Spec
=============================================================================
