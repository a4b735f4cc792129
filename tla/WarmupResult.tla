---------------------------- MODULE WarmupResult ----------------------------
(***************************************************************************)
(* warmup.Result (pkg/warmup/result.go): what both executors return.  Of   *)
(* the message only which text it is matters; times are left out.          *)
(***************************************************************************)
EXTENDS Naturals

Messages == {"none", "refused", "no steps", "failed", "skipped", "completed",
             "completed with failures"}

Results == [completed : Nat, failed : Nat, success : BOOLEAN,
            error : BOOLEAN, message : Messages]

NoResult == [completed |-> 0, failed |-> 0, success |-> FALSE,
             error |-> FALSE, message |-> "none"]

(* Which of its texts BuildMessage returns. *)
BuildMessage(completed, failed, success, error) ==
    CASE error                                         -> "failed"
      [] ~error /\ completed = 0 /\ failed = 0         -> "skipped"
      [] ~error /\ completed + failed > 0 /\ success   -> "completed"
      [] ~error /\ completed + failed > 0 /\ ~success  -> "completed with failures"

(* Mutation: success means that no request failed. *)
SummaryStrict(completed, failed, ctxDone) ==
    [completed |-> completed, failed |-> failed, success |-> failed = 0,
     error |-> ctxDone,
     message |-> BuildMessage(completed, failed, failed = 0, ctxDone)]

(* What an executor returns after its loops: success as soon as one        *)
(* request succeeded, an error if its context is done.                     *)
Summary(completed, failed, ctxDone) ==
    [completed |-> completed, failed |-> failed, success |-> completed > 0,
     error |-> ctxDone,
     message |-> BuildMessage(completed, failed, completed > 0, ctxDone)]
=============================================================================
