------------------------------ MODULE Executor ------------------------------
(***************************************************************************)
(* What Reconcile relies on when it calls an executor, be it Execute or    *)
(* ExecuteScenario: one result, in finite time, that counts no more than   *)
(* the requests asked for and claims success for requests that succeeded.  *)
(***************************************************************************)
EXTENDS WarmupResult

VARIABLES
    asked,          \* requests the configuration asks for
    returned,       \* the call has returned
    result          \* what it returned

vars == <<asked, returned, result>>

Init == asked \in Nat /\ returned = FALSE /\ result = NoResult

(* A result that Reconcile may record for a pod. *)
Acceptable(r) ==
    /\ r.completed + r.failed <= asked
    /\ r.completed > 0 => r.success
    /\ r.success /\ asked > 0 => r.completed > 0
    /\ r.message # "none"

Return ==
    /\ ~returned
    /\ returned' = TRUE
    /\ result' \in Results
    /\ Acceptable(result')
    /\ UNCHANGED asked

Spec == Init /\ [][Return]_vars

Returns == <>returned
=============================================================================
