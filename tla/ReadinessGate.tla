--------------------------- MODULE ReadinessGate ----------------------------
(***************************************************************************)
(* What kube-booster promises about a pod's readiness gate, with no        *)
(* controller in sight: a gate is shut from the pod's creation until a     *)
(* warmup attempt made for the pod's current version is recorded, it is    *)
(* recorded with the outcome of one such attempt, an attempt interrupted   *)
(* by a shutdown is never recorded, and a recorded outcome stays until the *)
(* pod is removed.                                                         *)
(***************************************************************************)
CONSTANT Pods

VARIABLES
    state,      \* state[k] \in States
    pending     \* pending[k]: outcomes of attempts not recorded or void yet

Outcomes == {"succeeded", "failed", "interrupted"}
Recorded == [r \in Outcomes \ {"interrupted"} |->
                IF r = "succeeded" THEN "WarmupComplete" ELSE "WarmupFailedOpen"]
States == {"absent", "ungated", "shut", "WarmupComplete", "WarmupFailedOpen"}

TypeOK == /\ state \in [Pods -> States]
          /\ pending \in [Pods -> SUBSET Outcomes]

Init == /\ state = [k \in Pods |-> "absent"]
        /\ pending = [k \in Pods |-> {}]

Create(k) ==
    /\ state[k] = "absent"
    /\ \E s \in {"ungated", "shut"} : state' = [state EXCEPT ![k] = s]
    /\ UNCHANGED pending

Attempt(k, r) ==
    /\ state[k] = "shut"
    /\ pending' = [pending EXCEPT ![k] = @ \cup {r}]
    /\ UNCHANGED state

(* The pod changed or an attempter gave up: attempts become void, those of *)
(* several pods at once when a controller process ends.                    *)
Lapse ==
    /\ pending' \in [Pods -> SUBSET Outcomes]
    /\ \A k \in Pods : pending'[k] \subseteq pending[k]
    /\ UNCHANGED state

Record(k, r) ==
    /\ state[k] = "shut"
    /\ r \in pending[k] \ {"interrupted"}
    /\ state' = [state EXCEPT ![k] = Recorded[r]]
    /\ pending' = [pending EXCEPT ![k] = {}]

Remove(k) ==
    /\ state' = [state EXCEPT ![k] = "absent"]
    /\ pending' = [pending EXCEPT ![k] = {}]

Next == \/ \E k \in Pods : Create(k) \/ Remove(k)
        \/ \E k \in Pods, r \in Outcomes : Attempt(k, r) \/ Record(k, r)
        \/ Lapse

Spec == Init /\ [][Next]_<<state, pending>>
=============================================================================
