----------------------------- MODULE PodMutator -----------------------------
(***************************************************************************)
(* The mutating admission webhook (pkg/webhook/pod_mutator.go) and the     *)
(* readiness-gate test that the webhook, the event predicate               *)
(* (pkg/controller/predicates.go) and the reconciler share.                *)
(*                                                                         *)
(* A pod as the webhook sees it is a record with at least                  *)
(*   enabled - the annotation kube-booster.io/warmup equals "enabled"      *)
(*   gates   - spec.readinessGates, a sequence of condition types          *)
(***************************************************************************)
EXTENDS Naturals, Sequences

CONSTANT WarmupGate     \* ReadinessGateName, "kube-booster.io/warmup-ready"

(* The loop over spec.readinessGates. *)
hasReadinessGate(pod) == \E i \in DOMAIN pod.gates : pod.gates[i] = WarmupGate

InjectGate(pod) == [pod EXCEPT !.gates = Append(@, WarmupGate)]

(* What the API server stores for a pod that the webhook admitted.  The    *)
(* two early returns leave the pod as it is.                               *)
Handle(pod) ==
    IF ~pod.enabled \/ hasReadinessGate(pod) THEN pod ELSE InjectGate(pod)
=============================================================================
