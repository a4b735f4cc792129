-------------------------- MODULE MCPodReconciler ---------------------------
(***************************************************************************)
(* Instances of PodReconciler for TLC.                                     *)
(***************************************************************************)
EXTENDS PodReconciler, TLC

CONSTANTS k1, k2, c1, c2, w1, w2, n1, n2

GateName == "kube-booster.io/warmup-ready"

(* Worker goroutines: controller-runtime's default is one per process. *)
OneWorker == (w1 :> c1)
OneWorkerEach == (w1 :> c1) @@ (w2 :> c2)
TwoWorkers == (w1 :> c1) @@ (w2 :> c1)

(* --node-name of each process. *)
WatchAll == [c \in Controllers |-> AnyNode]
WatchOwn == (c1 :> n1) @@ (c2 :> n2)

Submit(enabled, gates, cfg) == [enabled |-> enabled, gates |-> gates, cfg |-> cfg]

(* What users submit: a pod that opted in, one that did not, one that      *)
(* lists the gate itself and has another one.                              *)
Annotated == {Submit(TRUE, <<>>, "annotation")}
Looked == {Submit(TRUE, <<>>, "warmupconfig")}
AnyConfig == {Submit(TRUE, <<>>, cfg) : cfg \in {"invalid", "annotation", "warmupconfig"}}
AnySpec == AnyConfig \cup {Submit(FALSE, <<>>, "annotation"),
                           Submit(TRUE, <<"example.com/other", GateName>>, "annotation")}

Report(phase, statuses, ready) ==
    [phase |-> phase, statuses |-> statuses, containersReady |-> ready]

Ready == Report("Running", <<TRUE>>, TRUE)
NotReady == Report("Running", <<FALSE>>, FALSE)

(* Also: a second container that is not ready, a sidecar (an init          *)
(* container, not among the statuses) that is not ready, no status yet,    *)
(* and the end of the pod.                                                 *)
OnlyReady == {Ready}
FewReports == {NotReady, Ready}
AllReports == {NotReady, Ready, Report("Running", <<TRUE, FALSE>>, FALSE),
               Report("Running", <<TRUE>>, FALSE), Report("Pending", <<FALSE>>, FALSE),
               Report("Running", <<>>, FALSE), Report("Failed", <<FALSE>>, FALSE)}
=============================================================================
