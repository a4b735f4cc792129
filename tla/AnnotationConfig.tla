-------------------------- MODULE AnnotationConfig --------------------------
(***************************************************************************)
(* ParseConfig (pkg/warmup/config.go): from the annotations and ports of a *)
(* pod to the configuration of its warmup, or the first thing wrong.       *)
(*                                                                         *)
(* An annotation is [given, parses, value]: whether it is there and not    *)
(* empty, whether it can be parsed, and what it says if so.  Timeouts are  *)
(* in milliseconds.  A pod is [exists, requests, timeout, protocol,        *)
(* method, payload, warmupConfig, port, containers (the ports of each)].   *)
(***************************************************************************)
EXTENDS Integers, Sequences

DefaultRequestCount == 3
MaxRequestCount == 12000
DefaultTimeout == 30000
MaxTimeout == 300000
MaxPort == 65535
ProtocolHTTP == "http"
ProtocolGRPC == "grpc"

Annotations == [given : BOOLEAN, parses : BOOLEAN, value : Int]

(* The API server admits no other container ports. *)
ContainerPorts == 1 .. MaxPort

PodObjects == [exists : BOOLEAN, requests : Annotations, timeout : Annotations,
               protocol : STRING, method : Annotations, payload : Annotations,
               warmupConfig : BOOLEAN, port : Annotations,
               containers : Seq(Seq(ContainerPorts))]

-----------------------------------------------------------------------------
ValueOr(a, default) == IF a.given THEN a.value ELSE default

(* Given, and not a number within lo .. hi. *)
OutOfRange(a, lo, hi) ==
    a.given /\ (~a.parses \/ a.value < lo \/ a.value > hi)

Unparsable(a) == a.given /\ ~a.parses

ProtocolOf(pod) == IF pod.protocol = "" THEN ProtocolHTTP ELSE pod.protocol

(* Mutation: the first port of the first container. *)
DetectablePortFirst(pod) ==
    Len(pod.containers) >= 1 /\ Len(pod.containers[1]) >= 1

(* Auto-detection: exactly one container with exactly one port. *)
DetectablePort(pod) == Len(pod.containers) = 1 /\ Len(pod.containers[1]) = 1

PortOf(pod) ==
    IF pod.port.given THEN pod.port.value
    ELSE IF DetectablePort(pod) THEN pod.containers[1][1] ELSE 0

(* Mutation: the method is taken to be there. *)
MethodAssumed(pod) == FALSE

MethodMissing(pod) == ProtocolOf(pod) = ProtocolGRPC /\ ~pod.method.given

(* The first check that fails, in the order of the code. *)
ErrorOf(pod) ==
    IF ~pod.exists THEN "pod"
    ELSE IF OutOfRange(pod.requests, 1, MaxRequestCount) THEN "requests"
    ELSE IF OutOfRange(pod.timeout, 1000, MaxTimeout) THEN "timeout"
    ELSE IF ProtocolOf(pod) \notin {ProtocolHTTP, ProtocolGRPC} THEN "protocol"
    ELSE IF Unparsable(pod.method) THEN "method"
    ELSE IF Unparsable(pod.payload) THEN "payload"
    ELSE IF MethodMissing(pod) THEN "no method"
    ELSE IF OutOfRange(pod.port, 1, MaxPort) THEN "port"
    ELSE IF ~pod.port.given /\ ~DetectablePort(pod) THEN "no port"
    ELSE "none"

(* With an error, Reconcile uses nothing else of the configuration. *)
ParseConfig(pod) ==
    [error |-> ErrorOf(pod),
     count |-> ValueOr(pod.requests, DefaultRequestCount),
     timeout |-> ValueOr(pod.timeout, DefaultTimeout),
     protocol |-> ProtocolOf(pod),
     method |-> pod.method.given /\ pod.method.parses,
     warmupConfig |-> pod.warmupConfig,
     port |-> PortOf(pod)]

-----------------------------------------------------------------------------
(* What the executors and the contexts of Reconcile assume. *)
Runnable(c) ==
    /\ c.count \in 1 .. MaxRequestCount
    /\ c.timeout \in 1000 .. MaxTimeout
    /\ c.protocol \in {ProtocolHTTP, ProtocolGRPC}
    /\ c.protocol = ProtocolGRPC => c.method
    /\ c.port \in 1 .. MaxPort

(* The port is the annotation's, or the only one the pod has. *)
PortCertain(pod, c) ==
    \/ pod.port.given /\ c.port = pod.port.value
    \/ /\ ~pod.port.given
       /\ Len(pod.containers) = 1
       /\ pod.containers[1] = <<c.port>>
=============================================================================
