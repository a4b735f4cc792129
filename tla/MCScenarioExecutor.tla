------------------------- MODULE MCScenarioExecutor -------------------------
(***************************************************************************)
(* Instances of ScenarioExecutor for TLC.                                  *)
(***************************************************************************)
EXTENDS ScenarioExecutor

Http(n, expected, extract) ==
    [protocol |-> "http", method |-> "", count |-> n, expected |-> expected,
     extract |-> extract]

Grpc(m, n, extract) ==
    [protocol |-> "grpc", method |-> m, count |-> n, expected |-> 0,
     extract |-> extract]

(* The protocol is the pod's; the default count. *)
Inherits(m) ==
    [protocol |-> "", method |-> m, count |-> 0, expected |-> 404,
     extract |-> {"token"}]

(* As in docs/USAGE.md: log in, use the token, check the health; with gRPC *)
(* steps mixed in.                                                         *)
Mixed ==
    {<<>>,
     << <<Http(1, 0, {"token"}), Http(2, 200, {})>>, <<Inherits("svc/A")>> >>,
     << <<Grpc("svc/A", 2, {"token"}), Http(1, 0, {"id"})>>,
        <<Grpc("svc/B", 1, {}), Grpc("svc/B", 1, {"id"})>> >>,
     << <<Grpc("bad", 1, {})>>, <<Grpc("svc/A", 1, {"token"})>>,
        <<Http(2, 404, {"token"})>> >>}

(* A step with one gRPC method, or with two. *)
TwoMethods == {<< <<Grpc("svc/A", 1, {}), Grpc("svc/B", 1, {})>> >>}

Methods == {"", "bad", "svc/A", "svc/B"}
Malformed == {"", "bad"}
TokenAndId == {"token", "id"}
FewStatuses == {200, 404}
=============================================================================
