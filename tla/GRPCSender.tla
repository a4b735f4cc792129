----------------------------- MODULE GRPCSender -----------------------------
(***************************************************************************)
(* GRPCSender (pkg/warmup/grpc_sender.go): a lazily dialled connection     *)
(* with one cached method.  Send is given as the set of outcomes one call  *)
(* may have: the sender afterwards, the response, and the method invoked   *)
(* on the server.                                                          *)
(***************************************************************************)
EXTENDS Integers

CONSTANTS
    GRPCMethods,    \* values of a request's grpcMethod
    BadMethods,     \* those not of the form package.Service/Method
    NoMethod        \* no method cached, or none invoked

ASSUME GRPCMethodAssumption ==
    /\ BadMethods \subseteq GRPCMethods
    /\ NoMethod \notin GRPCMethods

(* conn # nil; methodDesc and methodPath; reflectionFailed. *)
GRPCSenders == [conn : BOOLEAN, method : GRPCMethods \cup {NoMethod},
                reflectionFailed : BOOLEAN]

NewGRPCSender == [conn |-> FALSE, method |-> NoMethod, reflectionFailed |-> FALSE]

-----------------------------------------------------------------------------
(* A response: error # nil, status, whether the body is non-empty. *)
ErrorResponse == [error |-> TRUE, status |-> 0, body |-> FALSE]

(* How a call went about its method: not at all without a connection, by   *)
(* reflection, with the cached one, or skipped after a failed lookup.      *)
Hows == {"no connection", "looked up", "cached", "skipped"}

Outcome(s, r, m, how) == [sender |-> s, resp |-> r, invoked |-> m, how |-> how]

parseGRPCMethod(m) == m \notin BadMethods

(* The connection cannot be set up. *)
DialFails(s) ==
    IF s.conn THEN {} ELSE {Outcome(s, ErrorResponse, NoMethod, "no connection")}

(* A payload that does not fit the message, a context that is done, an     *)
(* error of the application, or an answer, whose body may fail to marshal. *)
Invoke(s, how) ==
    {Outcome(s, ErrorResponse, NoMethod, how), Outcome(s, ErrorResponse, s.method, how),
     Outcome(s, [error |-> FALSE, status |-> 500, body |-> FALSE], s.method, how)}
    \cup {Outcome(s, [error |-> FALSE, status |-> 200, body |-> b], s.method, how) :
             b \in BOOLEAN}

(* resolveMethodDescriptor fails, because of the request for the files, of *)
(* what they hold or of the context: remembered.                           *)
LookupFailed(s) ==
    {Outcome([s EXCEPT !.reflectionFailed = TRUE], ErrorResponse, NoMethod,
             "looked up")}

(* resolveMethodDescriptor on a method that can be parsed, or its failure. *)
Lookup(s, m) ==
    LookupFailed(s) \cup
    (IF parseGRPCMethod(m) THEN Invoke([s EXCEPT !.method = m], "looked up") ELSE {})

(* Mutation: a failed lookup is tried again. *)
SendConnectedRetries(s, m) ==
    IF s.method # NoMethod THEN Invoke(s, "cached") ELSE Lookup(s, m)

(* With a connection: the method is looked up once; later calls use the    *)
(* cached one, and after a failure no lookup is tried again.               *)
SendConnected(s, m) ==
    IF s.method # NoMethod THEN Invoke(s, "cached")
    ELSE IF s.reflectionFailed
         THEN {Outcome(s, ErrorResponse, NoMethod, "skipped")}
    ELSE Lookup(s, m)

Send(s, m) == DialFails(s) \cup SendConnected([s EXCEPT !.conn = TRUE], m)

(* Mutations: the connection is not closed; no nil check. *)
CloseForgotten(s, conns) == conns
CloseUnchecked(s, conns) == conns - 1

(* The connections left open after Close. *)
Close(s, conns) == IF s.conn THEN conns - 1 ELSE conns
=============================================================================
