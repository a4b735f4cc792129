--------------------------- MODULE WarmupFunctions ---------------------------
(***************************************************************************)
(* The functions of the warmup package that share no state, each called    *)
(* once with any input of its kind, and what they return.                  *)
(***************************************************************************)
EXTENDS AnnotationConfig, FileSet, SessionContext

CONSTANTS
    PodInputs,                              \* the inputs of ParseConfig
    Responses, Services, Methods,           \* of resolveMethodDescriptor
    Sessions, Texts,                        \* of Interpolate
    SessionsBefore, Documents, Extracts     \* of extractVariables

ASSUME InputsAssumption ==
    /\ PodInputs \subseteq PodObjects
    /\ Responses \subseteq Seq(FileDescriptors)
    /\ \A data \in Sessions \cup SessionsBefore : IsSession(data)
    /\ Texts \subseteq Text
    /\ \A doc \in Documents : IsDocument(doc)
    /\ \A extract \in Extracts : \A v \in DOMAIN extract : extract[v] \in JSONPaths

VARIABLES
    call,       \* the function called and its arguments
    returned,
    ret         \* what it returned

vars == <<call, returned, ret, fileSetVars>>

-----------------------------------------------------------------------------
Calls ==
    [fn : {"ParseConfig"}, pod : PodInputs]
    \cup [fn : {"resolve"}, service : Services, method : Methods]
    \cup [fn : {"Interpolate"}, data : Sessions, s : Texts]
    \cup [fn : {"extract"}, data : SessionsBefore, doc : Documents,
          extract : Extracts]

Init ==
    /\ call \in Calls
    /\ returned = FALSE
    /\ ret = "nothing"
    /\ \E response \in (IF call.fn = "resolve" THEN Responses ELSE {<<>>}) :
          buildFileSet(response)

Build ==
    /\ call.fn = "resolve"
    /\ BuildNext
    /\ UNCHANGED <<call, returned, ret>>

Returns(fn, value) ==
    /\ call.fn = fn
    /\ ~returned
    /\ returned' = TRUE
    /\ ret' = value
    /\ UNCHANGED <<call, fileSetVars>>

Resolved ==
    /\ status \in {"built", "failed"}
    /\ Returns("resolve", resolveMethodDescriptor(call.service, call.method))

Stopped == returned /\ UNCHANGED vars

Next ==
    \/ Returns("ParseConfig", ParseConfig(call.pod))
    \/ Returns("Interpolate", Interpolate(call.data, call.s))
    \/ Returns("extract", extractVariables(call.data, call.doc, call.extract))
    \/ Build
    \/ Resolved
    \/ Stopped

Spec == Init /\ [][Next]_vars

Returned(fn) == returned /\ call.fn = fn

-----------------------------------------------------------------------------
(* Properties *)

(* A configuration ParseConfig accepts is one the executors can run: its   *)
(* numbers within their limits, a gRPC method where one is needed.         *)
AcceptedIsRunnable ==
    Returned("ParseConfig") /\ ret.error = "none" => Runnable(ret)

(* Without an annotation a port is used only if the pod has no other. *)
PortNeverGuessed ==
    Returned("ParseConfig") /\ ret.error = "none" => PortCertain(call.pod, ret)

(* buildFileSet fails only on a response that is too large, malformed or   *)
(* contradictory, lacks an import, mentions a type that is neither in it   *)
(* nor a global message, or redeclares one; otherwise every file is in the *)
(* set, once, after the files it imports, in whatever order they were sent.*)
FileSetComplete ==
    /\ status = "failed" => ~Buildable(protos) \/ Redeclares(protos)
    /\ status = "built" => /\ Buildable(protos)
                           /\ ToSet(files) = Effective(protos)
                           /\ Len(files) = Cardinality(Names(protos))
                           /\ ImportsFirst(files)

(* A method is found only if the response can be used and a file of it     *)
(* declares the service with that method, not streaming; and it is always  *)
(* found then, unless global messages are redeclared.                      *)
UnaryMethodFound ==
    Returned("resolve") =>
        LET there == /\ Buildable(protos)
                     /\ \E f \in Effective(protos) : \E s \in f.symbols :
                           /\ s.name = call.service /\ s.kind = "service"
                           /\ call.method \in s.unary
        IN  /\ ret => there
            /\ there => ret \/ Redeclares(protos)

(* Interpolate replaces every token of a variable that is set, in values   *)
(* only tokens of later keys, and leaves other text and the tokens of      *)
(* unknown variables alone.                                                *)
InterpolateExpandsForward ==
    Returned("Interpolate") => ret = Expansion(call.data, call.s)

(* A variable is set to what its path leads to in the response, and keeps  *)
(* its value, or stays unset, if the path leads nowhere.                   *)
ExtractsWhatPathsName ==
    Returned("extract") => Extracted(call.data, call.doc, call.extract, ret)

-----------------------------------------------------------------------------
(* What a comment says; the code does otherwise. *)

(* pkg/warmup/session.go says of the sorted order of the keys that "a      *)
(* substituted value can never introduce a {{key}} token that is then      *)
(* re-substituted by a later key".                                         *)
ValuesNotResubstituted ==
    Returned("Interpolate") =>
        ret = FlattenSeq([j \in DOMAIN call.s |->
                 IF call.s[j] \in DOMAIN call.data THEN call.data[call.s[j]]
                 ELSE <<call.s[j]>>])
=============================================================================
