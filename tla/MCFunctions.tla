---------------------------- MODULE MCFunctions -----------------------------
(***************************************************************************)
(* WarmupFunctions with small sets of inputs for TLC.                      *)
(***************************************************************************)
EXTENDS WarmupFunctions

Absent == [given |-> FALSE, parses |-> FALSE, value |-> 0]
Malformed == [Absent EXCEPT !.given = TRUE]
Says(n) == [given |-> TRUE, parses |-> TRUE, value |-> n]

(* All pods with annotations at and beyond their limits. *)
SomePods ==
    [exists : BOOLEAN,
     requests : {Absent, Malformed} \cup {Says(n) : n \in {0, 1, 12000, 12001}},
     timeout : {Absent, Malformed} \cup {Says(n) : n \in {999, 1000, 300000, 300001}},
     protocol : {"", "http", "grpc", "other"},
     method : {Absent, Malformed, Says(0)},
     payload : {Absent, Malformed},
     warmupConfig : BOOLEAN,
     port : {Absent, Malformed} \cup {Says(n) : n \in {0, 1, 65535, 65536}},
     containers : {<<>>, << <<>> >>, << <<80>> >>, << <<80, 81>> >>,
                   << <<80>>, <<>> >>}]

File(n, deps, symbols, refs) ==
    [name |-> n, deps |-> deps, public |-> {}, size |-> 1, decodes |-> TRUE,
     valid |-> TRUE, packages |-> {}, symbols |-> symbols, refs |-> refs]

Service == [name |-> "Svc", kind |-> "service", unary |-> {"Get"},
            streaming |-> {"Watch"}]
Symbol(n, kind) == [name |-> n, kind |-> kind, unary |-> {}, streaming |-> {}]
Message == Symbol("Msg", "message")

Of(n, kind) == [name |-> n, kinds |-> {kind}]
AMsg == Of("Msg", "message")
AnAny == Of("Any", "message")

(* A service, what it imports, what that imports; "any" is well known and  *)
(* has a message and an enum, of which only the message is global.         *)
Files ==
    {File("svc", <<>>, {Service}, {}),
     File("svc", <<"dep">>, {Service}, {AMsg}),
     File("svc", <<"dep", "any">>, {Service}, {AMsg, AnAny}),
     File("svc", <<"base", "dep">>, {Service}, {AMsg}),
     File("svc", <<"any">>, {Service}, {Of("Null", "enum")})}
    \cup {File("dep", deps, {Message}, {}) : deps \in {<<>>, <<"base">>}}
    \cup {File("dep", <<>>, {Symbol("Msg", "enum")}, {}),
          File("dep", <<"any">>, {Message}, {AnAny}),
          [File("dep", <<"base">>, {}, {AMsg}) EXCEPT !.public = {"base"}],
          [File("dep", <<>>, {}, {}) EXCEPT !.decodes = FALSE]}
    \cup {File("base", <<>>, {Message}, {}),
          File("base", <<"any">>, {}, {AnAny}),
          File("base", <<>>, {Symbol("Any", "message")}, {}),
          [File("base", <<>>, {}, {}) EXCEPT !.size = 3],
          [File("base", <<>>, {}, {}) EXCEPT !.packages = {"Msg"}],
          [File("base", <<>>, {}, {}) EXCEPT !.valid = FALSE]}
    \cup {File("any", <<>>, {Symbol("Any", "message"), Symbol("Null", "enum")}, {})}

SomeResponses == BoundedSeq(Files, 3)

ShortTexts == BoundedSeq({"a", "b", "c", "word"}, 2)

Values == {<<>>, <<"word">>, <<"a">>, <<"c">>, <<"b", "c">>, <<"c", "a">>,
              <<"b", "word">>}

SomeSessions == UNION {[ks -> Values] : ks \in SUBSET Keys}

(* What the variables may be before an extraction. *)
FewSessions == [{"a"} -> {<<"word">>}] \cup [{} -> {}]

Leaf(t) == [at \in {<<>>} |-> [object |-> FALSE, text |-> t]]

Object(fs) ==
    [at \in {<<>>} \cup UNION {{<<n>> \o p : p \in DOMAIN fs[n]} : n \in DOMAIN fs} |->
        IF at = <<>> THEN [object |-> TRUE, text |-> <<"{...}">>]
        ELSE fs[Head(at)][Tail(at)]]

Objects(docs) == UNION {{Object(f) : f \in [ns -> docs]} : ns \in SUBSET {"p", "q"}}

(* The last stands for a body that is not a JSON object. *)
SomeDocuments ==
    Objects({Leaf(<<"word">>), Leaf(<<"b">>)} \cup Objects({Leaf(<<"a">>)}))
        \cup {Leaf(<<"word">>)}

Paths == [rooted : {TRUE}, parts : BoundedSeq({"p", "q"}, 3) \ {<<>>}]
             \cup [rooted : {FALSE}, parts : {<<"p">>}]

SomeExtracts == [{"a", "b"} -> Paths]

ServiceNames == {"Svc", "Msg"}
MethodNames == {"Get", "Watch"}
WellKnown == {"any"}
WellKnownMessages == {[name |-> "Any", kind |-> "message", file |-> "any"]}
ABC == {"a", "b", "c"}
Alphabetical == <<"a", "b", "c">>
=============================================================================
