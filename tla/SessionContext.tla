--------------------------- MODULE SessionContext ---------------------------
(***************************************************************************)
(* Session variables (pkg/warmup/session.go and extractVariables and       *)
(* jsonPathLookup of scenario_executor.go).                                *)
(*                                                                         *)
(* A text is a sequence of words; the word k stands for the token {{k}}    *)
(* when k is a key.  A session maps the keys that are set to texts.  A     *)
(* JSON document maps each sequence of names that leads somewhere in it    *)
(* to the value there, [object, text]: whether it is an object, and how it *)
(* is printed.                                                             *)
(***************************************************************************)
EXTENDS Naturals, Sequences, SequencesExt

CONSTANTS
    Keys,           \* the names of variables
    SortedKeys      \* the same in the order of sort.Strings

Word == STRING

ASSUME KeysAssumption ==
    /\ Keys \subseteq Word
    /\ SortedKeys \in Seq(Keys)
    /\ \A k \in Keys : \E i \in DOMAIN SortedKeys : SortedKeys[i] = k
    /\ \A i, j \in DOMAIN SortedKeys : SortedKeys[i] = SortedKeys[j] => i = j

Text == Seq(Word)

IsSession(data) ==
    DOMAIN data \subseteq Keys /\ data \in [DOMAIN data -> Text]

-----------------------------------------------------------------------------
(* strings.ReplaceAll of the token of k. *)
ReplaceToken(s, k, v) ==
    FlattenSeq([j \in DOMAIN s |-> IF s[j] = k THEN v ELSE <<s[j]>>])

(* Mutation: the keys in descending order. *)
KeyAtReversed(i) == SortedKeys[Len(SortedKeys) + 1 - i]

(* The keys are sorted; one that is not set is not among them. *)
KeyAt(i) == SortedKeys[i]

(* One pass over the text for each key that is set. *)
Interpolate(data, s) ==
    LET pass[i \in 0 .. Len(SortedKeys)] ==
            IF i = 0 THEN s
            ELSE IF KeyAt(i) \in DOMAIN data
                 THEN ReplaceToken(pass[i - 1], KeyAt(i), data[KeyAt(i)])
                 ELSE pass[i - 1]
    IN  IF ToSet(s) \cap Keys = {} THEN s ELSE pass[Len(SortedKeys)]

-----------------------------------------------------------------------------
(* A place in a document: the names that lead to it. *)
NotFound == [found |-> FALSE, at |-> <<>>]

(* Mutation: a missing key keeps the value found so far. *)
FieldLenient(doc, cur, name) ==
    IF cur.found /\ doc[cur.at].object /\ Append(cur.at, name) \in DOMAIN doc
    THEN [found |-> TRUE, at |-> Append(cur.at, name)]
    ELSE cur

(* A field of what was found so far, which must be an object and have it. *)
Field(doc, cur, name) ==
    IF cur.found /\ doc[cur.at].object /\ Append(cur.at, name) \in DOMAIN doc
    THEN [found |-> TRUE, at |-> Append(cur.at, name)]
    ELSE NotFound

(* A path starts with "$." or not; its parts are the names between dots.   *)
JSONPaths == [rooted : BOOLEAN, parts : Seq(Word) \ {<<>>}]

jsonPathLookup(doc, path) ==
    LET cur[i \in 0 .. Len(path.parts)] ==
            IF i = 0 THEN [found |-> path.rooted, at |-> <<>>]
            ELSE Field(doc, cur[i - 1], path.parts[i])
    IN  cur[Len(path.parts)]

(* The variables whose paths are in the document are set, the others kept. *)
extractVariables(data, doc, extract) ==
    LET Lookup(v) == jsonPathLookup(doc, extract[v])
        found == {v \in DOMAIN extract : Lookup(v).found}
    IN  [v \in found \cup DOMAIN data |->
            IF v \in found THEN doc[Lookup(v).at].text ELSE data[v]]

-----------------------------------------------------------------------------
(* Reference definitions *)

IndexOf(k) == CHOOSE i \in DOMAIN SortedKeys : SortedKeys[i] = k

(* A text in which the keys from the n-th on are replaced by texts. *)
ReplaceFrom(s, n, texts) ==
    FlattenSeq([j \in DOMAIN s |->
        IF s[j] \in Keys /\ IndexOf(s[j]) >= n THEN texts[IndexOf(s[j])]
        ELSE <<s[j]>>])

(* A text with its tokens expanded: a token is replaced by its value, in   *)
(* which the tokens of later keys are replaced in turn.                    *)
Expansion(data, s) ==
    LET expanded[i \in DOMAIN SortedKeys] ==
            IF SortedKeys[i] \in DOMAIN data
            THEN ReplaceFrom(data[SortedKeys[i]], i + 1, expanded)
            ELSE <<SortedKeys[i]>>
    IN  ReplaceFrom(s, 1, expanded)

(* What leads somewhere in a document begins with what leads to an object. *)
IsDocument(doc) ==
    /\ DOMAIN doc \subseteq Seq(Word)
    /\ doc \in [DOMAIN doc -> [object : BOOLEAN, text : Text]]
    /\ <<>> \in DOMAIN doc
    /\ \A at \in DOMAIN doc : Len(at) > 0 =>
          /\ Front(at) \in DOMAIN doc
          /\ doc[Front(at)].object

(* The variables after an extraction: those whose paths lead somewhere are *)
(* set to what is there, the others are as before.                         *)
Extracted(data, doc, extract, result) ==
    LET leads(v) == extract[v].rooted /\ extract[v].parts \in DOMAIN doc
    IN  /\ DOMAIN result = DOMAIN data \cup {v \in DOMAIN extract : leads(v)}
        /\ \A v \in DOMAIN result :
              result[v] = IF v \in DOMAIN extract /\ leads(v)
                          THEN doc[extract[v].parts].text ELSE data[v]
=============================================================================
