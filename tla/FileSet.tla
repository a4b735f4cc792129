------------------------------ MODULE FileSet -------------------------------
(***************************************************************************)
(* How a gRPC method is found in a reflection response                     *)
(* (pkg/warmup/grpc_sender.go: buildFileSet, resolveMethodDescriptor).     *)
(* The response is a list of files; register puts the imports of a file    *)
(* into the set before the file, depth first.  Its recursion is a stack of *)
(* calls, which grows for ever if a file imports itself, as it does in the *)
(* code; protobuf compilers let no such file through.                      *)
(*                                                                         *)
(* protodesc.NewFile and RegisterFile are external; the resolver they are  *)
(* given, which decides what the types a file mentions stand for, is the   *)
(* repository's.                                                           *)
(***************************************************************************)
EXTENDS Naturals, Sequences, FiniteSets, SequencesExt

CONSTANTS
    GlobalFiles,                    \* protoregistry.GlobalFiles, by name
    GlobalMessages,                 \* the messages of protoregistry.GlobalTypes
    maxReflectionResponseBytes

(* The registry has one message of a name. *)
ASSUME GlobalMessagesAssumption ==
    \A d, e \in GlobalMessages : d.name = e.name => d = e

VARIABLES
    protos,         \* the files of the response
    pos,            \* for how many of them register was called
    stack,          \* the calls of register that have not returned
    files,          \* the set under construction, in the order of RegisterFile
    registered,
    status          \* "new", "building", "built" or "failed"

fileSetVars == <<protos, pos, stack, files, registered, status>>

(* What a file declares; kind is what protodesc.NewFile asks of the target *)
(* of a reference: a message, an enum, a service.                          *)
Symbols == [name : STRING, kind : STRING, unary : SUBSET STRING,
            streaming : SUBSET STRING]

(* A type a file mentions, by its full name, and the kinds it may be of. *)
References == [name : STRING, kinds : SUBSET STRING]

(* public are the imports passed on to importing files; packages the       *)
(* file's package and those around it; valid says that NewFile finds       *)
(* nothing wrong with the file by itself.                                  *)
FileDescriptors ==
    {f \in [name : STRING, deps : Seq(STRING), public : SUBSET STRING,
            size : Nat, decodes : BOOLEAN, valid : BOOLEAN,
            packages : SUBSET STRING, symbols : SUBSET Symbols,
            refs : SUBSET References] :
        f.public \subseteq ToSet(f.deps)}

-----------------------------------------------------------------------------
Names(fs) == {fs[i].name : i \in DOMAIN fs}

(* byName: of several files of a name, the last one. *)
byName(response, n) ==
    response[CHOOSE i \in DOMAIN response :
                /\ response[i].name = n
                /\ \A j \in i + 1 .. Len(response) : response[j].name # n]

TotalSize(response) == FoldLeft(LAMBDA sum, f : sum + f.size, 0, response)

TooLarge(response) == TotalSize(response) > maxReflectionResponseBytes

buildFileSet(response) ==
    /\ protos = response
    /\ pos = 0
    /\ stack = <<>>
    /\ files = <<>>
    /\ registered = {}
    /\ status = "new"

(* The size is checked, then every file is unmarshalled. *)
Unmarshal ==
    /\ status = "new"
    /\ status' = IF TooLarge(protos) \/ \E f \in ToSet(protos) : ~f.decodes
                 THEN "failed" ELSE "building"
    /\ UNCHANGED <<protos, pos, stack, files, registered>>

(* A call of register, with the calls that have not returned before it. An *)
(* error returns from all of them.                                         *)
register(n, callers) ==
    /\ stack' = IF n \in registered THEN callers
                ELSE IF n \in Names(protos)
                     THEN Append(callers, [name |-> n, dep |-> 0])
                ELSE IF n \in GlobalFiles THEN callers ELSE <<>>
    /\ registered' = IF n \notin Names(protos) /\ n \in GlobalFiles
                     THEN registered \cup {n} ELSE registered
    /\ status' = IF n \in registered \cup Names(protos) \cup GlobalFiles
                 THEN status ELSE "failed"
    /\ UNCHANGED <<protos, files>>

RegisterFile ==
    /\ status = "building"
    /\ stack = <<>>
    /\ pos < Len(protos)
    /\ pos' = pos + 1
    /\ register(protos[pos + 1].name, <<>>)

Top == stack[Len(stack)]
Imports == byName(protos, Top.name).deps

(* Mutation: the last import is not followed. *)
HasImportShort == Top.dep + 1 < Len(Imports)

HasImport == Top.dep < Len(Imports)

RegisterImport ==
    /\ status = "building"
    /\ stack # <<>>
    /\ HasImport
    /\ register(Imports[Top.dep + 1], [stack EXCEPT ![Len(stack)].dep = @ + 1])
    /\ UNCHANGED pos

(* The symbols of some files, with the file of each. *)
Declared(fset) ==
    UNION {{[name |-> s.name, kind |-> s.kind, file |-> f.name] : s \in f.symbols} :
              f \in fset}

(* fileSetResolver.FindDescriptorByName: a name is looked for in the set   *)
(* under construction, then among the global messages, and nowhere else:   *)
(* an enum of a well-known file that was not sent is not found.            *)
fileSetResolver(fset, n) ==
    LET local == {d \in Declared(fset) : d.name = n}
    IN  IF local # {} THEN local ELSE {d \in GlobalMessages : d.name = n}

(* The files whose symbols a file may mention beside its own: its imports, *)
(* and what these import publicly.                                         *)
Visible(fset, f) ==
    LET all == ToSet(f.deps) \cup UNION {g.public : g \in fset}
        Closed(S) == /\ ToSet(f.deps) \subseteq S
                     /\ \A g \in fset : g.name \in S => g.public \subseteq S
    IN  {n \in all : \A S \in SUBSET all : Closed(S) => n \in S}

(* A reference of a file leads to a symbol that is visible and of the      *)
(* right kind.                                                             *)
Resolves(fset, f, ref) ==
    \E d \in fileSetResolver(fset \cup {f}, ref.name) :
        d.kind \in ref.kinds /\ d.file \in {f.name} \cup Visible(fset, f)

SymbolNames(f) == {s.name : s \in f.symbols}

(* Two files declare the same name, or one the name of the other's package.*)
Clash(f, g) ==
    \/ SymbolNames(f) \cap (SymbolNames(g) \cup g.packages) # {}
    \/ f.packages \cap SymbolNames(g) # {}

(* protodesc.NewFile finds every import and every type a valid file        *)
(* mentions, and RegisterFile no clash of names.                           *)
CanRegister(fs, f) ==
    /\ f.valid
    /\ ToSet(f.deps) \subseteq Names(fs) \cup GlobalFiles
    /\ \A ref \in f.refs : Resolves(ToSet(fs), f, ref)
    /\ \A g \in ToSet(fs) : ~Clash(f, g)

(* The imports of a file are in the set: it is added unless it is there,   *)
(* and register returns.                                                   *)
AddFile ==
    /\ status = "building"
    /\ stack # <<>>
    /\ ~HasImport
    /\ LET f == byName(protos, Top.name)
           there == f.name \in Names(files)
       IN  IF there \/ CanRegister(files, f)
           THEN /\ files' = IF there THEN files ELSE Append(files, f)
                /\ registered' = registered \cup {f.name}
                /\ stack' = Front(stack)
                /\ UNCHANGED status
           ELSE /\ status' = "failed"
                /\ stack' = <<>>
                /\ UNCHANGED <<files, registered>>
    /\ UNCHANGED <<protos, pos>>

Built ==
    /\ status = "building"
    /\ stack = <<>>
    /\ pos = Len(protos)
    /\ status' = "built"
    /\ UNCHANGED <<protos, pos, stack, files, registered>>

BuildNext == Unmarshal \/ RegisterFile \/ RegisterImport \/ AddFile \/ Built

-----------------------------------------------------------------------------
(* The symbols of a file set with a name: at most one. *)
FindDescriptorByName(fs, n) ==
    {s \in UNION {f.symbols : f \in ToSet(fs)} : s.name = n}

(* Mutation: streaming methods are taken too. *)
IsUnaryMethodAny(s, m) == m \in s.unary \cup s.streaming

IsUnaryMethod(s, m) == m \in s.unary

(* Whether a method is found, once buildFileSet has returned. *)
resolveMethodDescriptor(service, m) ==
    /\ status = "built"
    /\ \E s \in FindDescriptorByName(files, service) :
          s.kind = "service" /\ IsUnaryMethod(s, m)

-----------------------------------------------------------------------------
(* Reference definitions *)

(* The files a set should be built of. *)
Effective(response) == {byName(response, n) : n \in Names(response)}

(* A reference leads to a visible symbol of the response or of the global  *)
(* messages.                                                               *)
Referable(response, f, ref) ==
    \E d \in Declared(Effective(response)) \cup GlobalMessages :
        /\ d.name = ref.name
        /\ d.kind \in ref.kinds
        /\ d.file \in {f.name} \cup Visible(Effective(response), f)

(* A response from which a set can be built: small enough, well-formed, no *)
(* import missing, no type mentioned that is not there and no two files    *)
(* that clash.                                                             *)
Buildable(response) ==
    /\ ~TooLarge(response)
    /\ \A f \in ToSet(response) : f.decodes
    /\ \A f \in Effective(response) :
          /\ f.valid
          /\ ToSet(f.deps) \subseteq Names(response) \cup GlobalFiles
          /\ \A ref \in f.refs : Referable(response, f, ref)
    /\ \A f, g \in Effective(response) : f # g => ~Clash(f, g)

(* A file of the response declares the name of a global message, but       *)
(* elsewhere or as something else.  What the name stands for then depends  *)
(* on whether that file is in the set yet.                                 *)
Redeclares(response) ==
    \E d \in Declared(Effective(response)) \ GlobalMessages :
        \E e \in GlobalMessages : d.name = e.name

(* A list of files in which every import comes before the file. *)
ImportsFirst(fs) ==
    \A i \in DOMAIN fs :
        ToSet(fs[i].deps) \subseteq
            {fs[j].name : j \in 1 .. i - 1} \cup (GlobalFiles \ Names(fs))
=============================================================================
