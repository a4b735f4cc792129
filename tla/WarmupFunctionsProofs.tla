------------------------ MODULE WarmupFunctionsProofs ------------------------
(***************************************************************************)
(* What the functions of the warmup package return, for every input:       *)
(* ParseConfig by cases, Interpolate and jsonPathLookup by induction over  *)
(* keys and names, buildFileSet by an inductive invariant of its calls of  *)
(* register.                                                               *)
(*                                                                         *)
(* Inductions are on sets of numbers or sequences, which the provers can   *)
(* instantiate; that a recursive function exists is proved by building it. *)
(***************************************************************************)
EXTENDS WarmupFunctions, SequenceTheorems, FiniteSetTheorems,
        WellFoundedInduction, TLAPS

(* What ParseConfig returns *)

(* A pod without an error has passed every check. *)
LEMMA NoErrorMeansChecked ==
    ASSUME NEW pod \in PodObjects, ErrorOf(pod) = "none"
    PROVE  /\ pod.exists
           /\ ~OutOfRange(pod.requests, 1, MaxRequestCount)
           /\ ~OutOfRange(pod.timeout, 1000, MaxTimeout)
           /\ ProtocolOf(pod) \in {ProtocolHTTP, ProtocolGRPC}
           /\ ~Unparsable(pod.method)
           /\ ~MethodMissing(pod)
           /\ ~OutOfRange(pod.port, 1, MaxPort)
           /\ pod.port.given \/ DetectablePort(pod)
BY DEF ErrorOf

(* A number that passed its check, or its default, is within the limits.   *)
LEMMA CheckedIsInRange ==
    ASSUME NEW a \in Annotations, NEW lo \in Int, NEW hi \in Int,
           NEW default \in lo .. hi, ~OutOfRange(a, lo, hi)
    PROVE  ValueOr(a, default) \in lo .. hi
BY DEF Annotations, OutOfRange, ValueOr

(* The limits are numbers, and the defaults are within them.              *)
LEMMA Limits ==
    /\ MaxRequestCount \in Int /\ MaxTimeout \in Int /\ MaxPort \in Int
    /\ DefaultRequestCount \in 1 .. MaxRequestCount
    /\ DefaultTimeout \in 1000 .. MaxTimeout
<1>1. /\ MaxRequestCount \in Int /\ MaxTimeout \in Int /\ MaxPort \in Int
      /\ DefaultRequestCount \in Int /\ DefaultTimeout \in Int
    BY DEF MaxRequestCount, MaxTimeout, MaxPort, DefaultRequestCount,
           DefaultTimeout
<1>2. 1 <= DefaultRequestCount /\ DefaultRequestCount <= MaxRequestCount
    BY DEF MaxRequestCount, DefaultRequestCount
<1>3. 1000 <= DefaultTimeout /\ DefaultTimeout <= MaxTimeout
    BY DEF MaxTimeout, DefaultTimeout
<1> QED BY <1>1, <1>2, <1>3

(* The port of a pod that passed the checks is the annotation's, in range, *)
(* or the only port of its only container.                                 *)
LEMMA CheckedPort ==
    ASSUME NEW pod \in PodObjects, ~OutOfRange(pod.port, 1, MaxPort),
           pod.port.given \/ DetectablePort(pod)
    PROVE  /\ PortOf(pod) \in 1 .. MaxPort
           /\ pod.port.given => PortOf(pod) = pod.port.value
           /\ ~pod.port.given => /\ Len(pod.containers) = 1
                                 /\ pod.containers[1] = <<PortOf(pod)>>
<1>1. pod.port \in Annotations /\ pod.containers \in Seq(Seq(ContainerPorts))
    BY DEF PodObjects
<1>2. CASE pod.port.given
    <2>1. PortOf(pod) = pod.port.value BY <1>2 DEF PortOf
    <2>2. pod.port.value \in Int BY <1>1 DEF Annotations
    <2>3. pod.port.value \in 1 .. MaxPort BY <1>2, <2>2, Limits DEF OutOfRange
    <2> QED BY <1>2, <2>1, <2>3
<1>3. CASE ~pod.port.given
    <2> DEFINE ports == pod.containers[1]
    <2>1. Len(pod.containers) = 1 /\ Len(ports) = 1
        BY <1>3 DEF DetectablePort
    <2>2. ports \in Seq(ContainerPorts)
        BY <1>1, <2>1
    <2>3. ports[1] \in ContainerPorts
        BY <2>1, <2>2
    <2>4. ports = <<ports[1]>>
        BY <2>1, <2>2
    <2>5. PortOf(pod) = ports[1]
        BY <1>3 DEF PortOf
    <2>6. ports[1] \in 1 .. MaxPort BY <2>3 DEF ContainerPorts
    <2>7. PortOf(pod) \in 1 .. MaxPort BY <2>5, <2>6
    <2>8. ports = <<PortOf(pod)>> BY <2>4, <2>5
    <2> HIDE DEF ports
    <2> QED BY <1>3, <2>1, <2>7, <2>8, Zenon DEF ports
<1> QED BY <1>2, <1>3

(* Whatever the annotations of a pod say, ParseConfig either returns an    *)
(* error or a configuration that the executors can run, and never picks    *)
(* one of several ports.                                                   *)
THEOREM ParseConfigSound ==
    ASSUME NEW pod \in PodObjects, ParseConfig(pod).error = "none"
    PROVE  /\ Runnable(ParseConfig(pod))
           /\ PortCertain(pod, ParseConfig(pod))
<1> DEFINE c == ParseConfig(pod)
<1>1. ErrorOf(pod) = "none" BY DEF ParseConfig
<1>2. c.count \in 1 .. MaxRequestCount
    <2>1. pod.requests \in Annotations BY DEF PodObjects
    <2>2. ValueOr(pod.requests, DefaultRequestCount) \in 1 .. MaxRequestCount
        BY <1>1, <2>1, NoErrorMeansChecked, CheckedIsInRange, Limits
    <2> QED BY <2>2 DEF ParseConfig
<1>3. c.timeout \in 1000 .. MaxTimeout
    <2>1. pod.timeout \in Annotations BY DEF PodObjects
    <2>2. ValueOr(pod.timeout, DefaultTimeout) \in 1000 .. MaxTimeout
        BY <1>1, <2>1, NoErrorMeansChecked, CheckedIsInRange, Limits
    <2> QED BY <2>2 DEF ParseConfig
<1>4. c.protocol \in {ProtocolHTTP, ProtocolGRPC}
    BY <1>1, NoErrorMeansChecked DEF ParseConfig
<1>5. c.protocol = ProtocolGRPC => c.method
    <2>1. /\ c.protocol = ProtocolOf(pod)
          /\ c.method <=> pod.method.given /\ pod.method.parses
        BY DEF ParseConfig
    <2>2. ProtocolOf(pod) = ProtocolGRPC => pod.method.given /\ pod.method.parses
        BY <1>1, NoErrorMeansChecked DEF MethodMissing, Unparsable
    <2> QED BY <2>1, <2>2
<1>6. c.port = PortOf(pod) BY DEF ParseConfig
<1>7. /\ PortOf(pod) \in 1 .. MaxPort
      /\ pod.port.given => PortOf(pod) = pod.port.value
      /\ ~pod.port.given => /\ Len(pod.containers) = 1
                            /\ pod.containers[1] = <<PortOf(pod)>>
    BY <1>1, NoErrorMeansChecked, CheckedPort
<1>8. Runnable(c) BY <1>2, <1>3, <1>4, <1>5, <1>6, <1>7 DEF Runnable
<1>9. PortCertain(pod, c) BY <1>6, <1>7 DEF PortCertain
<1> QED BY <1>8, <1>9

-----------------------------------------------------------------------------
(* Induction and iteration *)

(* A set of natural numbers that is not empty has a least element. *)
LEMMA LeastNat ==
    ASSUME NEW T, T \subseteq Nat, T # {}
    PROVE  \E x \in T : \A y \in T : x <= y
<1> DEFINE R == {ss \in Nat \X Nat : ss[1] < ss[2]}
<1>1. IsWellFoundedOn(R, Nat) BY NatLessThanWellFounded DEF OpToRel
<1>2. \A x, y \in Nat : x < y => <<x, y>> \in R OBVIOUS
<1> HIDE DEF R
<1>3. PICK x \in T : \A y \in T : ~(<<y, x>> \in R) BY <1>1, WFMin
<1>4. \A y \in T : ~(y < x) BY <1>2, <1>3
<1> QED BY <1>4

(* Induction on the natural numbers, on a set instead of a predicate. *)
LEMMA NatSetInduction ==
    ASSUME NEW S, 0 \in S, \A n \in Nat : n \in S => n + 1 \in S
    PROVE  \A n \in Nat : n \in S
<1> DEFINE T == {n \in Nat : n \notin S}
<1> SUFFICES ASSUME T # {} PROVE FALSE OBVIOUS
<1>1. PICK m \in T : \A y \in T : m <= y BY LeastNat
<1>2. m # 0 /\ m - 1 \in Nat /\ m - 1 \notin T BY <1>1
<1> QED BY <1>1, <1>2

(* A start in D and, for each of N positions, a function on D. *)
Iterable(a, F, N, D) == a \in D /\ N \in Nat /\ F \in [1 .. N -> [D -> D]]

(* The start and what the functions make of it, one after the other. *)
Iteration(g, a, F, N, D) ==
    /\ g \in [0 .. N -> D]
    /\ g[0] = a
    /\ \A i \in 1 .. N : g[i] = F[i][g[i - 1]]

(* A recursive function on 0 .. N exists: this is what TLA+ leaves to      *)
(* prove of a definition f[i \in 0 .. N] == ...                            *)
LEMMA IterationExists ==
    ASSUME NEW a, NEW F, NEW N, NEW D, Iterable(a, F, N, D)
    PROVE  \E g : Iteration(g, a, F, N, D)
<1> USE DEF Iterable
<1> DEFINE Iter(n, g) == g[0] = a /\ \A i \in 1 .. n : g[i] = F[i][g[i - 1]]
           S == {n \in Nat : n <= N => \E g \in [0 .. n -> D] : Iter(n, g)}
<1>1. 0 \in S
    <2>1. [i \in 0 .. 0 |-> a] \in [0 .. 0 -> D] OBVIOUS
    <2>2. Iter(0, [i \in 0 .. 0 |-> a]) OBVIOUS
    <2> QED BY <2>1, <2>2
<1>2. ASSUME NEW n \in Nat, n \in S PROVE n + 1 \in S
    <2> SUFFICES ASSUME n + 1 <= N
                 PROVE  \E g \in [0 .. n + 1 -> D] : Iter(n + 1, g)
        OBVIOUS
    <2>1. PICK g \in [0 .. n -> D] : Iter(n, g) BY <1>2
    <2> DEFINE v == F[n + 1][g[n]]
               h == [i \in 0 .. n + 1 |-> IF i <= n THEN g[i] ELSE v]
    <2>2. v \in D
        <3>1. F[n + 1] \in [D -> D] OBVIOUS
        <3> QED BY <3>1
    <2> HIDE DEF v
    <2>3. h \in [0 .. n + 1 -> D] BY <2>2
    <2>4. \A i \in 0 .. n : h[i] = g[i] OBVIOUS
    <2>5. h[n + 1] = v OBVIOUS
    <2> HIDE DEF h
    <2>6. Iter(n + 1, h)
        <3>1. h[0] = a BY <2>1, <2>4
        <3>2. ASSUME NEW i \in 1 .. n + 1 PROVE h[i] = F[i][h[i - 1]]
            <4>1. CASE i <= n
                BY <2>1, <2>4, <4>1
            <4>2. CASE i = n + 1 BY <2>4, <2>5, <4>2 DEF v
            <4> QED BY <4>1, <4>2
        <3> QED BY <3>1, <3>2
    <2> QED BY <2>3, <2>6
<1> HIDE DEF S
<1>3. N \in S BY <1>1, <1>2, NatSetInduction
<1>4. PICK g \in [0 .. N -> D] : Iter(N, g) BY <1>3 DEF S
<1>5. Iteration(g, a, F, N, D) BY <1>4 DEF Iteration
<1> QED BY <1>5

-----------------------------------------------------------------------------
(* Concatenation and substitution *)

(* The concatenations of the first sequences of a sequence of them. *)
Concats(g, seqs) ==
    g[0] = <<>> /\ \A i \in 1 .. Len(seqs) : g[i] = g[i - 1] \o seqs[i]

(* FlattenSeq is the last of these concatenations. *)
LEMMA FlattenByPrefix ==
    ASSUME NEW W, NEW seqs \in Seq(Seq(W))
    PROVE  \E g \in [0 .. Len(seqs) -> Seq(W)] :
               Concats(g, seqs) /\ FlattenSeq(seqs) = g[Len(seqs)]
<1> DEFINE n == Len(seqs)
<1>0. n \in Nat /\ \A i \in 1 .. n : seqs[i] \in Seq(W) OBVIOUS
<1>1. CASE n = 0
    <2>1. FlattenSeq(seqs) = <<>> BY <1>1 DEF FlattenSeq
    <2>2. PICK g : g = [i \in 0 .. 0 |-> <<>>] OBVIOUS
    <2>3. g[0] = <<>> BY <2>2
    <2>4. g \in [0 .. Len(seqs) -> Seq(W)] BY <1>1, <2>2, EmptySeq
    <2>5. Concats(g, seqs) BY <1>1, <2>3 DEF Concats
    <2> QED BY <1>1, <2>1, <2>3, <2>4, <2>5
<1>2. CASE n # 0
    <2> DEFINE Eq(f) == f = [i \in 1 .. n |-> IF i = 1 THEN seqs[i]
                                              ELSE f[i - 1] \o seqs[i]]
    <2>1. \E f : Eq(f)
        <3> DEFINE F == [i \in 1 .. n |-> [x \in Seq(W) |-> x \o seqs[i]]]
        <3>1. F \in [1 .. n -> [Seq(W) -> Seq(W)]] BY <1>0
        <3>2. PICK e \in Seq(W) : e = <<>> BY EmptySeq
        <3> HIDE DEF F, n
        <3>3. PICK g \in [0 .. n -> Seq(W)] :
                   g[0] = e /\ \A i \in 1 .. n : g[i] = F[i][g[i - 1]]
            <4>1. Iterable(e, F, n, Seq(W)) BY <1>0, <3>1 DEF Iterable
            <4>2. PICK g : Iteration(g, e, F, n, Seq(W)) BY <4>1, IterationExists
            <4> QED BY <4>2 DEF Iteration
        <3>4. ASSUME NEW i \in 1 .. n
              PROVE  g[i] = IF i = 1 THEN seqs[i] ELSE g[i - 1] \o seqs[i]
            <4>1. g[i] = F[i][g[i - 1]] BY <1>0, <3>3
            <4>2. g[i - 1] \in Seq(W) BY <1>0
            <4>3. g[i] = g[i - 1] \o seqs[i] BY <4>1, <4>2 DEF F
            <4>4. CASE i = 1
                <5>1. g[i - 1] = <<>> BY <3>2, <3>3, <4>4
                <5>2. seqs[1] \in Seq(W) BY <1>0, <4>4
                <5>3. <<>> \o seqs[1] = seqs[1] BY <5>2, ConcatEmptySeq
                <5>4. g[i] = seqs[i] BY <4>3, <4>4, <5>1, <5>3
                <5> QED BY <4>4, <5>4
            <4> QED BY <4>3, <4>4
        <3>5. Eq([i \in 1 .. n |-> g[i]])
            <4> DEFINE f == [i \in 1 .. n |-> g[i]]
            <4>1. ASSUME NEW i \in 1 .. n
                  PROVE  f[i] = IF i = 1 THEN seqs[i] ELSE f[i - 1] \o seqs[i]
                BY <1>0, <3>4
            <4> QED BY <4>1
        <3> QED BY <3>5
    <2>2. PICK f : Eq(f) /\ FlattenSeq(seqs) = f[n]
        <3>1. Eq(CHOOSE f : Eq(f)) BY <2>1
        <3>2. FlattenSeq(seqs) = (CHOOSE f : Eq(f))[n] BY <1>2 DEF FlattenSeq
        <3> HIDE DEF Eq
        <3> QED BY <3>1, <3>2
    <2>3. \A i \in 1 .. n : f[i] = IF i = 1 THEN seqs[i] ELSE f[i - 1] \o seqs[i]
        BY <2>2
    <2>n. PICK m \in Nat : m = n BY <1>0
    <2>4. PICK g : g = [i \in 0 .. m |-> IF i = 0 THEN <<>> ELSE f[i]] OBVIOUS
    <2>g. g[0] = <<>> /\ \A i \in 1 .. m : g[i] = f[i] BY <2>4
    <2> HIDE DEF n
    <2>5. ASSUME NEW i \in 1 .. m, g[i - 1] \in Seq(W)
          PROVE  g[i] = g[i - 1] \o seqs[i] /\ g[i] \in Seq(W)
        <3>1. seqs[i] \in Seq(W) BY <1>0, <2>n
        <3>2. CASE i = 1
            <4>1. g[i] = seqs[i] /\ g[i - 1] = <<>> BY <2>3, <2>n, <2>g, <3>2
            <4>2. <<>> \o seqs[i] = seqs[i] BY <3>1, ConcatEmptySeq
            <4> QED BY <3>1, <4>1, <4>2
        <3>3. CASE i # 1
            <4>1. g[i] = f[i] /\ g[i - 1] = f[i - 1] BY <2>g, <3>3
            <4>2. f[i] = f[i - 1] \o seqs[i] BY <2>3, <2>n, <3>3
            <4> QED BY <2>5, <3>1, <4>1, <4>2
        <3> QED BY <3>2, <3>3
    <2> DEFINE S == {i \in Nat : i <= m => g[i] \in Seq(W)}
    <2>6. 0 \in S BY <2>g, EmptySeq
    <2>7. ASSUME NEW i \in Nat, i \in S PROVE i + 1 \in S
        <3> SUFFICES ASSUME i + 1 <= m PROVE g[i + 1] \in Seq(W) OBVIOUS
        <3>1. i <= m /\ (i + 1) - 1 = i /\ i + 1 \in 1 .. m OBVIOUS
        <3>2. g[i] \in Seq(W) BY <2>7, <3>1
        <3> QED BY <2>5, <3>1, <3>2
    <2> HIDE DEF S
    <2>8. \A i \in Nat : i \in S BY <2>6, <2>7, NatSetInduction
    <2>9. \A i \in 0 .. m : g[i] \in Seq(W) BY <2>8 DEF S
    <2>t. g \in [0 .. n -> Seq(W)] BY <2>4, <2>9, <2>n
    <2>c. Concats(g, seqs)
        <3>1. \A i \in 1 .. m : i - 1 \in 0 .. m OBVIOUS
        <3>2. \A i \in 1 .. m : g[i] = g[i - 1] \o seqs[i] BY <2>5, <2>9, <3>1
        <3> QED BY <2>g, <2>n, <3>2 DEF Concats, n
    <2>10. FlattenSeq(seqs) = g[n] BY <1>0, <1>2, <2>2, <2>g, <2>n
    <2> QED BY <2>t, <2>c, <2>10 DEF n
<1> QED BY <1>1, <1>2

(* Induction on sequences: the empty one, and appending an element. *)
LEMMA SeqSetInduction ==
    ASSUME NEW W, NEW S, <<>> \in S,
           \A s \in Seq(W), e \in W : s \in S => Append(s, e) \in S
    PROVE  \A s \in Seq(W) : s \in S
<1> DEFINE T == {n \in Nat : \A s \in Seq(W) : Len(s) = n => s \in S}
<1>1. 0 \in T
    <2>1. \A s \in Seq(W) : Len(s) = 0 => s = <<>> BY EmptySeq
    <2> QED BY <2>1
<1>2. ASSUME NEW n \in Nat, n \in T PROVE n + 1 \in T
    <2> SUFFICES ASSUME NEW s \in Seq(W), Len(s) = n + 1 PROVE s \in S OBVIOUS
    <2>1. s # <<>> BY EmptySeq
    <2>2. PICK t \in Seq(W), e \in W : s = Append(t, e)
        BY <2>1, SequenceEmptyOrAppend
    <2>3. Len(t) = n BY <2>2
    <2> QED BY <1>2, <2>2, <2>3
<1> HIDE DEF T
<1>3. \A n \in Nat : n \in T BY <1>1, <1>2, NatSetInduction
<1> QED BY <1>3 DEF T

(* Flattening sequences over W gives a sequence over W. *)
LEMMA FlattenType ==
    ASSUME NEW W, NEW seqs \in Seq(Seq(W))
    PROVE  FlattenSeq(seqs) \in Seq(W)
<1>1. Len(seqs) \in Nat OBVIOUS
<1> QED BY <1>1, FlattenByPrefix

(* Flattening nothing gives nothing. *)
LEMMA FlattenEmpty == FlattenSeq(<<>>) = <<>>
BY DEF FlattenSeq

(* Flattening one sequence more appends it. *)
LEMMA FlattenAppend ==
    ASSUME NEW W, NEW seqs \in Seq(Seq(W)), NEW x \in Seq(W)
    PROVE  FlattenSeq(Append(seqs, x)) = FlattenSeq(seqs) \o x
<1> DEFINE n == Len(seqs)
<1>0. n \in Nat OBVIOUS
<1>1. PICK g \in [0 .. n -> Seq(W)] :
          Concats(g, seqs) /\ FlattenSeq(seqs) = g[n]
    BY FlattenByPrefix
<1>2. PICK t \in Seq(Seq(W)) : t = Append(seqs, x) BY AppendProperties
<1>3. /\ Len(t) = n + 1 /\ t[n + 1] = x
      /\ \A i \in 1 .. n : t[i] = seqs[i]
    BY <1>2, AppendProperties
<1>4. PICK h \in [0 .. Len(t) -> Seq(W)] : Concats(h, t) /\ FlattenSeq(t) = h[Len(t)]
    BY FlattenByPrefix
<1> HIDE DEF n
<1> DEFINE S == {i \in Nat : i <= n => h[i] = g[i]}
<1>5. 0 \in S BY <1>1, <1>4 DEF Concats
<1>6. ASSUME NEW i \in Nat, i \in S PROVE i + 1 \in S
    <2> SUFFICES ASSUME i + 1 <= n PROVE h[i + 1] = g[i + 1] OBVIOUS
    <2>1. i + 1 \in 1 .. n /\ i + 1 \in 1 .. Len(t) /\ (i + 1) - 1 = i /\ h[i] = g[i]
        BY <1>0, <1>3, <1>6
    <2>2. h[i + 1] = h[i] \o t[i + 1] BY <1>4, <2>1 DEF Concats
    <2>3. g[i + 1] = g[i] \o seqs[i + 1] BY <1>1, <2>1 DEF Concats, n
    <2>4. t[i + 1] = seqs[i + 1] BY <1>3, <2>1
    <2> QED BY <2>1, <2>2, <2>3, <2>4
<1> HIDE DEF S
<1>7. n \in S BY <1>0, <1>5, <1>6, NatSetInduction
<1>8. h[n] = g[n] BY <1>0, <1>7 DEF S
<1>9. h[n + 1] = h[n] \o x
    <2>1. n + 1 \in 1 .. Len(t) /\ (n + 1) - 1 = n BY <1>0, <1>3
    <2> QED BY <1>3, <1>4, <2>1 DEF Concats
<1> QED BY <1>1, <1>2, <1>3, <1>4, <1>8, <1>9

(* A text with every word w replaced by e[w]. *)
Bind(e, s) == FlattenSeq([j \in DOMAIN s |-> e[s[j]]])

(* Substitution goes word by word. *)
LEMMA BindAppend ==
    ASSUME NEW W, NEW e \in [W -> Seq(W)], NEW s \in Seq(W)
    PROVE  /\ Bind(e, s) \in Seq(W)
           /\ \A w \in W : Bind(e, Append(s, w)) = Bind(e, s) \o e[w]
<1> DEFINE M(t) == [j \in DOMAIN t |-> e[t[j]]]
<1>1. ASSUME NEW t \in Seq(W)
      PROVE  M(t) \in Seq(Seq(W)) /\ Len(M(t)) = Len(t) /\ DOMAIN M(t) = 1 .. Len(t)
    <2>1. DOMAIN t = 1 .. Len(t) /\ Len(t) \in Nat OBVIOUS
    <2>2. M(t) \in [1 .. Len(t) -> Seq(W)] BY <2>1
    <2>3. M(t) \in Seq(Seq(W)) BY <2>1, <2>2, SeqDef
    <2> QED BY <2>1, <2>3
<1>2. ASSUME NEW w \in W PROVE M(Append(s, w)) = Append(M(s), e[w])
    <2>1. PICK t \in Seq(W) : t = Append(s, w) BY AppendProperties
    <2>2. Len(t) = Len(s) + 1 /\ t[Len(s) + 1] = w /\ \A i \in 1 .. Len(s) : t[i] = s[i]
        BY <2>1, AppendProperties
    <2>3. PICK u \in Seq(Seq(W)) : u = Append(M(s), e[w]) BY <1>1, AppendProperties
    <2>4. /\ Len(u) = Len(s) + 1 /\ u[Len(s) + 1] = e[w]
          /\ \A i \in 1 .. Len(s) : u[i] = M(s)[i]
        BY <1>1, <2>3, AppendProperties
    <2>5. /\ \A i \in 1 .. Len(s) : M(s)[i] = e[s[i]]
          /\ \A i \in 1 .. Len(t) : M(t)[i] = e[t[i]]
        OBVIOUS
    <2>6. M(t) \in Seq(Seq(W)) /\ Len(M(t)) = Len(t) BY <1>1
    <2> HIDE DEF M
    <2>7. ASSUME NEW i \in 1 .. Len(u) PROVE M(t)[i] = u[i]
        <3>1. Len(s) \in Nat /\ i \in 1 .. Len(t) BY <2>2, <2>4
        <3>4. M(t)[i] = e[t[i]] BY <2>5, <3>1
        <3>2. CASE i \in 1 .. Len(s) BY <2>2, <2>4, <2>5, <3>2, <3>4
        <3>3. CASE i = Len(s) + 1 BY <2>2, <2>4, <3>3, <3>4
        <3> QED BY <2>4, <3>1, <3>2, <3>3
    <2>8. M(t) = u BY <2>2, <2>4, <2>6, <2>7, SeqEqual
    <2> QED BY <2>1, <2>3, <2>8
<1>3. \A t : Bind(e, t) = FlattenSeq(M(t)) BY DEF Bind
<1> HIDE DEF M
<1>4. M(s) \in Seq(Seq(W)) BY <1>1
<1>5. Bind(e, s) \in Seq(W) BY <1>3, <1>4, FlattenType
<1>6. ASSUME NEW w \in W PROVE Bind(e, Append(s, w)) = Bind(e, s) \o e[w]
    <2>1. Bind(e, Append(s, w)) = FlattenSeq(Append(M(s), e[w])) BY <1>2, <1>3
    <2>2. FlattenSeq(Append(M(s), e[w])) = FlattenSeq(M(s)) \o e[w]
        BY <1>4, FlattenAppend
    <2> QED BY <1>3, <2>1, <2>2
<1> QED BY <1>5, <1>6

(* There is nothing to replace in the empty text. *)
LEMMA BindEmpty == ASSUME NEW e PROVE Bind(e, <<>>) = <<>>
BY FlattenEmpty DEF Bind

(* What SMT needs to know of texts, with their definition hidden. *)
LEMMA TextFacts ==
    /\ <<>> \in Text
    /\ \A s \in Text : s \o <<>> = s /\ <<>> \o s = s
    /\ \A s, t \in Text : s \o t \in Text
    /\ \A w \in Word : <<w>> \in Text
    /\ \A s \in Text, w \in Word : Append(s, w) = s \o <<w>>
<1> USE DEF Text
<1>1. <<>> \in Text BY EmptySeq
<1>2. \A s \in Text : s \o <<>> = s /\ <<>> \o s = s BY ConcatEmptySeq
<1>3. \A s, t \in Text : s \o t \in Text BY ConcatProperties
<1>4. ASSUME NEW w \in Word PROVE <<w>> \in Text
    <2>1. <<w>> \in [1 .. 1 -> Word] OBVIOUS
    <2> QED BY <2>1, SeqDef
<1>5. \A s \in Text, w \in Word : Append(s, w) = s \o <<w>> BY AppendIsConcat
<1> QED BY <1>1, <1>2, <1>3, <1>4, <1>5

(* Three texts can be concatenated either way. *)
Associates(x, y, z) == (x \o y) \o z = x \o (y \o z)

(* Concatenation of texts is associative. *)
LEMMA TextAssociative ==
    ASSUME NEW x \in Text, NEW y \in Text, NEW z \in Text
    PROVE  Associates(x, y, z)
BY ConcatAssociative DEF Associates, Text

(* A text for each word. *)
Substitution == [Word -> Text]

(* What Bind does to the texts of TextFacts. *)
LEMMA BindFacts ==
    ASSUME NEW e \in Substitution
    PROVE  /\ \A w \in Word : e[w] \in Text
           /\ \A s \in Text : Bind(e, s) \in Text
           /\ \A s \in Text, w \in Word : Bind(e, s \o <<w>>) = Bind(e, s) \o e[w]
           /\ Bind(e, <<>>) = <<>>
           /\ \A w \in Word : Bind(e, <<w>>) = e[w]
<1>1. e \in [Word -> Seq(Word)] BY DEF Substitution, Text
<1>2. \A w \in Word : e[w] \in Text BY DEF Substitution
<1>3. \A s \in Text : Bind(e, s) \in Text BY <1>1, BindAppend DEF Text
<1>4. ASSUME NEW s \in Text, NEW w \in Word
      PROVE  Bind(e, s \o <<w>>) = Bind(e, s) \o e[w]
    <2>1. Bind(e, Append(s, w)) = Bind(e, s) \o e[w] BY <1>1, BindAppend DEF Text
    <2> QED BY <2>1, TextFacts
<1>5. Bind(e, <<>>) = <<>> BY BindEmpty
<1>6. ASSUME NEW w \in Word PROVE Bind(e, <<w>>) = e[w]
    <2>1. <<>> \o <<w>> = <<w>> /\ <<>> \o e[w] = e[w] BY <1>2, TextFacts
    <2>2. Bind(e, <<>> \o <<w>>) = Bind(e, <<>>) \o e[w] BY <1>4, TextFacts
    <2> QED BY <1>5, <2>1, <2>2
<1> QED BY <1>2, <1>3, <1>4, <1>5, <1>6

(* Induction on texts. *)
LEMMA TextInduction ==
    ASSUME NEW S, <<>> \in S,
           \A s \in Text, w \in Word : s \in S => s \o <<w>> \in S
    PROVE  \A s \in Text : s \in S
<1>1. ASSUME NEW s \in Seq(Word), NEW w \in Word, s \in S PROVE Append(s, w) \in S
    <2>1. s \in Text BY DEF Text
    <2>2. Append(s, w) = s \o <<w>> BY <2>1, TextFacts
    <2> QED BY <1>1, <2>1, <2>2
<1> QED BY <1>1, SeqSetInduction DEF Text

(* Substituting in a concatenation. *)
LEMMA BindConcat ==
    ASSUME NEW e \in Substitution, NEW s \in Text, NEW t \in Text
    PROVE  Bind(e, s \o t) = Bind(e, s) \o Bind(e, t)
<1> DEFINE S == {u \in Text : Bind(e, s \o u) = Bind(e, s) \o Bind(e, u)}
<1>0. Bind(e, s) \in Text BY BindFacts
<1>1. <<>> \in S
    <2>1. s \o <<>> = s /\ Bind(e, s) \o <<>> = Bind(e, s) BY <1>0, TextFacts
    <2> QED BY <2>1, TextFacts, BindFacts
<1>2. ASSUME NEW u \in Text, NEW w \in Word, u \in S PROVE u \o <<w>> \in S
    <2>0. /\ e[w] \in Text /\ Bind(e, u) \in Text /\ s \o u \in Text
          /\ <<w>> \in Text /\ u \o <<w>> \in Text
        BY BindFacts, TextFacts
    <2>1. s \o (u \o <<w>>) = (s \o u) \o <<w>>
        <3>1. Associates(s, u, <<w>>) BY <2>0, TextAssociative
        <3> QED BY <3>1 DEF Associates
    <2>2. Bind(e, (s \o u) \o <<w>>) = Bind(e, s \o u) \o e[w] BY <2>0, BindFacts
    <2>3. Bind(e, u \o <<w>>) = Bind(e, u) \o e[w] BY BindFacts
    <2>4. Bind(e, s \o u) = Bind(e, s) \o Bind(e, u) BY <1>2
    <2>5. (Bind(e, s) \o Bind(e, u)) \o e[w] = Bind(e, s) \o (Bind(e, u) \o e[w])
        <3>1. Associates(Bind(e, s), Bind(e, u), e[w]) BY <1>0, <2>0, TextAssociative
        <3> QED BY <3>1 DEF Associates
    <2> QED BY <2>0, <2>1, <2>2, <2>3, <2>4, <2>5
<1> HIDE DEF S
<1>3. t \in S BY <1>1, <1>2, TextInduction
<1> QED BY <1>3 DEF S

(* Substituting twice is substituting once, by what the second makes of    *)
(* the texts of the first.                                                 *)
LEMMA BindBind ==
    ASSUME NEW d \in Substitution, NEW e \in Substitution, NEW b \in Substitution,
           \A w \in Word : b[w] = Bind(e, d[w]),
           NEW s \in Text
    PROVE  Bind(e, Bind(d, s)) = Bind(b, s)
<1> DEFINE S == {u \in Text : Bind(e, Bind(d, u)) = Bind(b, u)}
<1>1. <<>> \in S BY TextFacts, BindEmpty
<1>2. ASSUME NEW u \in Text, NEW w \in Word, u \in S PROVE u \o <<w>> \in S
    <2>1. d[w] \in Text /\ Bind(d, u) \in Text BY BindFacts
    <2>2. Bind(d, u \o <<w>>) = Bind(d, u) \o d[w] BY BindFacts
    <2>3. Bind(b, u \o <<w>>) = Bind(b, u) \o b[w] BY BindFacts
    <2>4. Bind(e, Bind(d, u) \o d[w]) = Bind(e, Bind(d, u)) \o Bind(e, d[w])
        BY <2>1, BindConcat
    <2>5. u \o <<w>> \in Text BY TextFacts
    <2>6. Bind(e, Bind(d, u)) = Bind(b, u) BY <1>2
    <2> QED BY <2>2, <2>3, <2>4, <2>5, <2>6
<1> HIDE DEF S
<1>3. s \in S BY <1>1, <1>2, TextInduction
<1> QED BY <1>3 DEF S

(* Replacing every word by itself changes nothing. *)
LEMMA BindUnit ==
    ASSUME NEW e \in Substitution, \A w \in Word : e[w] = <<w>>, NEW s \in Text
    PROVE  Bind(e, s) = s
<1> DEFINE S == {u \in Text : Bind(e, u) = u}
<1>1. <<>> \in S BY TextFacts, BindEmpty
<1>2. ASSUME NEW u \in Text, NEW w \in Word, u \in S PROVE u \o <<w>> \in S
    <2>1. Bind(e, u \o <<w>>) = Bind(e, u) \o e[w] BY BindFacts
    <2>2. u \o <<w>> \in Text BY TextFacts
    <2> QED BY <1>2, <2>1, <2>2
<1> HIDE DEF S
<1>3. s \in S BY <1>1, <1>2, TextInduction
<1> QED BY <1>3 DEF S

-----------------------------------------------------------------------------
(* What Interpolate returns *)

(* The number of keys. *)
NumKeys == Len(SortedKeys)

(* SortedKeys lists every key once, so IndexOf is its inverse. *)
LEMMA KeyIndex ==
    /\ NumKeys \in Nat
    /\ DOMAIN SortedKeys = 1 .. NumKeys
    /\ \A k \in Keys : k \in Word /\ IndexOf(k) \in 1 .. NumKeys
                       /\ SortedKeys[IndexOf(k)] = k
    /\ \A i \in 1 .. NumKeys : SortedKeys[i] \in Keys /\ IndexOf(SortedKeys[i]) = i
<1>1. NumKeys \in Nat /\ DOMAIN SortedKeys = 1 .. NumKeys
      /\ \A i \in 1 .. NumKeys : SortedKeys[i] \in Keys
    BY KeysAssumption DEF NumKeys
<1>2. ASSUME NEW k \in Keys
      PROVE  IndexOf(k) \in 1 .. NumKeys /\ SortedKeys[IndexOf(k)] = k
    <2>1. \E i \in DOMAIN SortedKeys : SortedKeys[i] = k BY KeysAssumption
    <2> QED BY <1>1, <2>1 DEF IndexOf
<1>3. ASSUME NEW i \in 1 .. NumKeys PROVE IndexOf(SortedKeys[i]) = i
    <2>1. SortedKeys[IndexOf(SortedKeys[i])] = SortedKeys[i] BY <1>1, <1>2
    <2> QED BY <1>1, <1>2, <2>1, KeysAssumption
<1> QED BY <1>1, <1>2, <1>3, KeysAssumption

(* The substitution of ReplaceFrom. *)
From(n, f) ==
    [w \in Word |-> IF w \in Keys /\ IndexOf(w) >= n THEN f[IndexOf(w)] ELSE <<w>>]

(* The substitution of ReplaceToken. *)
Token(k, v) == [w \in Word |-> IF w = k THEN v ELSE <<w>>]

(* A text consists of words. *)
LEMMA TextWords == ASSUME NEW s \in Text PROVE \A j \in DOMAIN s : s[j] \in Word
BY DEF Text

(* ReplaceFrom substitutes. *)
LEMMA ReplaceFromBinds ==
    ASSUME NEW s \in Text, NEW n, NEW f
    PROVE  ReplaceFrom(s, n, f) = Bind(From(n, f), s)
<1>1. \A j \in DOMAIN s : From(n, f)[s[j]] =
          IF s[j] \in Keys /\ IndexOf(s[j]) >= n THEN f[IndexOf(s[j])] ELSE <<s[j]>>
    BY TextWords DEF From
<1>2. [j \in DOMAIN s |-> From(n, f)[s[j]]] =
          [j \in DOMAIN s |-> IF s[j] \in Keys /\ IndexOf(s[j]) >= n
                              THEN f[IndexOf(s[j])] ELSE <<s[j]>>]
    BY <1>1
<1> QED BY <1>2 DEF ReplaceFrom, Bind

(* strings.ReplaceAll substitutes. *)
LEMMA ReplaceTokenBinds ==
    ASSUME NEW s \in Text, NEW k, NEW v
    PROVE  ReplaceToken(s, k, v) = Bind(Token(k, v), s)
<1>1. \A j \in DOMAIN s : Token(k, v)[s[j]] = IF s[j] = k THEN v ELSE <<s[j]>>
    BY TextWords DEF Token
<1>2. [j \in DOMAIN s |-> Token(k, v)[s[j]]] =
          [j \in DOMAIN s |-> IF s[j] = k THEN v ELSE <<s[j]>>]
    BY <1>1
<1> QED BY <1>2 DEF ReplaceToken, Bind

(* From is a substitution if the values of the keys it replaces are texts. *)
LEMMA FromType ==
    ASSUME NEW n \in Nat, NEW f, \A i \in 1 .. NumKeys : i >= n => f[i] \in Text
    PROVE  From(n, f) \in Substitution
<1>1. ASSUME NEW w \in Word
      PROVE  (IF w \in Keys /\ IndexOf(w) >= n THEN f[IndexOf(w)] ELSE <<w>>) \in Text
    BY KeyIndex, TextFacts
<1> QED BY <1>1 DEF From, Substitution

(* Token is a substitution. *)
LEMMA TokenType ==
    ASSUME NEW k, NEW v \in Text
    PROVE  Token(k, v) \in Substitution
<1>1. ASSUME NEW w \in Word PROVE (IF w = k THEN v ELSE <<w>>) \in Text
    BY TextFacts
<1> QED BY <1>1 DEF Token, Substitution

(* The value of the i-th key, if f has those of the later ones. *)
ValueOf(data, f, i) ==
    IF SortedKeys[i] \in DOMAIN data
    THEN ReplaceFrom(data[SortedKeys[i]], i + 1, f)
    ELSE <<SortedKeys[i]>>

(* The value of a key is a text if those of the later ones are. *)
LEMMA ValueType ==
    ASSUME NEW data, IsSession(data), NEW i \in 1 .. NumKeys, NEW f,
           \A j \in 1 .. NumKeys : j >= i + 1 => f[j] \in Text
    PROVE  ValueOf(data, f, i) \in Text
<1>1. CASE SortedKeys[i] \in DOMAIN data
    <2>1. data[SortedKeys[i]] \in Text BY <1>1 DEF IsSession
    <2>2. i + 1 \in Nat OBVIOUS
    <2>3. From(i + 1, f) \in Substitution BY <2>2, FromType
    <2>4. Bind(From(i + 1, f), data[SortedKeys[i]]) \in Text BY <2>1, <2>3, BindFacts
    <2> QED BY <1>1, <2>1, <2>4, ReplaceFromBinds DEF ValueOf
<1>2. CASE SortedKeys[i] \notin DOMAIN data
    <2>1. SortedKeys[i] \in Word BY KeyIndex
    <2> QED BY <1>2, <2>1, TextFacts DEF ValueOf
<1> QED BY <1>1, <1>2

(* The value of a key depends on those of the later ones only. *)
LEMMA ValueDepends ==
    ASSUME NEW data, IsSession(data), NEW i \in 1 .. NumKeys, NEW f, NEW g,
           \A j \in 1 .. NumKeys : j >= i + 1 => f[j] = g[j]
    PROVE  ValueOf(data, f, i) = ValueOf(data, g, i)
<1>1. \A w \in Keys : IndexOf(w) \in 1 .. NumKeys BY KeyIndex
<1>2. From(i + 1, f) = From(i + 1, g)
    <2>1. ASSUME NEW w \in Word
          PROVE  (IF w \in Keys /\ IndexOf(w) >= i + 1 THEN f[IndexOf(w)] ELSE <<w>>)
                 = (IF w \in Keys /\ IndexOf(w) >= i + 1 THEN g[IndexOf(w)] ELSE <<w>>)
        BY <1>1
    <2> QED BY <2>1 DEF From
<1>3. CASE SortedKeys[i] \in DOMAIN data
    <2>1. data[SortedKeys[i]] \in Text BY <1>3 DEF IsSession
    <2> QED BY <1>2, <1>3, <2>1, ReplaceFromBinds DEF ValueOf
<1> QED BY <1>3 DEF ValueOf

(* f has the values of all keys: it solves the equation by which Expansion *)
(* defines them.                                                           *)
IsExpanded(data, f) == f = [i \in DOMAIN SortedKeys |-> ValueOf(data, f, i)]

(* The equation has a solution, built from the last key down. *)
LEMMA ExpandedExists ==
    ASSUME NEW data, IsSession(data)
    PROVE  \E f : IsExpanded(data, f)
<1> DEFINE m == NumKeys
           Above(n, g) == \A i \in 1 .. m : i >= m - n + 1 => g[i] = ValueOf(data, g, i)
           S == {n \in Nat : n <= m => \E g \in [1 .. m -> Text] : Above(n, g)}
<1>0. m \in Nat BY KeyIndex
<1> HIDE DEF m
<1>1. 0 \in S
    <2>1. PICK g : g = [i \in 1 .. m |-> <<>>] OBVIOUS
    <2>2. g \in [1 .. m -> Text] BY <2>1, TextFacts
    <2>3. Above(0, g) BY <1>0
    <2> QED BY <2>2, <2>3
<1>2. ASSUME NEW n \in Nat, n \in S PROVE n + 1 \in S
    <2> SUFFICES ASSUME n + 1 <= m
                 PROVE  \E h \in [1 .. m -> Text] : Above(n + 1, h)
        OBVIOUS
    <2>1. PICK g \in [1 .. m -> Text] : Above(n, g) BY <1>0, <1>2
    <2>2. PICK k \in 1 .. m : k = m - n BY <1>0
    <2>3. ValueOf(data, g, k) \in Text BY <1>0, ValueType DEF m
    <2>4. PICK h : h = [g EXCEPT ![k] = ValueOf(data, g, k)] OBVIOUS
    <2>5. /\ h \in [1 .. m -> Text] /\ h[k] = ValueOf(data, g, k)
          /\ \A i \in 1 .. m : i # k => h[i] = g[i]
        BY <2>3, <2>4
    <2>6. ASSUME NEW i \in 1 .. m, i >= k PROVE h[i] = ValueOf(data, h, i)
        <3>1. \A j \in 1 .. m : j >= i + 1 => g[j] = h[j] BY <1>0, <2>5, <2>6
        <3>2. ValueOf(data, g, i) = ValueOf(data, h, i) BY <3>1, ValueDepends DEF m
        <3>3. CASE i = k BY <2>5, <3>2, <3>3
        <3>4. CASE i # k
            <4>1. i >= m - n + 1 BY <1>0, <2>2, <2>6, <3>4
            <4>2. g[i] = ValueOf(data, g, i) BY <2>1, <4>1
            <4> QED BY <2>5, <3>2, <3>4, <4>2
        <3> QED BY <3>3, <3>4
    <2>7. Above(n + 1, h)
        <3>1. m - (n + 1) + 1 = k BY <1>0, <2>2
        <3> QED BY <2>6, <3>1
    <2> QED BY <2>5, <2>7
<1> HIDE DEF S
<1>3. m \in S BY <1>0, <1>1, <1>2, NatSetInduction
<1>4. PICK g \in [1 .. m -> Text] : Above(m, g) BY <1>0, <1>3 DEF S
<1>5. \A i \in 1 .. m : g[i] = ValueOf(data, g, i) BY <1>0, <1>4
<1>6. IsExpanded(data, g)
    <2>1. DOMAIN SortedKeys = 1 .. m BY KeyIndex DEF m
    <2> QED BY <1>5, <2>1 DEF IsExpanded
<1> QED BY <1>6

(* The values are texts, again from the last key down. *)
LEMMA ExpandedType ==
    ASSUME NEW data, IsSession(data), NEW f, IsExpanded(data, f)
    PROVE  /\ \A i \in 1 .. NumKeys : f[i] = ValueOf(data, f, i)
           /\ \A i \in 1 .. NumKeys : f[i] \in Text
<1> DEFINE m == NumKeys
           S == {n \in Nat : n <= m => \A i \in 1 .. m : i >= m - n + 1 => f[i] \in Text}
<1>0. m \in Nat /\ \A i \in 1 .. m : f[i] = ValueOf(data, f, i)
    BY KeyIndex DEF IsExpanded
<1> HIDE DEF m
<1>1. 0 \in S BY <1>0
<1>2. ASSUME NEW n \in Nat, n \in S PROVE n + 1 \in S
    <2> SUFFICES ASSUME n + 1 <= m, NEW i \in 1 .. m, i >= m - (n + 1) + 1
                 PROVE  f[i] \in Text
        OBVIOUS
    <2>1. \A j \in 1 .. m : j >= m - n + 1 => f[j] \in Text BY <1>0, <1>2
    <2>2. \A j \in 1 .. m : j >= i + 1 => j >= m - n + 1 BY <1>0
    <2>3. \A j \in 1 .. m : j >= i + 1 => f[j] \in Text BY <2>1, <2>2
    <2>4. ValueOf(data, f, i) \in Text BY <2>3, ValueType DEF m
    <2> QED BY <1>0, <2>4
<1> HIDE DEF S
<1>3. m \in S BY <1>0, <1>1, <1>2, NatSetInduction
<1>4. \A i \in 1 .. m : f[i] \in Text BY <1>0, <1>3 DEF S
<1> QED BY <1>0, <1>4 DEF m

(* Expansion uses a solution of the equation. *)
LEMMA ExpansionChosen ==
    ASSUME NEW data, IsSession(data), NEW s
    PROVE  \E f : IsExpanded(data, f) /\ Expansion(data, s) = ReplaceFrom(s, 1, f)
<1>1. PICK f : f = CHOOSE g : IsExpanded(data, g) OBVIOUS
<1>2. IsExpanded(data, f) BY <1>1, ExpandedExists
<1>3. Expansion(data, s) = ReplaceFrom(s, 1, f)
    BY <1>1 DEF Expansion, IsExpanded, ValueOf
<1> QED BY <1>2, <1>3

(* One pass of Interpolate. *)
Pass(data, t, i) ==
    IF KeyAt(i) \in DOMAIN data THEN ReplaceToken(t, KeyAt(i), data[KeyAt(i)]) ELSE t

(* A pass of Interpolate makes a text of a text. *)
LEMMA PassType ==
    ASSUME NEW data, IsSession(data), NEW t \in Text, NEW i \in 1 .. NumKeys
    PROVE  Pass(data, t, i) \in Text
<1>1. CASE KeyAt(i) \in DOMAIN data
    <2>1. data[KeyAt(i)] \in Text BY <1>1 DEF IsSession
    <2>2. Bind(Token(KeyAt(i), data[KeyAt(i)]), t) \in Text
        BY <2>1, TokenType, BindFacts
    <2> QED BY <1>1, <2>2, ReplaceTokenBinds DEF Pass
<1>2. CASE KeyAt(i) \notin DOMAIN data BY <1>2 DEF Pass
<1> QED BY <1>1, <1>2

(* A pass expands the tokens of its key, and leaves those of later keys.   *)
LEMMA PassExpands ==
    ASSUME NEW data, IsSession(data), NEW t \in Text, NEW i \in 1 .. NumKeys,
           NEW f, \A j \in 1 .. NumKeys : f[j] = ValueOf(data, f, j) /\ f[j] \in Text
    PROVE  Bind(From(i + 1, f), Pass(data, t, i)) = Bind(From(i, f), t)
<1> DEFINE k == SortedKeys[i]
           e == From(i + 1, f)
           b == From(i, f)
<1>1. k \in Keys /\ k \in Word /\ IndexOf(k) = i /\ KeyAt(i) = k
    BY KeyIndex DEF KeyAt
<1>2. e \in Substitution /\ b \in Substitution BY FromType
<1>3. ASSUME NEW w \in Word, w # k PROVE b[w] = e[w]
    <2>1. e[w] = IF w \in Keys /\ IndexOf(w) >= i + 1 THEN f[IndexOf(w)] ELSE <<w>>
        BY DEF From
    <2>2. b[w] = IF w \in Keys /\ IndexOf(w) >= i THEN f[IndexOf(w)] ELSE <<w>>
        BY DEF From
    <2>3. w \in Keys => IndexOf(w) \in Int /\ IndexOf(w) # i BY <1>3, KeyIndex
    <2>4. w \in Keys => (IndexOf(w) >= i <=> IndexOf(w) >= i + 1) BY <2>3
    <2> QED BY <2>1, <2>2, <2>4
<1>4. b[k] = f[i]
    <2>1. b[k] = IF k \in Keys /\ IndexOf(k) >= i THEN f[IndexOf(k)] ELSE <<k>>
        BY <1>1 DEF From
    <2> QED BY <1>1, <2>1
<1>5. CASE k \in DOMAIN data
    <2>1. PICK v \in Text : v = data[k] BY <1>5 DEF IsSession
    <2>2. PICK d \in Substitution : d = Token(k, v) BY TokenType
    <2>3. Pass(data, t, i) = Bind(d, t)
        BY <1>1, <1>5, <2>1, <2>2, ReplaceTokenBinds DEF Pass
    <2>4. f[i] = Bind(e, v) BY <1>5, <2>1, ReplaceFromBinds DEF ValueOf
    <2>5. ASSUME NEW w \in Word PROVE b[w] = Bind(e, d[w])
        <3>1. d[w] = IF w = k THEN v ELSE <<w>> BY <2>2 DEF Token
        <3>2. CASE w = k BY <1>4, <2>4, <3>1, <3>2
        <3>3. CASE w # k BY <1>2, <1>3, <3>1, <3>3, BindFacts
        <3> QED BY <3>2, <3>3
    <2> HIDE DEF e, b
    <2>6. Bind(e, Bind(d, t)) = Bind(b, t) BY <1>2, <2>5, BindBind
    <2> QED BY <2>3, <2>6 DEF e, b
<1>6. CASE k \notin DOMAIN data
    <2>1. Pass(data, t, i) = t BY <1>1, <1>6 DEF Pass
    <2>2. f[i] = <<k>> BY <1>6 DEF ValueOf
    <2>3. e[k] = <<k>>
        <3>1. e[k] = IF k \in Keys /\ IndexOf(k) >= i + 1 THEN f[IndexOf(k)] ELSE <<k>>
            BY <1>1 DEF From
        <3> QED BY <1>1, <3>1
    <2>4. \A w \in Word : b[w] = e[w] BY <1>3, <1>4, <2>2, <2>3
    <2>5. b = e BY <1>2, <2>4 DEF Substitution
    <2> QED BY <2>1, <2>5
<1> QED BY <1>5, <1>6

(* The texts after each pass. *)
IsPasses(data, s, p) ==
    p = [i \in 0 .. Len(SortedKeys) |-> IF i = 0 THEN s ELSE Pass(data, p[i - 1], i)]

(* There are such texts: a pass can always be made. *)
LEMMA PassesExist ==
    ASSUME NEW data, IsSession(data), NEW s \in Text
    PROVE  \E p : IsPasses(data, s, p)
<1> DEFINE F == [i \in 1 .. NumKeys |-> [t \in Text |-> Pass(data, t, i)]]
<1>0. NumKeys \in Nat BY KeyIndex
<1>1. F \in [1 .. NumKeys -> [Text -> Text]] BY PassType
<1>2. Iterable(s, F, NumKeys, Text) BY <1>0, <1>1 DEF Iterable
<1> HIDE DEF F
<1>3. PICK p : Iteration(p, s, F, NumKeys, Text) BY <1>2, IterationExists
<1>4. p \in [0 .. NumKeys -> Text] /\ p[0] = s BY <1>3 DEF Iteration
<1>5. ASSUME NEW i \in 1 .. NumKeys PROVE p[i] = Pass(data, p[i - 1], i)
    <2>1. p[i] = F[i][p[i - 1]] BY <1>3 DEF Iteration
    <2>2. p[i - 1] \in Text BY <1>0, <1>4
    <2> QED BY <2>1, <2>2 DEF F
<1>6. p = [i \in 0 .. NumKeys |-> IF i = 0 THEN s ELSE Pass(data, p[i - 1], i)]
    BY <1>0, <1>4, <1>5
<1> QED BY <1>6 DEF IsPasses, NumKeys

(* Interpolate is Expansion, for every session and text: what is left to   *)
(* expand after n passes, the keys from n + 1 on, is invariant.            *)
LEMMA InterpolateExpands ==
    ASSUME NEW data, IsSession(data), NEW s \in Text
    PROVE  Interpolate(data, s) = Expansion(data, s)
<1> DEFINE m == NumKeys
<1>0. m \in Nat BY KeyIndex
<1>1. PICK f : IsExpanded(data, f) /\ Expansion(data, s) = ReplaceFrom(s, 1, f)
    BY ExpansionChosen
<1>2. \A j \in 1 .. m : f[j] = ValueOf(data, f, j) /\ f[j] \in Text
    BY <1>1, ExpandedType
<1>3. Expansion(data, s) = Bind(From(1, f), s) BY <1>1, ReplaceFromBinds
<1>4. CASE ToSet(s) \cap Keys = {}
    <2>1. Interpolate(data, s) = s BY <1>4 DEF Interpolate
    <2>2. PICK u \in Substitution : u = [w \in Word |-> <<w>>]
        BY TextFacts DEF Substitution
    <2>3. \A j \in DOMAIN s : s[j] \in Word /\ s[j] \notin Keys
        BY <1>4, TextWords DEF ToSet
    <2>4. \A j \in DOMAIN s : From(1, f)[s[j]] = u[s[j]] BY <2>2, <2>3 DEF From
    <2>5. Bind(From(1, f), s) = Bind(u, s) BY <2>4 DEF Bind
    <2>6. Bind(u, s) = s BY <2>2, BindUnit
    <2> QED BY <1>3, <2>1, <2>5, <2>6
<1>5. CASE ToSet(s) \cap Keys # {}
    <2>1. PICK p : p = CHOOSE q : IsPasses(data, s, q) OBVIOUS
    <2>2. IsPasses(data, s, p) BY <2>1, PassesExist
    <2>3. Interpolate(data, s) = p[m]
        BY <1>5, <2>1 DEF Interpolate, IsPasses, Pass, NumKeys
    <2>4. p[0] = s /\ \A i \in 1 .. m : p[i] = Pass(data, p[i - 1], i)
        BY <1>0, <2>2 DEF IsPasses, NumKeys
    <2> HIDE DEF m
    <2> DEFINE S == {n \in Nat : n <= m => /\ p[n] \in Text
                                           /\ Bind(From(n + 1, f), p[n]) = Bind(From(1, f), s)}
    <2>5. 0 \in S
        <3>1. 0 + 1 = 1 OBVIOUS
        <3> QED BY <2>4, <3>1
    <2>6. ASSUME NEW n \in Nat, n \in S PROVE n + 1 \in S
        <3> SUFFICES ASSUME n + 1 <= m
                     PROVE  /\ p[n + 1] \in Text
                            /\ Bind(From((n + 1) + 1, f), p[n + 1]) = Bind(From(1, f), s)
            OBVIOUS
        <3>1. p[n] \in Text /\ Bind(From(n + 1, f), p[n]) = Bind(From(1, f), s)
            BY <1>0, <2>6
        <3>2. PICK i \in 1 .. m : i = n + 1 /\ i - 1 = n BY <1>0
        <3>3. p[i] = Pass(data, p[n], i) BY <2>4, <3>2
        <3>4. p[i] \in Text BY <3>1, <3>3, PassType DEF m
        <3>5. Bind(From(i + 1, f), Pass(data, p[n], i)) = Bind(From(i, f), p[n])
            BY <1>2, <3>1, PassExpands DEF m
        <3> QED BY <3>1, <3>2, <3>3, <3>4, <3>5
    <2> HIDE DEF S
    <2>7. m \in S BY <1>0, <2>5, <2>6, NatSetInduction
    <2>8. p[m] \in Text /\ Bind(From(m + 1, f), p[m]) = Bind(From(1, f), s)
        BY <1>0, <2>7 DEF S
    <2>9. From(m + 1, f) \in Substitution BY <1>0, FromType DEF m
    <2>10. ASSUME NEW w \in Word PROVE From(m + 1, f)[w] = <<w>>
        <3>1. w \in Keys => ~(IndexOf(w) >= m + 1) BY <1>0, KeyIndex DEF m
        <3> QED BY <3>1 DEF From
    <2>11. Bind(From(m + 1, f), p[m]) = p[m] BY <2>8, <2>9, <2>10, BindUnit
    <2> QED BY <1>3, <2>3, <2>8, <2>11
<1> QED BY <1>4, <1>5

-----------------------------------------------------------------------------
(* What extractVariables finds *)

(* The first i names of a path. *)
Prefix(s, i) == SubSeq(s, 1, i)

(* A path is built from its prefixes, name by name. *)
LEMMA PrefixFacts ==
    ASSUME NEW s \in Text
    PROVE  /\ Prefix(s, 0) = <<>>
           /\ Prefix(s, Len(s)) = s
           /\ \A i \in 0 .. Len(s) : Prefix(s, i) \in Text
           /\ \A i \in 1 .. Len(s) : Prefix(s, i) = Append(Prefix(s, i - 1), s[i])
<1> USE DEF Text, Prefix
<1>1. Prefix(s, 0) = <<>> OBVIOUS
<1>2. Prefix(s, Len(s)) = s OBVIOUS
<1>3. \A i \in 0 .. Len(s) : Prefix(s, i) \in Text OBVIOUS
<1>4. ASSUME NEW i \in 1 .. Len(s)
      PROVE  Prefix(s, i) = Append(Prefix(s, i - 1), s[i])
    OBVIOUS
<1> QED BY <1>1, <1>2, <1>3, <1>4

(* What has a field in a document is an object in it. *)
LEMMA DocumentClosed ==
    ASSUME NEW doc, IsDocument(doc), NEW at \in Text, NEW name \in Word,
           Append(at, name) \in DOMAIN doc
    PROVE  at \in DOMAIN doc /\ doc[at].object
<1>1. PICK t : t = Append(at, name) OBVIOUS
<1>2. t \in Text /\ Len(t) > 0 /\ Front(t) = at BY <1>1 DEF Text, Front
<1> QED BY <1>1, <1>2 DEF IsDocument

(* The places reached along a path. *)
Places == [found : BOOLEAN, at : Text]

(* c has the places that jsonPathLookup reaches, part by part. *)
IsWalk(doc, path, c) ==
    c = [i \in 0 .. Len(path.parts) |->
            IF i = 0 THEN [found |-> path.rooted, at |-> <<>>]
            ELSE Field(doc, c[i - 1], path.parts[i])]

(* Field leads from place to place. *)
LEMMA FieldType ==
    ASSUME NEW doc, NEW c \in Places, NEW name \in Word
    PROVE  Field(doc, c, name) \in Places
<1>1. NotFound \in Places BY TextFacts DEF NotFound, Places
<1>2. Append(c.at, name) \in Text BY DEF Places, Text
<1>3. [found |-> TRUE, at |-> Append(c.at, name)] \in Places BY <1>2 DEF Places
<1> QED BY <1>1, <1>3 DEF Field

(* A path is made of names. *)
LEMMA PathFacts ==
    ASSUME NEW path \in JSONPaths
    PROVE  /\ path.rooted \in BOOLEAN
           /\ path.parts \in Text
           /\ Len(path.parts) \in Nat
           /\ \A i \in 1 .. Len(path.parts) : path.parts[i] \in Word
<1>1. path.rooted \in BOOLEAN /\ path.parts \in Seq(Word) BY DEF JSONPaths
<1> QED BY <1>1 DEF Text

(* There are such places for every path. *)
LEMMA WalkExists ==
    ASSUME NEW doc, NEW path \in JSONPaths
    PROVE  \E c : IsWalk(doc, path, c)
<1> DEFINE n == Len(path.parts)
           F == [i \in 1 .. n |-> [c \in Places |-> Field(doc, c, path.parts[i])]]
<1>0. n \in Nat BY PathFacts
<1>1. PICK a \in Places : a = [found |-> path.rooted, at |-> <<>>]
    BY PathFacts, TextFacts DEF Places
<1>2. F \in [1 .. n -> [Places -> Places]] BY FieldType, PathFacts
<1>3. Iterable(a, F, n, Places) BY <1>0, <1>2 DEF Iterable
<1> HIDE DEF F
<1>4. PICK c : Iteration(c, a, F, n, Places) BY <1>3, IterationExists
<1>5. c \in [0 .. n -> Places] /\ c[0] = a BY <1>4 DEF Iteration
<1>6. ASSUME NEW i \in 1 .. n PROVE c[i] = Field(doc, c[i - 1], path.parts[i])
    <2>1. c[i] = F[i][c[i - 1]] BY <1>4 DEF Iteration
    <2>2. c[i - 1] \in Places BY <1>0, <1>5
    <2> QED BY <2>1, <2>2 DEF F
<1>7. c = [i \in 0 .. n |-> IF i = 0 THEN a ELSE Field(doc, c[i - 1], path.parts[i])]
    BY <1>0, <1>5, <1>6
<1> QED BY <1>1, <1>7 DEF IsWalk

(* jsonPathLookup finds exactly what is in the document at the path. *)
LEMMA LookupFinds ==
    ASSUME NEW doc, IsDocument(doc), NEW path \in JSONPaths
    PROVE  /\ jsonPathLookup(doc, path).found
                 <=> path.rooted /\ path.parts \in DOMAIN doc
           /\ jsonPathLookup(doc, path).found =>
                 jsonPathLookup(doc, path).at = path.parts
<1> DEFINE n == Len(path.parts)
<1>0. n \in Nat /\ path.rooted \in BOOLEAN BY PathFacts
<1>1. PICK c : c = CHOOSE d : IsWalk(doc, path, d) OBVIOUS
<1>2. IsWalk(doc, path, c) BY <1>1, WalkExists
<1>3. jsonPathLookup(doc, path) = c[n] BY <1>1 DEF jsonPathLookup, IsWalk
<1>4. /\ c[0] = [found |-> path.rooted, at |-> <<>>]
      /\ \A i \in 1 .. n : c[i] = Field(doc, c[i - 1], path.parts[i])
    BY <1>0, <1>2 DEF IsWalk
<1>5. PICK P : P = [i \in 0 .. n |-> Prefix(path.parts, i)] OBVIOUS
<1>6. /\ P[0] = <<>> /\ P[n] = path.parts
      /\ \A i \in 0 .. n : P[i] \in Text
      /\ \A i \in 1 .. n : P[i] = Append(P[i - 1], path.parts[i])
    <2>1. PICK s \in Text : s = path.parts BY PathFacts
    <2>2. /\ Prefix(s, 0) = <<>> /\ Prefix(s, n) = s
          /\ \A i \in 0 .. n : Prefix(s, i) \in Text
          /\ \A i \in 1 .. n : Prefix(s, i) = Append(Prefix(s, i - 1), s[i])
        BY <2>1, PrefixFacts
    <2>3. \A i \in 0 .. n : P[i] = Prefix(s, i) BY <1>5, <2>1
    <2> HIDE DEF n
    <2>4. \A i \in 1 .. n : i \in 0 .. n /\ i - 1 \in 0 .. n BY <1>0
    <2>5. P[0] = <<>> /\ P[n] = path.parts BY <1>0, <2>1, <2>2, <2>3
    <2>6. \A i \in 0 .. n : P[i] \in Text BY <2>2, <2>3
    <2>7. ASSUME NEW i \in 1 .. n PROVE P[i] = Append(P[i - 1], path.parts[i])
        <3>1. P[i] = Prefix(s, i) /\ P[i - 1] = Prefix(s, i - 1) BY <2>3, <2>4
        <3> QED BY <2>1, <2>2, <3>1
    <2> QED BY <2>5, <2>6, <2>7
<1> HIDE DEF n
<1> DEFINE S == {i \in Nat : i <= n =>
                    /\ c[i].found <=> path.rooted /\ P[i] \in DOMAIN doc
                    /\ c[i].found => c[i].at = P[i]}
<1>7. 0 \in S BY <1>0, <1>4, <1>6 DEF IsDocument
<1>8. ASSUME NEW i \in Nat, i \in S PROVE i + 1 \in S
    <2> SUFFICES ASSUME i + 1 <= n
                 PROVE  /\ c[i + 1].found <=> path.rooted /\ P[i + 1] \in DOMAIN doc
                        /\ c[i + 1].found => c[i + 1].at = P[i + 1]
        OBVIOUS
    <2>1. PICK j \in 1 .. n : j = i + 1 /\ j - 1 = i /\ i \in 0 .. n BY <1>0
    <2>2. /\ c[i].found <=> path.rooted /\ P[i] \in DOMAIN doc
          /\ c[i].found => c[i].at = P[i]
        BY <1>0, <1>8
    <2>3. PICK name \in Word : name = path.parts[j] BY PathFacts DEF n
    <2>4. P[j] = Append(P[i], name) /\ P[i] \in Text BY <1>6, <2>1, <2>3
    <2>5. P[j] \in DOMAIN doc => P[i] \in DOMAIN doc /\ doc[P[i]].object
        BY <2>4, DocumentClosed
    <2>6. c[j] = Field(doc, c[i], name) BY <1>4, <2>1, <2>3
    <2>7. CASE c[i].found /\ doc[c[i].at].object /\ Append(c[i].at, name) \in DOMAIN doc
        <3>1. c[j] = [found |-> TRUE, at |-> Append(c[i].at, name)]
            BY <2>6, <2>7 DEF Field
        <3>2. c[j].found /\ c[j].at = P[j] /\ P[j] \in DOMAIN doc /\ path.rooted
            BY <2>2, <2>4, <2>7, <3>1
        <3> QED BY <2>1, <3>2
    <2>8. CASE ~(c[i].found /\ doc[c[i].at].object /\ Append(c[i].at, name) \in DOMAIN doc)
        <3>1. c[j] = NotFound BY <2>6, <2>8 DEF Field
        <3>2. ~c[j].found BY <3>1 DEF NotFound
        <3>3. ~(path.rooted /\ P[j] \in DOMAIN doc) BY <2>2, <2>4, <2>5, <2>8
        <3> QED BY <2>1, <3>2, <3>3
    <2> QED BY <2>7, <2>8
<1> HIDE DEF S
<1>9. n \in S BY <1>0, <1>7, <1>8, NatSetInduction
<1>10. /\ c[n].found <=> path.rooted /\ P[n] \in DOMAIN doc
       /\ c[n].found => c[n].at = P[n]
    BY <1>0, <1>9 DEF S
<1> QED BY <1>3, <1>6, <1>10

(* extractVariables sets the variables whose paths lead somewhere, to what *)
(* is there, and keeps the others.                                         *)
LEMMA ExtractFinds ==
    ASSUME NEW data, NEW doc, IsDocument(doc), NEW extract,
           \A v \in DOMAIN extract : extract[v] \in JSONPaths
    PROVE  Extracted(data, doc, extract, extractVariables(data, doc, extract))
<1> DEFINE leads(v) == extract[v].rooted /\ extract[v].parts \in DOMAIN doc
           lookup(v) == jsonPathLookup(doc, extract[v])
           found == {v \in DOMAIN extract : lookup(v).found}
<1>1. ASSUME NEW v \in DOMAIN extract
      PROVE  /\ lookup(v).found <=> leads(v)
             /\ lookup(v).found => lookup(v).at = extract[v].parts
    BY LookupFinds
<1>2. PICK r : r = extractVariables(data, doc, extract) OBVIOUS
<1>3. r = [v \in found \cup DOMAIN data |->
             IF v \in found THEN doc[lookup(v).at].text ELSE data[v]]
    BY <1>2 DEF extractVariables
<1>4. DOMAIN r = found \cup DOMAIN data
      /\ \A v \in DOMAIN r : r[v] = IF v \in found THEN doc[lookup(v).at].text ELSE data[v]
    BY <1>3
<1>5. found = {v \in DOMAIN extract : leads(v)} BY <1>1
<1>6. \A v \in found : lookup(v).at = extract[v].parts BY <1>1
<1> QED BY <1>2, <1>4, <1>5, <1>6 DEF Extracted

-----------------------------------------------------------------------------
(* The files of a response *)

(* The imports of a file are a sequence, the public ones among them. *)
LEMMA DescriptorFacts ==
    ASSUME NEW f \in FileDescriptors
    PROVE  /\ Len(f.deps) \in Nat
           /\ DOMAIN f.deps = 1 .. Len(f.deps)
           /\ f.public \subseteq ToSet(f.deps)
<1>1. f.deps \in Seq(STRING) BY DEF FileDescriptors
<1>2. f.public \subseteq ToSet(f.deps) BY DEF FileDescriptors
<1> QED BY <1>1, <1>2

(* There is a last file of every name, and byName returns it. *)
LEMMA ByName ==
    ASSUME NEW response \in Seq(FileDescriptors), NEW n \in Names(response)
    PROVE  byName(response, n) \in FileDescriptors /\ byName(response, n).name = n
<1> DEFINE N == Len(response)
           isLast(i) == /\ response[i].name = n
                        /\ \A j \in i + 1 .. N : response[j].name # n
           T == {N - i : i \in {j \in 1 .. N : response[j].name = n}}
<1>0. N \in Nat /\ DOMAIN response = 1 .. N
      /\ \A i \in 1 .. N : response[i] \in FileDescriptors
    OBVIOUS
<1> HIDE DEF N
<1>1. T \subseteq Nat BY <1>0
<1>2. T # {}
    <2>1. PICK i \in 1 .. N : response[i].name = n BY <1>0 DEF Names
    <2> QED BY <2>1
<1>3. PICK t \in T : \A u \in T : t <= u
    <2> HIDE DEF T
    <2> QED BY <1>1, <1>2, LeastNat
<1>4. PICK i \in 1 .. N : response[i].name = n /\ t = N - i BY <1>3
<1>5. ASSUME NEW j \in i + 1 .. N PROVE response[j].name # n
    <2> SUFFICES ASSUME response[j].name = n PROVE FALSE OBVIOUS
    <2>1. j \in 1 .. N BY <1>0
    <2>2. N - j \in T BY <2>1
    <2>3. t <= N - j BY <1>3, <2>2
    <2> QED BY ONLY <1>0, <1>4, <2>1, <2>3, j \in i + 1 .. N, i \in 1 .. N
<1>6. \E k \in 1 .. N : isLast(k) BY <1>4, <1>5
<1>7. PICK k : k = CHOOSE i2 \in 1 .. N : isLast(i2) OBVIOUS
<1>8. k \in 1 .. N /\ isLast(k) BY <1>6, <1>7
<1>9. byName(response, n) = response[k] BY <1>0, <1>7 DEF byName, N
<1> QED BY <1>0, <1>8, <1>9

(* Appending a file adds its name. *)
LEMMA NamesAppend ==
    ASSUME NEW fs \in Seq(FileDescriptors), NEW f \in FileDescriptors
    PROVE  /\ Append(fs, f) \in Seq(FileDescriptors)
           /\ Len(Append(fs, f)) = Len(fs) + 1
           /\ \A i \in 1 .. Len(fs) : Append(fs, f)[i] = fs[i]
           /\ Append(fs, f)[Len(fs) + 1] = f
           /\ Names(Append(fs, f)) = Names(fs) \cup {f.name}
<1>1. PICK g : g = Append(fs, f) OBVIOUS
<1>2. /\ g \in Seq(FileDescriptors) /\ Len(g) = Len(fs) + 1
      /\ \A i \in 1 .. Len(fs) : g[i] = fs[i]
      /\ g[Len(fs) + 1] = f
      /\ DOMAIN g = 1 .. Len(fs) + 1 /\ DOMAIN fs = 1 .. Len(fs) /\ Len(fs) \in Nat
    BY <1>1
<1>3. PICK m \in Nat : m = Len(fs) BY <1>2
<1>4. 1 .. m + 1 = 1 .. m \cup {m + 1} OBVIOUS
<1>5. Names(g) = Names(fs) \cup {f.name} BY <1>2, <1>3, <1>4 DEF Names
<1> QED BY <1>1, <1>2, <1>5

-----------------------------------------------------------------------------
(* The set of files that buildFileSet builds *)

(* Every file is the one of its name in the response. *)
FilesAreSent(response, fs) ==
    \A i \in DOMAIN fs :
        fs[i].name \in Names(response) /\ fs[i] = byName(response, fs[i].name)

(* No two files have the same name or clash. *)
FilesDiffer(fs) ==
    \A i, j \in DOMAIN fs : i # j =>
        fs[i].name # fs[j].name /\ ~Clash(fs[i], fs[j])

(* Every file is valid and mentions only types that it may. *)
FilesRefer(response, fs) ==
    \A i \in DOMAIN fs :
        fs[i].valid /\ \A ref \in fs[i].refs : Referable(response, fs[i], ref)

(* Every import is an earlier file, or a global one that was not sent. *)
FilesInOrder(response, fs) ==
    \A i \in DOMAIN fs :
        ToSet(fs[i].deps) \subseteq
            {fs[j].name : j \in 1 .. i - 1} \cup (GlobalFiles \ Names(response))

(* registered has the files of the set and global files not sent. *)
RegisteredIsThere(response, fs, reg) ==
    /\ Names(fs) \subseteq reg
    /\ reg \subseteq Names(fs) \cup (GlobalFiles \ Names(response))

(* What is true of the set under construction. *)
GoodFiles(response, fs, reg) ==
    /\ fs \in Seq(FileDescriptors)
    /\ FilesAreSent(response, fs)
    /\ FilesDiffer(fs)
    /\ FilesRefer(response, fs)
    /\ FilesInOrder(response, fs)
    /\ RegisteredIsThere(response, fs, reg)

(* A name that is there may be marked as registered. *)
LEMMA GoodMore ==
    ASSUME NEW response, NEW fs, NEW reg, GoodFiles(response, fs, reg),
           NEW n \in Names(fs) \cup (GlobalFiles \ Names(response))
    PROVE  GoodFiles(response, fs, reg \cup {n})
BY DEF GoodFiles, RegisteredIsThere

(* Two files clash in either order. *)
LEMMA ClashSymmetric == ASSUME NEW f, NEW g, ~Clash(f, g) PROVE ~Clash(g, f)
BY DEF Clash

(* The files of the set are files of the response, and a file of the       *)
(* response whose name is in the set is in the set.                        *)
LEMMA SetOfSent ==
    ASSUME NEW response \in Seq(FileDescriptors), NEW fs,
           fs \in Seq(FileDescriptors), FilesAreSent(response, fs)
    PROVE  /\ ToSet(fs) \subseteq Effective(response)
           /\ \A g \in Effective(response) : g.name \in Names(fs) => g \in ToSet(fs)
           /\ \A g \in ToSet(fs) : g.name \in Names(fs)
           /\ \A g \in Effective(response) : g.name \in Names(response)
<1>1. ToSet(fs) = {fs[i] : i \in DOMAIN fs} BY DEF ToSet
<1>2. ToSet(fs) \subseteq Effective(response) BY <1>1 DEF FilesAreSent, Effective
<1>3. ASSUME NEW g \in Effective(response)
      PROVE  /\ g.name \in Names(response)
             /\ g.name \in Names(fs) => g \in ToSet(fs)
    <2>1. PICK n \in Names(response) : g = byName(response, n) BY DEF Effective
    <2>2. g.name = n BY <2>1, ByName
    <2>3. ASSUME g.name \in Names(fs) PROVE g \in ToSet(fs)
        <3>1. PICK i \in DOMAIN fs : fs[i].name = g.name BY <2>3 DEF Names
        <3>2. fs[i] = g BY <2>1, <2>2, <3>1 DEF FilesAreSent
        <3> QED BY <1>1, <3>2
    <2> QED BY <2>2, <2>3
<1>4. \A g \in ToSet(fs) : g.name \in Names(fs) BY <1>1 DEF Names
<1> QED BY <1>2, <1>3, <1>4

(* A file whose imports are registered sees the same files in the set as   *)
(* in the whole response: whatever its imports pass on is in the set.      *)
LEMMA VisibleSame ==
    ASSUME NEW response \in Seq(FileDescriptors), NEW fs, NEW reg,
           GoodFiles(response, fs, reg), NEW f, ToSet(f.deps) \subseteq reg
    PROVE  /\ Visible(ToSet(fs), f) = Visible(Effective(response), f)
           /\ Visible(ToSet(fs), f) \subseteq
                 Names(fs) \cup (GlobalFiles \ Names(response))
<1> DEFINE A == ToSet(fs)
           E == Effective(response)
           G == Names(fs) \cup (GlobalFiles \ Names(response))
           R == ToSet(f.deps)
           all(F) == R \cup UNION {g.public : g \in F}
           Closed(F, S) == R \subseteq S /\ \A g \in F : g.name \in S => g.public \subseteq S
<1>1. \A F : Visible(F, f) = {n \in all(F) : \A S \in SUBSET all(F) : Closed(F, S) => n \in S}
    BY DEF Visible
<1>2. fs \in Seq(FileDescriptors) /\ FilesAreSent(response, fs) BY DEF GoodFiles
<1>3. /\ A \subseteq E
      /\ \A g \in E : g.name \in Names(fs) => g \in A
      /\ \A g \in A : g.name \in Names(fs)
      /\ \A g \in E : g.name \in Names(response)
    BY <1>2, SetOfSent
<1>4. R \subseteq G BY DEF GoodFiles, RegisteredIsThere
<1>5. ASSUME NEW g \in A PROVE g.public \subseteq G
    <2>1. PICK i \in DOMAIN fs : g = fs[i] BY DEF ToSet
    <2>2. g \in FileDescriptors BY <1>2, <2>1
    <2>3. g.public \subseteq ToSet(g.deps) BY <2>2, DescriptorFacts
    <2>4. ToSet(g.deps) \subseteq
             {fs[j].name : j \in 1 .. i - 1} \cup (GlobalFiles \ Names(response))
        BY <2>1 DEF GoodFiles, FilesInOrder
    <2>5. \A j \in 1 .. i - 1 : j \in DOMAIN fs BY <1>2
    <2>6. {fs[j].name : j \in 1 .. i - 1} \subseteq Names(fs) BY <2>5 DEF Names
    <2> QED BY <2>3, <2>4, <2>6
<1> HIDE DEF A, E, G, R
<1>6. ASSUME NEW n \in Visible(A, f) PROVE n \in Visible(E, f)
    <2>1. n \in all(A) /\ \A S \in SUBSET all(A) : Closed(A, S) => n \in S BY <1>1
    <2>2. n \in all(E) BY <1>3, <2>1
    <2>3. ASSUME NEW S \in SUBSET all(E), Closed(E, S) PROVE n \in S
        <3>1. PICK T : T = S \cap all(A) OBVIOUS
        <3>2. T \in SUBSET all(A) BY <3>1
        <3>3. Closed(A, T) BY <1>3, <2>3, <3>1
        <3> QED BY <2>1, <3>1, <3>2, <3>3
    <2> QED BY <1>1, <2>2, <2>3
<1>7. ASSUME NEW n \in Visible(E, f) PROVE n \in Visible(A, f) /\ n \in G
    <2>1. \A S \in SUBSET all(E) : Closed(E, S) => n \in S BY <1>1
    <2>2. ASSUME NEW S \in SUBSET all(A), Closed(A, S) PROVE n \in S /\ n \in G
        <3>1. PICK T : T = S \cap G OBVIOUS
        <3>2. T \in SUBSET all(E) BY <1>3, <3>1
        <3>3. R \subseteq T BY <1>4, <2>2, <3>1
        <3>4. ASSUME NEW g \in E, g.name \in T PROVE g.public \subseteq T
            <4>1. g.name \in S /\ g.name \in G BY <3>1, <3>4
            <4>2. g.name \in Names(fs) BY <1>3, <4>1 DEF G
            <4>3. g \in A BY <1>3, <4>2
            <4> QED BY <1>5, <2>2, <3>1, <4>1, <4>3
        <3>5. Closed(E, T) BY <3>3, <3>4
        <3> QED BY <2>1, <3>1, <3>2, <3>5
    <2>3. all(A) \in SUBSET all(A) /\ Closed(A, all(A)) OBVIOUS
    <2>4. n \in all(A) /\ n \in G BY <2>2, <2>3
    <2> QED BY <1>1, <2>2, <2>4
<1>8. Visible(A, f) = Visible(E, f) /\ Visible(A, f) \subseteq G BY <1>6, <1>7
<1> QED BY <1>8 DEF A, E, G

(* What a file that can be added mentions, it may mention. *)
LEMMA ResolvesRefers ==
    ASSUME NEW response \in Seq(FileDescriptors), NEW fs, NEW reg,
           GoodFiles(response, fs, reg), NEW f \in Effective(response),
           ToSet(f.deps) \subseteq reg, NEW ref, Resolves(ToSet(fs), f, ref)
    PROVE  Referable(response, f, ref)
<1>1. Visible(ToSet(fs), f) = Visible(Effective(response), f) BY VisibleSame
<1>2. ToSet(fs) \cup {f} \subseteq Effective(response) BY SetOfSent DEF GoodFiles
<1>3. PICK d \in fileSetResolver(ToSet(fs) \cup {f}, ref.name) :
          d.kind \in ref.kinds /\ d.file \in {f.name} \cup Visible(ToSet(fs), f)
    BY DEF Resolves
<1>4. /\ d.name = ref.name
      /\ d \in Declared(ToSet(fs) \cup {f}) \cup GlobalMessages
    BY DEF fileSetResolver
<1>5. d \in Declared(Effective(response)) \cup GlobalMessages
    BY <1>2, <1>4 DEF Declared
<1> QED BY <1>1, <1>3, <1>4, <1>5 DEF Referable

(* What a file may mention is found when it is added, unless the response  *)
(* redeclares a global message.                                            *)
LEMMA RefersResolves ==
    ASSUME NEW response \in Seq(FileDescriptors), NEW fs, NEW reg,
           GoodFiles(response, fs, reg), NEW f \in Effective(response),
           ToSet(f.deps) \subseteq reg, NEW ref, Referable(response, f, ref),
           ~Redeclares(response)
    PROVE  Resolves(ToSet(fs), f, ref)
<1> DEFINE here == Declared(ToSet(fs) \cup {f})
<1>1. /\ Visible(ToSet(fs), f) = Visible(Effective(response), f)
      /\ Visible(ToSet(fs), f) \subseteq Names(fs) \cup (GlobalFiles \ Names(response))
    BY VisibleSame
<1>2. /\ ToSet(fs) \cup {f} \subseteq Effective(response)
      /\ \A g \in Effective(response) : g.name \in Names(fs) => g \in ToSet(fs)
      /\ \A g \in Effective(response) : g.name \in Names(response)
    BY SetOfSent DEF GoodFiles
<1>3. PICK d \in Declared(Effective(response)) \cup GlobalMessages :
          /\ d.name = ref.name /\ d.kind \in ref.kinds
          /\ d.file \in {f.name} \cup Visible(ToSet(fs), f)
    BY <1>1 DEF Referable
<1>4. d \in fileSetResolver(ToSet(fs) \cup {f}, ref.name)
    <2>1. CASE d \in Declared(Effective(response))
        <3>1. PICK g \in Effective(response) : \E s \in g.symbols :
                  d = [name |-> s.name, kind |-> s.kind, file |-> g.name]
            BY <2>1 DEF Declared
        <3>2. d.file = g.name BY <3>1
        <3>3. g.name = f.name \/ g.name \in Names(fs)
            BY <1>1, <1>2, <1>3, <3>2
        <3>4. g \in ToSet(fs) \cup {f}
            <4>1. CASE g.name = f.name
                <5>1. PICK n \in Names(response) : g = byName(response, n)
                    BY DEF Effective
                <5>2. PICK m \in Names(response) : f = byName(response, m)
                    BY DEF Effective
                <5>3. g.name = n /\ f.name = m BY <5>1, <5>2, ByName
                <5> QED BY <4>1, <5>1, <5>2, <5>3
            <4>2. CASE g.name \in Names(fs) BY <1>2, <4>2
            <4> QED BY <3>3, <4>1, <4>2
        <3>5. d \in here BY <3>1, <3>4 DEF Declared
        <3> QED BY <1>3, <3>5 DEF fileSetResolver
    <2>2. CASE d \in GlobalMessages
        <3>1. ASSUME NEW e \in here, e.name = ref.name PROVE e = d
            <4>1. e \in Declared(Effective(response)) BY <1>2 DEF Declared
            <4>2. e \in GlobalMessages BY <1>3, <2>2, <3>1, <4>1 DEF Redeclares
            <4> QED BY <1>3, <2>2, <3>1, <4>2, GlobalMessagesAssumption
        <3> HIDE DEF here
        <3>2. PICK local : local = {e \in here : e.name = ref.name} OBVIOUS
        <3>3. fileSetResolver(ToSet(fs) \cup {f}, ref.name) =
                 IF local # {} THEN local ELSE {e \in GlobalMessages : e.name = ref.name}
            BY <3>2 DEF fileSetResolver, here
        <3>4. CASE local = {} BY <1>3, <2>2, <3>3, <3>4
        <3>5. CASE local # {}
            <4>1. PICK e : e \in local BY <3>5
            <4>2. e = d BY <3>1, <3>2, <4>1
            <4> QED BY <3>3, <3>5, <4>1, <4>2
        <3> QED BY <3>4, <3>5
    <2> QED BY <1>3, <2>1, <2>2
<1> QED BY <1>3, <1>4 DEF Resolves

(* A file whose imports are registered may be added if CanRegister says    *)
(* so.                                                                     *)
LEMMA GoodAppend ==
    ASSUME NEW response \in Seq(FileDescriptors), NEW fs, NEW reg,
           GoodFiles(response, fs, reg), NEW n \in Names(response),
           n \notin Names(fs), NEW f, f = byName(response, n), CanRegister(fs, f),
           ToSet(f.deps) \subseteq reg
    PROVE  GoodFiles(response, Append(fs, f), reg \cup {n})
<1>1. f \in FileDescriptors /\ f.name = n BY ByName
<1>2. fs \in Seq(FileDescriptors) BY DEF GoodFiles
<1>3. PICK m \in Nat : m = Len(fs) /\ DOMAIN fs = 1 .. m BY <1>2
<1>4. PICK g : g = Append(fs, f) OBVIOUS
<1>5. /\ g \in Seq(FileDescriptors) /\ DOMAIN g = 1 .. m + 1
      /\ \A i \in 1 .. m : g[i] = fs[i]
      /\ g[m + 1] = f /\ Names(g) = Names(fs) \cup {n}
    <2>1. /\ g \in Seq(FileDescriptors) /\ Len(g) = m + 1
          /\ \A i \in 1 .. m : g[i] = fs[i]
          /\ g[m + 1] = f /\ Names(g) = Names(fs) \cup {n}
        BY <1>1, <1>2, <1>3, <1>4, NamesAppend
    <2> QED BY <2>1
<1>6. \A i \in 1 .. m + 1 : i \in 1 .. m \/ i = m + 1 OBVIOUS
<1>7. FilesAreSent(response, g)
    <2>1. \A i \in 1 .. m : fs[i].name \in Names(response)
                            /\ fs[i] = byName(response, fs[i].name)
        BY <1>3 DEF GoodFiles, FilesAreSent
    <2> QED BY <1>1, <1>5, <1>6, <2>1 DEF FilesAreSent
<1>8. FilesDiffer(g)
    <2>1. \A i, j \in 1 .. m : i # j => fs[i].name # fs[j].name /\ ~Clash(fs[i], fs[j])
        BY <1>3 DEF GoodFiles, FilesDiffer
    <2>2. ASSUME NEW i \in 1 .. m
          PROVE  fs[i].name # n /\ ~Clash(fs[i], f) /\ ~Clash(f, fs[i])
        <3>1. fs[i].name \in Names(fs) BY <1>3 DEF Names
        <3>2. fs[i] \in ToSet(fs) BY <1>3 DEF ToSet
        <3>3. ~Clash(f, fs[i]) BY <3>2 DEF CanRegister
        <3> QED BY <3>1, <3>3, ClashSymmetric
    <2>3. ASSUME NEW i \in 1 .. m + 1, NEW j \in 1 .. m + 1, i # j
          PROVE  g[i].name # g[j].name /\ ~Clash(g[i], g[j])
        <3>1. CASE i \in 1 .. m /\ j \in 1 .. m BY <1>5, <2>1, <2>3, <3>1
        <3>2. CASE i \in 1 .. m /\ j = m + 1 BY <1>1, <1>5, <2>2, <3>2
        <3>3. CASE i = m + 1 /\ j \in 1 .. m BY <1>1, <1>5, <2>2, <3>3
        <3> QED BY <1>6, <2>3, <3>1, <3>2, <3>3
    <2> QED BY <1>5, <2>3 DEF FilesDiffer
<1>9. FilesRefer(response, g)
    <2>1. f \in Effective(response) BY DEF Effective
    <2>2. f.valid /\ \A ref \in f.refs : Referable(response, f, ref)
        BY <2>1, ResolvesRefers DEF CanRegister
    <2>3. \A i \in 1 .. m : /\ fs[i].valid
                            /\ \A ref \in fs[i].refs : Referable(response, fs[i], ref)
        BY <1>3 DEF GoodFiles, FilesRefer
    <2> QED BY <1>5, <1>6, <2>2, <2>3 DEF FilesRefer
<1>10. FilesInOrder(response, g)
    <2>1. ASSUME NEW i \in 1 .. m
          PROVE  ToSet(g[i].deps) \subseteq
                    {g[j].name : j \in 1 .. i - 1} \cup (GlobalFiles \ Names(response))
        <3>1. ToSet(fs[i].deps) \subseteq
                 {fs[j].name : j \in 1 .. i - 1} \cup (GlobalFiles \ Names(response))
            BY <1>3 DEF GoodFiles, FilesInOrder
        <3>2. \A j \in 1 .. i - 1 : j \in 1 .. m OBVIOUS
        <3>3. {fs[j].name : j \in 1 .. i - 1} = {g[j].name : j \in 1 .. i - 1}
            BY <1>5, <3>2
        <3> QED BY <1>5, <3>1, <3>3
    <2>2. ToSet(f.deps) \subseteq {g[j].name : j \in 1 .. m} \cup (GlobalFiles \ Names(response))
        <3>1. Names(fs) = {fs[j].name : j \in 1 .. m} BY <1>3 DEF Names
        <3>2. {fs[j].name : j \in 1 .. m} = {g[j].name : j \in 1 .. m} BY <1>5
        <3>3. reg \subseteq Names(fs) \cup (GlobalFiles \ Names(response))
            BY DEF GoodFiles, RegisteredIsThere
        <3> QED BY <3>1, <3>2, <3>3
    <2>3. (m + 1) - 1 = m OBVIOUS
    <2> QED BY <1>5, <1>6, <2>1, <2>2, <2>3 DEF FilesInOrder
<1>11. RegisteredIsThere(response, g, reg \cup {n})
    BY <1>5 DEF GoodFiles, RegisteredIsThere
<1> QED BY <1>4, <1>5, <1>7, <1>8, <1>9, <1>10, <1>11 DEF GoodFiles

(* With its imports registered, a file is refused only because it is not   *)
(* valid, mentions a type that is nowhere or clashes with another file.    *)
LEMMA CannotRegister ==
    ASSUME NEW response \in Seq(FileDescriptors), NEW fs, NEW reg,
           GoodFiles(response, fs, reg), NEW n \in Names(response),
           n \notin Names(fs), NEW f, f = byName(response, n), ~CanRegister(fs, f),
           ToSet(f.deps) \subseteq reg
    PROVE  ~Buildable(response) \/ Redeclares(response)
<1>1. ToSet(f.deps) \subseteq Names(fs) \cup GlobalFiles
    BY DEF GoodFiles, RegisteredIsThere
<1>2. f \in Effective(response) /\ f.name = n BY ByName DEF Effective
<1>3. CASE ~f.valid BY <1>2, <1>3 DEF Buildable
<1>4. CASE \E ref \in f.refs : ~Resolves(ToSet(fs), f, ref)
    <2>1. PICK ref \in f.refs : ~Resolves(ToSet(fs), f, ref) BY <1>4
    <2>2. ~Referable(response, f, ref) \/ Redeclares(response)
        BY <1>2, <2>1, RefersResolves
    <2> QED BY <1>2, <2>2 DEF Buildable
<1>5. CASE \E g \in ToSet(fs) : Clash(f, g)
    <2>1. PICK g \in ToSet(fs) : Clash(f, g) BY <1>5
    <2>2. g \in Effective(response) /\ g.name \in Names(fs)
        BY SetOfSent DEF GoodFiles
    <2>3. g # f BY <1>2, <2>2
    <2> QED BY <1>2, <2>1, <2>2, <2>3 DEF Buildable
<1> QED BY <1>1, <1>3, <1>4, <1>5 DEF CanRegister

(* An import that is nowhere makes the response unusable. *)
LEMMA MissingImport ==
    ASSUME NEW response, NEW f \in Effective(response), NEW d \in DOMAIN f.deps,
           f.deps[d] \notin Names(response) \cup GlobalFiles
    PROVE  ~Buildable(response)
<1>1. f.deps[d] \in ToSet(f.deps) BY DEF ToSet
<1> QED BY <1>1 DEF Buildable

(* A set with every file of the response is what it should be. *)
LEMMA GoodComplete ==
    ASSUME NEW response \in Seq(FileDescriptors), NEW fs, NEW reg,
           GoodFiles(response, fs, reg), Names(response) \subseteq reg,
           ~TooLarge(response), \A f \in ToSet(response) : f.decodes
    PROVE  /\ Buildable(response)
           /\ ToSet(fs) = Effective(response)
           /\ Len(fs) = Cardinality(Names(response))
           /\ ImportsFirst(fs)
<1>1. fs \in Seq(FileDescriptors) BY DEF GoodFiles
<1>2. PICK m \in Nat : m = Len(fs) /\ DOMAIN fs = 1 .. m BY <1>1
<1>3. Names(fs) = Names(response)
    <2>1. Names(response) \subseteq Names(fs) BY DEF GoodFiles, RegisteredIsThere
    <2>2. Names(fs) \subseteq Names(response) BY DEF GoodFiles, FilesAreSent, Names
    <2> QED BY <2>1, <2>2
<1>4. \A i \in 1 .. m : fs[i] = byName(response, fs[i].name)
    BY <1>2 DEF GoodFiles, FilesAreSent
<1>5. ToSet(fs) = {fs[i] : i \in 1 .. m} BY <1>2 DEF ToSet
<1>6. Names(fs) = {fs[i].name : i \in 1 .. m} BY <1>2 DEF Names
<1>7. ToSet(fs) = Effective(response) BY <1>3, <1>4, <1>5, <1>6 DEF Effective
<1>8. ImportsFirst(fs) BY <1>3 DEF GoodFiles, FilesInOrder, ImportsFirst
<1>9. \A i, j \in 1 .. m : i # j => fs[i].name # fs[j].name /\ ~Clash(fs[i], fs[j])
    BY <1>2 DEF GoodFiles, FilesDiffer
<1>10. m = Cardinality(Names(response))
    <2>1. PICK h : h = [i \in 1 .. m |-> fs[i].name] OBVIOUS
    <2>2. h \in [1 .. m -> Names(fs)] BY <1>6, <2>1
    <2>3. \A i, j \in 1 .. m : h[i] = h[j] => i = j BY <1>9, <2>1
    <2>4. \A x \in Names(fs) : \E i \in 1 .. m : h[i] = x BY <1>6, <2>1
    <2>5. h \in Bijection(1 .. m, Names(fs))
        BY <2>2, <2>3, <2>4 DEF Bijection, Injection, Surjection, IsInjective
    <2>6. ExistsBijection(1 .. m, Names(fs)) BY <2>5 DEF ExistsBijection
    <2> QED BY <1>3, <2>6, FS_CountingElements
<1>11. Buildable(response)
    <2>1. ASSUME NEW f \in Effective(response)
          PROVE  /\ ToSet(f.deps) \subseteq Names(response) \cup GlobalFiles
                 /\ f.valid /\ \A ref \in f.refs : Referable(response, f, ref)
        <3>1. PICK i \in 1 .. m : f = fs[i] BY <1>5, <1>7
        <3>2. ToSet(f.deps) \subseteq {fs[j].name : j \in 1 .. i - 1} \cup GlobalFiles
            BY <1>2, <3>1 DEF GoodFiles, FilesInOrder
        <3>3. \A j \in 1 .. i - 1 : j \in 1 .. m OBVIOUS
        <3>4. f.valid /\ \A ref \in f.refs : Referable(response, f, ref)
            BY <1>2, <3>1 DEF GoodFiles, FilesRefer
        <3> QED BY <1>3, <1>6, <3>2, <3>3, <3>4
    <2>2. ASSUME NEW f \in Effective(response), NEW g \in Effective(response), f # g
          PROVE  ~Clash(f, g)
        <3>1. PICK i \in 1 .. m : f = fs[i] BY <1>5, <1>7
        <3>2. PICK j \in 1 .. m : g = fs[j] BY <1>5, <1>7
        <3> QED BY <1>9, <2>2, <3>1, <3>2
    <2> QED BY <2>1, <2>2 DEF Buildable
<1> QED BY <1>2, <1>7, <1>8, <1>10, <1>11

-----------------------------------------------------------------------------
(* The calls of register that have not returned *)

(* A call of register: the file, and how many imports were followed. *)
Frames == [name : STRING, dep : Nat]

(* The imports that a call has followed are registered, but for the last,  *)
(* which may be what the next call, or the one about to be made, is for.   *)
FrameWaits(response, stk, reg, called, k) ==
    LET deps == byName(response, stk[k].name).deps IN
    /\ stk[k].name \in Names(response)
    /\ stk[k].dep <= Len(deps)
    /\ \A d \in 1 .. stk[k].dep :
          \/ deps[d] \in reg
          \/ /\ d = stk[k].dep
             /\ IF k < Len(stk) THEN deps[d] = stk[k + 1].name ELSE deps[d] \in called

(* The same for the files of the response register was called for. *)
FilesWait(response, stk, reg, p, called) ==
    \A i \in 1 .. p :
        \/ response[i].name \in reg
        \/ /\ i = p
           /\ IF Len(stk) > 0 THEN response[i].name = stk[1].name
              ELSE response[i].name \in called

(* Who waits for whom, with the call that is about to be made. *)
Waiting(response, stk, reg, p, called) ==
    /\ stk \in Seq(Frames)
    /\ \A k \in 1 .. Len(stk) : FrameWaits(response, stk, reg, called, k)
    /\ FilesWait(response, stk, reg, p, called)

(* The calls that have not returned are a sequence of Frames. *)
LEMMA FrameFacts ==
    ASSUME NEW stk \in Seq(Frames)
    PROVE  /\ Len(stk) \in Nat
           /\ \A k \in 1 .. Len(stk) : stk[k] \in Frames /\ stk[k].dep \in Nat
<1>1. Len(stk) \in Nat /\ \A k \in 1 .. Len(stk) : stk[k] \in Frames OBVIOUS
<1>2. \A f \in Frames : f.dep \in Nat BY DEF Frames
<1> QED BY <1>1, <1>2

(* The call that was about to be made is not needed, or was made. *)
LEMMA WaitingReturned ==
    ASSUME NEW response, NEW stk, NEW reg, NEW p, NEW called, NEW more,
           Waiting(response, stk, reg, p, called),
           reg \subseteq more, called \subseteq more
    PROVE  Waiting(response, stk, more, p, {})
<1>1. \A k \in 1 .. Len(stk) : FrameWaits(response, stk, more, {}, k)
    BY DEF Waiting, FrameWaits
<1>2. FilesWait(response, stk, more, p, {}) BY DEF Waiting, FilesWait
<1> QED BY <1>1, <1>2 DEF Waiting

(* The call that was about to be made is made. *)
LEMMA WaitingPush ==
    ASSUME NEW response \in Seq(FileDescriptors), NEW stk, NEW reg, NEW p,
           NEW n \in Names(response), Waiting(response, stk, reg, p, {n})
    PROVE  Waiting(response, Append(stk, [name |-> n, dep |-> 0]), reg, p, {})
<1>1. stk \in Seq(Frames) BY DEF Waiting
<1>2. PICK m \in Nat : m = Len(stk) BY <1>1
<1>3. PICK fr : fr = [name |-> n, dep |-> 0] OBVIOUS
<1>4. fr.name = n /\ fr.dep = 0 BY <1>3
<1>5. fr \in Frames
    <2>1. byName(response, n) \in FileDescriptors /\ byName(response, n).name = n
        BY ByName
    <2>2. n \in STRING BY <2>1 DEF FileDescriptors
    <2> QED BY <1>3, <2>2 DEF Frames
<1>6. PICK t : t = Append(stk, fr) OBVIOUS
<1>7. /\ t \in Seq(Frames) /\ Len(t) = m + 1
      /\ \A k \in 1 .. m : t[k] = stk[k]
      /\ t[m + 1] = fr
    BY <1>1, <1>2, <1>5, <1>6
<1>8. ASSUME NEW k \in 1 .. m + 1 PROVE FrameWaits(response, t, reg, {}, k)
    <2>1. CASE k = m + 1
        <3>1. byName(response, n) \in FileDescriptors BY ByName
        <3>2. Len(byName(response, n).deps) \in Nat BY <3>1, DescriptorFacts
        <3>3. t[k].name = n /\ t[k].dep = 0 BY <1>4, <1>7, <2>1
        <3>4. 1 .. 0 = {} OBVIOUS
        <3> QED BY <3>2, <3>3, <3>4 DEF FrameWaits
    <2>2. CASE k < m
        <3>1. k \in 1 .. m /\ k + 1 \in 1 .. m /\ k < m + 1 BY <2>2
        <3>2. t[k] = stk[k] /\ t[k + 1] = stk[k + 1] BY <1>7, <3>1
        <3>3. FrameWaits(response, stk, reg, {n}, k) BY <1>2, <3>1 DEF Waiting
        <3> QED BY <1>2, <1>7, <2>2, <3>1, <3>2, <3>3 DEF FrameWaits
    <2>3. CASE k = m
        <3>1. k \in 1 .. m /\ ~(k < m) /\ k < m + 1 BY <2>3
        <3>2. t[k] = stk[k] /\ t[k + 1] = fr BY <1>7, <2>3, <3>1
        <3>3. FrameWaits(response, stk, reg, {n}, k) BY <1>2, <3>1 DEF Waiting
        <3> QED BY <1>2, <1>4, <1>7, <3>1, <3>2, <3>3 DEF FrameWaits
    <2> QED BY <2>1, <2>2, <2>3
<1>9. FilesWait(response, t, reg, p, {})
    <2>1. FilesWait(response, stk, reg, p, {n}) BY DEF Waiting
    <2>2. CASE m = 0
        <3>1. t[1].name = n /\ Len(t) > 0 /\ ~(Len(stk) > 0) BY <1>2, <1>4, <1>7, <2>2
        <3> QED BY <2>1, <3>1 DEF FilesWait
    <2>3. CASE m > 0
        <3>1. t[1] = stk[1] /\ Len(t) > 0 /\ Len(stk) > 0 BY <1>2, <1>7, <2>3
        <3> QED BY <2>1, <3>1 DEF FilesWait
    <2> QED BY <2>2, <2>3
<1> QED BY <1>3, <1>6, <1>7, <1>8, <1>9 DEF Waiting

(* The last call follows its next import. *)
LEMMA WaitingImport ==
    ASSUME NEW response \in Seq(FileDescriptors), NEW stk, NEW reg, NEW p,
           Waiting(response, stk, reg, p, {}), stk # <<>>,
           NEW f, f = byName(response, stk[Len(stk)].name),
           stk[Len(stk)].dep < Len(f.deps)
    PROVE  /\ f \in Effective(response)
           /\ stk[Len(stk)].dep + 1 \in DOMAIN f.deps
           /\ Waiting(response, [stk EXCEPT ![Len(stk)].dep = @ + 1], reg, p,
                      {f.deps[stk[Len(stk)].dep + 1]})
<1>1. stk \in Seq(Frames) BY DEF Waiting
<1>2. PICK m \in Nat : m = Len(stk) /\ m > 0 BY <1>1, EmptySeq
<1>3. PICK top \in Frames : top = stk[m] /\ top.dep \in Nat BY <1>1, <1>2, FrameFacts
<1>4. FrameWaits(response, stk, reg, {}, m) BY <1>2 DEF Waiting
<1>5. top.name \in Names(response) /\ f = byName(response, top.name)
    BY <1>2, <1>3, <1>4 DEF FrameWaits
<1>6. f \in FileDescriptors BY <1>5, ByName
<1>7. Len(f.deps) \in Nat /\ DOMAIN f.deps = 1 .. Len(f.deps)
    BY <1>6, DescriptorFacts
<1>8. top.dep + 1 \in DOMAIN f.deps /\ top.dep + 1 <= Len(f.deps)
    BY <1>2, <1>3, <1>7
<1>9. PICK n : n = f.deps[top.dep + 1] OBVIOUS
<1>10. PICK fr : fr = [top EXCEPT !.dep = @ + 1] OBVIOUS
<1>11. fr \in Frames /\ fr.name = top.name /\ fr.dep = top.dep + 1
    BY <1>3, <1>10 DEF Frames
<1>12. PICK t : t = [stk EXCEPT ![m] = fr] OBVIOUS
<1>13. t = [stk EXCEPT ![Len(stk)].dep = @ + 1]
    BY <1>2, <1>3, <1>10, <1>12
<1>14. /\ t \in Seq(Frames) /\ Len(t) = m
       /\ t[m] = fr /\ \A k \in 1 .. m : k # m => t[k] = stk[k]
    BY <1>1, <1>2, <1>11, <1>12
<1>15. \A k \in 1 .. m : t[k].name = stk[k].name
    BY <1>3, <1>11, <1>14
<1>16. \A d \in 1 .. top.dep : f.deps[d] \in reg
    BY <1>2, <1>3, <1>4, <1>5 DEF FrameWaits
<1>17. ASSUME NEW k \in 1 .. m PROVE FrameWaits(response, t, reg, {n}, k)
    <2>1. CASE k = m
        <3>1. t[k] = fr /\ ~(k < Len(t)) BY <1>14, <2>1
        <3>2. \A d \in 1 .. top.dep + 1 : d \in 1 .. top.dep \/ d = top.dep + 1
            BY <1>3
        <3>3. t[k].name = top.name /\ t[k].dep = top.dep + 1 BY <1>11, <3>1
        <3>4. byName(response, t[k].name).deps = f.deps BY <1>5, <3>3
        <3>5. \A d \in 1 .. t[k].dep : f.deps[d] \in reg \/ (d = t[k].dep /\ f.deps[d] \in {n})
            BY <1>9, <1>16, <3>2, <3>3
        <3> QED BY <1>5, <1>8, <3>1, <3>3, <3>4, <3>5 DEF FrameWaits
    <2>2. CASE k # m
        <3>1. k < m /\ k + 1 \in 1 .. m BY <2>2
        <3>2. t[k] = stk[k] /\ t[k + 1].name = stk[k + 1].name
            BY <1>14, <1>15, <2>2, <3>1
        <3>3. FrameWaits(response, stk, reg, {}, k) BY <1>2 DEF Waiting
        <3> QED BY <1>2, <1>14, <3>1, <3>2, <3>3 DEF FrameWaits
    <2> QED BY <2>1, <2>2
<1>18. FilesWait(response, t, reg, p, {n})
    <2>1. FilesWait(response, stk, reg, p, {}) BY DEF Waiting
    <2>2. t[1].name = stk[1].name /\ Len(t) > 0 /\ Len(stk) > 0 BY <1>2, <1>14, <1>15
    <2> QED BY <2>1, <2>2 DEF FilesWait
<1>19. Waiting(response, t, reg, p, {n}) BY <1>14, <1>17, <1>18 DEF Waiting
<1>20. f \in Effective(response) BY <1>5 DEF Effective
<1> QED BY <1>2, <1>3, <1>8, <1>9, <1>13, <1>19, <1>20

(* The last call returns. *)
LEMMA WaitingPop ==
    ASSUME NEW response \in Seq(FileDescriptors), NEW stk, NEW reg, NEW p,
           Waiting(response, stk, reg, p, {}), stk # <<>>,
           NEW f, f = byName(response, stk[Len(stk)].name),
           ~(stk[Len(stk)].dep < Len(f.deps))
    PROVE  /\ stk[Len(stk)].name \in Names(response)
           /\ f.name = stk[Len(stk)].name
           /\ ToSet(f.deps) \subseteq reg
           /\ Waiting(response, Front(stk), reg \cup {f.name}, p, {})
<1>1. stk \in Seq(Frames) BY DEF Waiting
<1>2. PICK m \in Nat : m = Len(stk) /\ m > 0 BY <1>1, EmptySeq
<1>3. PICK top \in Frames : top = stk[m] /\ top.dep \in Nat BY <1>1, <1>2, FrameFacts
<1>4. FrameWaits(response, stk, reg, {}, m) BY <1>2 DEF Waiting
<1>5. top.name \in Names(response) /\ f = byName(response, top.name)
    BY <1>2, <1>3, <1>4 DEF FrameWaits
<1>6. f \in FileDescriptors /\ f.name = top.name BY <1>5, ByName
<1>7. Len(f.deps) \in Nat /\ DOMAIN f.deps = 1 .. Len(f.deps)
    BY <1>6, DescriptorFacts
<1>8. top.dep = Len(f.deps)
    <2>1. top.dep <= Len(f.deps) BY <1>2, <1>3, <1>4, <1>5 DEF FrameWaits
    <2> QED BY <1>2, <1>3, <1>7, <2>1
<1>9. ToSet(f.deps) \subseteq reg
    <2>1. \A d \in 1 .. top.dep : f.deps[d] \in reg
        BY <1>2, <1>3, <1>4, <1>5 DEF FrameWaits
    <2> QED BY <1>7, <1>8, <2>1 DEF ToSet
<1>10. PICK t : t = Front(stk) OBVIOUS
<1>11. /\ t \in Seq(Frames) /\ Len(t) = m - 1
       /\ \A k \in 1 .. m - 1 : t[k] = stk[k]
    BY <1>1, <1>2, <1>10 DEF Front
<1>12. ASSUME NEW k \in 1 .. m - 1
       PROVE  FrameWaits(response, t, reg \cup {f.name}, {}, k)
    <2>1. k \in 1 .. m /\ k < m /\ t[k] = stk[k] BY <1>2, <1>11
    <2>2. FrameWaits(response, stk, reg, {}, k) BY <1>2, <2>1 DEF Waiting
    <2>3. CASE k = m - 1
        <3>1. k + 1 = m /\ ~(k < m - 1) BY <1>2, <2>3
        <3>2. stk[k + 1].name = f.name BY <1>3, <1>6, <3>1
        <3> QED BY <1>2, <1>11, <2>1, <2>2, <3>1, <3>2 DEF FrameWaits
    <2>4. CASE k # m - 1
        <3>1. k < m - 1 /\ k + 1 \in 1 .. m - 1 BY <1>2, <2>4
        <3>2. t[k + 1] = stk[k + 1] BY <1>11, <3>1
        <3> QED BY <1>2, <1>11, <2>1, <2>2, <3>1, <3>2 DEF FrameWaits
    <2> QED BY <2>3, <2>4
<1>13. FilesWait(response, t, reg \cup {f.name}, p, {})
    <2>1. FilesWait(response, stk, reg, p, {}) /\ Len(stk) > 0 BY <1>2 DEF Waiting
    <2>2. CASE m = 1
        <3>1. stk[1].name = f.name BY <1>3, <1>6, <2>2
        <3> QED BY <2>1, <3>1 DEF FilesWait
    <2>3. CASE m > 1
        <3>1. t[1] = stk[1] /\ Len(t) > 0 BY <1>11, <2>3
        <3> QED BY <2>1, <3>1 DEF FilesWait
    <2> QED BY <1>2, <2>2, <2>3
<1> QED BY <1>2, <1>3, <1>5, <1>6, <1>9, <1>10, <1>11, <1>12, <1>13 DEF Waiting

(* register is called for the next file of the response. *)
LEMMA WaitingFile ==
    ASSUME NEW response, NEW reg, NEW p \in Nat, Waiting(response, <<>>, reg, p, {})
    PROVE  Waiting(response, <<>>, reg, p + 1, {response[p + 1].name})
<1>1. Len(<<>>) = 0 /\ ~(Len(<<>>) > 0) /\ 1 .. 0 = {} OBVIOUS
<1>2. \A i \in 1 .. p : response[i].name \in reg BY <1>1 DEF Waiting, FilesWait
<1>3. \A i \in 1 .. p + 1 : i \in 1 .. p \/ i = p + 1 OBVIOUS
<1>4. FilesWait(response, <<>>, reg, p + 1, {response[p + 1].name})
    BY <1>1, <1>2, <1>3 DEF FilesWait
<1> QED BY <1>1, <1>4 DEF Waiting

-----------------------------------------------------------------------------
(* What buildFileSet returns *)

(* The response passes the checks made before the first file. *)
Accepted(response) == ~TooLarge(response) /\ \A f \in ToSet(response) : f.decodes

(* The inductive invariant of buildFileSet. *)
BuildInv ==
    /\ protos \in Seq(FileDescriptors)
    /\ pos \in 0 .. Len(protos)
    /\ status \in {"new", "building", "built", "failed"}
    /\ GoodFiles(protos, files, registered)
    /\ status # "failed" => Waiting(protos, stack, registered, pos, {})
    /\ status \in {"building", "built"} => Accepted(protos)
    /\ status = "built" => pos = Len(protos) /\ stack = <<>>
    /\ status = "failed" => ~Buildable(protos) \/ Redeclares(protos)

(* It holds when buildFileSet is called. *)
LEMMA BuildStarts ==
    ASSUME NEW response \in Seq(FileDescriptors), buildFileSet(response)
    PROVE  BuildInv
<1> USE DEF buildFileSet
<1>1. GoodFiles(protos, files, registered)
    <2>1. DOMAIN files = {} /\ files \in Seq(FileDescriptors) /\ Names(files) = {}
        BY EmptySeq DEF Names
    <2> QED BY <2>1 DEF GoodFiles, FilesAreSent, FilesDiffer, FilesRefer,
                        FilesInOrder, RegisteredIsThere
<1>2. Waiting(protos, stack, registered, pos, {})
    <2>1. stack \in Seq(Frames) /\ 1 .. Len(stack) = {} BY EmptySeq
    <2>2. FilesWait(protos, stack, registered, pos, {}) BY DEF FilesWait
    <2> QED BY <2>1, <2>2 DEF Waiting
<1>3. Len(protos) \in Nat /\ 0 \in 0 .. Len(protos) OBVIOUS
<1> QED BY <1>1, <1>2, <1>3 DEF BuildInv

(* A call of register, whoever makes it. *)
LEMMA RegisterKeeps ==
    ASSUME BuildInv, status = "building", NEW n, NEW callers,
           Waiting(protos, callers, registered, pos', {n}), pos' \in 0 .. Len(protos),
           n \notin Names(protos) \cup GlobalFiles => ~Buildable(protos),
           register(n, callers)
    PROVE  BuildInv'
<1>1. protos' = protos /\ files' = files BY DEF register
<1>2. /\ protos \in Seq(FileDescriptors) /\ Accepted(protos)
      /\ GoodFiles(protos, files, registered)
    BY DEF BuildInv
<1>3. CASE n \in registered
    <2>1. stack' = callers /\ registered' \in {registered, registered \cup {n}}
          /\ status' = status
        BY <1>3 DEF register
    <2>2. registered' = registered BY <1>3, <2>1
    <2>3. Waiting(protos, callers, registered, pos', {}) BY <1>3, WaitingReturned
    <2> QED BY <1>1, <1>2, <2>1, <2>2, <2>3 DEF BuildInv
<1>4. CASE n \notin registered /\ n \in Names(protos)
    <2>1. /\ stack' = Append(callers, [name |-> n, dep |-> 0])
          /\ registered' = registered /\ status' = status
        BY <1>4 DEF register
    <2>2. Waiting(protos, stack', registered, pos', {})
        BY <1>2, <1>4, <2>1, WaitingPush
    <2> QED BY <1>1, <1>2, <2>1, <2>2 DEF BuildInv
<1>5. CASE n \notin registered \cup Names(protos) /\ n \in GlobalFiles
    <2>1. /\ stack' = callers
          /\ registered' = registered \cup {n} /\ status' = status
        BY <1>5 DEF register
    <2>2. Waiting(protos, callers, registered', pos', {})
        BY <2>1, WaitingReturned
    <2>3. GoodFiles(protos, files, registered') BY <1>2, <1>5, <2>1, GoodMore
    <2> QED BY <1>1, <1>2, <2>1, <2>2, <2>3 DEF BuildInv
<1>6. CASE n \notin registered \cup Names(protos) \cup GlobalFiles
    <2>1. registered' = registered /\ status' = "failed" BY <1>6 DEF register
    <2>2. ~Buildable(protos) BY <1>6
    <2> QED BY <1>1, <1>2, <2>1, <2>2 DEF BuildInv
<1> QED BY <1>3, <1>4, <1>5, <1>6

(* Every step of buildFileSet keeps it. *)
LEMMA BuildKeeps ==
    ASSUME BuildInv, BuildNext
    PROVE  BuildInv'
<1>1. /\ protos \in Seq(FileDescriptors)
      /\ GoodFiles(protos, files, registered)
      /\ Len(protos) \in Nat /\ pos \in Nat /\ pos \in 0 .. Len(protos)
    BY DEF BuildInv
<1>2. CASE Unmarshal
    <2>1. status = "new" /\ UNCHANGED <<protos, pos, stack, files, registered>>
        BY <1>2 DEF Unmarshal
    <2>2. Waiting(protos, stack, registered, pos, {}) BY <2>1 DEF BuildInv
    <2>3. CASE Accepted(protos)
        <3>1. status' = "building" BY <1>2, <2>3 DEF Unmarshal, Accepted
        <3> QED BY <1>1, <2>1, <2>2, <2>3, <3>1 DEF BuildInv
    <2>4. CASE ~Accepted(protos)
        <3>1. status' = "failed" BY <1>2, <2>4 DEF Unmarshal, Accepted
        <3>2. ~Buildable(protos) BY <2>4 DEF Buildable, Accepted
        <3> QED BY <1>1, <2>1, <3>1, <3>2 DEF BuildInv
    <2> QED BY <2>3, <2>4
<1>3. CASE RegisterFile
    <2>1. status = "building" /\ stack = <<>> /\ pos < Len(protos) /\ pos' = pos + 1
          /\ register(protos[pos + 1].name, <<>>)
        BY <1>3 DEF RegisterFile
    <2>2. Waiting(protos, <<>>, registered, pos, {}) BY <2>1 DEF BuildInv
    <2>3. Waiting(protos, <<>>, registered, pos + 1, {protos[pos + 1].name})
        BY <1>1, <2>2, WaitingFile
    <2>4. protos[pos + 1].name \in Names(protos)
        <3>1. pos + 1 \in DOMAIN protos BY <1>1, <2>1
        <3> QED BY <3>1 DEF Names
    <2>5. pos' \in 0 .. Len(protos) BY <1>1, <2>1
    <2> QED BY <2>1, <2>3, <2>4, <2>5, RegisterKeeps
<1>4. CASE RegisterImport
    <2>1. /\ status = "building" /\ stack # <<>> /\ HasImport /\ pos' = pos
          /\ register(Imports[Top.dep + 1], [stack EXCEPT ![Len(stack)].dep = @ + 1])
        BY <1>4 DEF RegisterImport
    <2>2. Waiting(protos, stack, registered, pos, {}) BY <2>1 DEF BuildInv
    <2>3. PICK f : f = byName(protos, stack[Len(stack)].name) OBVIOUS
    <2>4. stack[Len(stack)].dep < Len(f.deps) BY <2>1, <2>3 DEF HasImport, Imports, Top
    <2>5. PICK d : d = stack[Len(stack)].dep + 1 OBVIOUS
    <2>6. PICK callers : callers = [stack EXCEPT ![Len(stack)].dep = @ + 1] OBVIOUS
    <2>7. /\ f \in Effective(protos) /\ d \in DOMAIN f.deps
          /\ Waiting(protos, callers, registered, pos, {f.deps[d]})
        BY <1>1, <2>1, <2>2, <2>3, <2>4, <2>5, <2>6, WaitingImport
    <2>8. register(f.deps[d], callers)
        BY <2>1, <2>3, <2>5, <2>6 DEF Imports, Top
    <2>9. f.deps[d] \notin Names(protos) \cup GlobalFiles => ~Buildable(protos)
        BY <2>7, MissingImport
    <2> QED BY <1>1, <2>1, <2>7, <2>8, <2>9, RegisterKeeps
<1>5. CASE AddFile
    <2>1. /\ status = "building" /\ stack # <<>> /\ ~HasImport
          /\ protos' = protos /\ pos' = pos
        BY <1>5 DEF AddFile
    <2>2. Waiting(protos, stack, registered, pos, {}) /\ Accepted(protos)
        BY <2>1 DEF BuildInv
    <2>3. PICK f : f = byName(protos, stack[Len(stack)].name) OBVIOUS
    <2>4. ~(stack[Len(stack)].dep < Len(f.deps))
        BY <2>1, <2>3 DEF HasImport, Imports, Top
    <2>5. /\ f.name \in Names(protos) /\ f = byName(protos, f.name)
          /\ ToSet(f.deps) \subseteq registered
          /\ Waiting(protos, Front(stack), registered \cup {f.name}, pos, {})
        BY <1>1, <2>1, <2>2, <2>3, <2>4, WaitingPop
    <2>6. CASE f.name \in Names(files)
        <3>1. /\ files' = files /\ registered' = registered \cup {f.name}
              /\ stack' = Front(stack) /\ status' = status
            BY <1>5, <2>3, <2>6 DEF AddFile, Top
        <3>2. GoodFiles(protos, files, registered') BY <1>1, <2>6, <3>1, GoodMore
        <3> QED BY <1>1, <2>1, <2>2, <2>5, <3>1, <3>2 DEF BuildInv
    <2>7. CASE f.name \notin Names(files) /\ CanRegister(files, f)
        <3>1. /\ files' = Append(files, f) /\ registered' = registered \cup {f.name}
              /\ stack' = Front(stack) /\ status' = status
            BY <1>5, <2>3, <2>7 DEF AddFile, Top
        <3>2. GoodFiles(protos, files', registered')
            BY <1>1, <2>5, <2>7, <3>1, GoodAppend
        <3> QED BY <1>1, <2>1, <2>2, <2>5, <3>1, <3>2 DEF BuildInv
    <2>8. CASE f.name \notin Names(files) /\ ~CanRegister(files, f)
        <3>1. UNCHANGED <<files, registered>> /\ status' = "failed"
            BY <1>5, <2>3, <2>8 DEF AddFile, Top
        <3>2. ~Buildable(protos) \/ Redeclares(protos)
            BY <1>1, <2>5, <2>8, CannotRegister
        <3> QED BY <1>1, <2>1, <3>1, <3>2 DEF BuildInv
    <2> QED BY <2>6, <2>7, <2>8
<1>6. CASE Built
    BY <1>1, <1>6 DEF Built, BuildInv
<1> QED BY <1>2, <1>3, <1>4, <1>5, <1>6 DEF BuildNext

(* It depends on the variables of FileSet only. *)
LEMMA BuildUnchanged ==
    ASSUME BuildInv, UNCHANGED fileSetVars
    PROVE  BuildInv'
BY DEF BuildInv, fileSetVars

(* What the invariant says of a finished set. *)
LEMMA BuildResult ==
    ASSUME BuildInv, status = "built"
    PROVE  /\ Buildable(protos)
           /\ ToSet(files) = Effective(protos)
           /\ Len(files) = Cardinality(Names(protos))
           /\ ImportsFirst(files)
<1>1. /\ protos \in Seq(FileDescriptors) /\ pos = Len(protos) /\ stack = <<>>
      /\ Waiting(protos, <<>>, registered, Len(protos), {}) /\ Accepted(protos)
      /\ GoodFiles(protos, files, registered)
    BY DEF BuildInv
<1>2. Names(protos) \subseteq registered
    <2>1. Len(<<>>) = 0 /\ ~(Len(<<>>) > 0) OBVIOUS
    <2>2. \A i \in 1 .. Len(protos) : protos[i].name \in registered
        BY <1>1, <2>1 DEF Waiting, FilesWait
    <2>3. DOMAIN protos = 1 .. Len(protos) BY <1>1
    <2> QED BY <2>2, <2>3 DEF Names
<1> QED BY <1>1, <1>2, GoodComplete DEF Accepted

-----------------------------------------------------------------------------
(* Every function, from its call to its return *)

(* What a call that has returned has returned. *)
ReturnsValue ==
    /\ call.fn = "ParseConfig" => ret = ParseConfig(call.pod)
    /\ call.fn = "Interpolate" => ret = Interpolate(call.data, call.s)
    /\ call.fn = "extract" =>
          ret = extractVariables(call.data, call.doc, call.extract)
    /\ call.fn = "resolve" =>
          /\ status \in {"built", "failed"}
          /\ ret <=> resolveMethodDescriptor(call.service, call.method)

(* The inductive invariant of the calls. *)
FunctionsInv ==
    /\ call \in Calls
    /\ BuildInv
    /\ returned => ReturnsValue

(* The arguments of a call are of their kinds. *)
LEMMA CallFacts ==
    ASSUME NEW c \in Calls
    PROVE  /\ c.fn = "ParseConfig" => c.pod \in PodObjects
           /\ c.fn = "Interpolate" => IsSession(c.data) /\ c.s \in Text
           /\ c.fn = "extract" =>
                 /\ IsDocument(c.doc)
                 /\ \A v \in DOMAIN c.extract : c.extract[v] \in JSONPaths
<1>1. CASE c \in [fn : {"ParseConfig"}, pod : PodInputs]
    BY <1>1, InputsAssumption
<1>2. CASE c \in [fn : {"resolve"}, service : Services, method : Methods]
    BY <1>2
<1>3. CASE c \in [fn : {"Interpolate"}, data : Sessions, s : Texts]
    BY <1>3, InputsAssumption
<1>4. CASE c \in [fn : {"extract"}, data : SessionsBefore, doc : Documents,
                  extract : Extracts]
    BY <1>4, InputsAssumption
<1> QED BY <1>1, <1>2, <1>3, <1>4 DEF Calls

(* The invariant holds initially. *)
LEMMA FunctionsStart == Init => FunctionsInv
<1> SUFFICES ASSUME Init PROVE FunctionsInv OBVIOUS
<1>1. call \in Calls /\ ~returned BY DEF Init
<1>2. PICK response \in (IF call.fn = "resolve" THEN Responses ELSE {<<>>}) :
          buildFileSet(response)
    BY DEF Init
<1>3. response \in Seq(FileDescriptors) BY InputsAssumption, EmptySeq
<1>4. BuildInv BY <1>2, <1>3, BuildStarts
<1> QED BY <1>1, <1>4 DEF FunctionsInv

(* buildFileSet makes no step once it has returned. *)
LEMMA BuildNextRuns ==
    ASSUME BuildNext
    PROVE  status \notin {"built", "failed"}
BY DEF BuildNext, Unmarshal, RegisterFile, RegisterImport, AddFile, Built

(* Every step keeps the invariant. *)
LEMMA FunctionsStep == FunctionsInv /\ [Next]_vars => FunctionsInv'
<1> SUFFICES ASSUME FunctionsInv, [Next]_vars PROVE FunctionsInv' OBVIOUS
<1>0. call \in Calls /\ BuildInv /\ (returned => ReturnsValue) BY DEF FunctionsInv
<1>1. ASSUME NEW fn, NEW value, Returns(fn, value),
             fn = "ParseConfig" => value = ParseConfig(call.pod),
             fn = "Interpolate" => value = Interpolate(call.data, call.s),
             fn = "extract" =>
                value = extractVariables(call.data, call.doc, call.extract),
             fn = "resolve" =>
                /\ status \in {"built", "failed"}
                /\ value <=> resolveMethodDescriptor(call.service, call.method)
      PROVE  FunctionsInv'
    <2>1. /\ call.fn = fn /\ ret' = value /\ call' = call
          /\ UNCHANGED fileSetVars
        BY <1>1 DEF Returns
    <2>2. BuildInv' BY <1>0, <2>1, BuildUnchanged
    <2>3. UNCHANGED <<status, files>> BY <2>1 DEF fileSetVars
    <2>4. resolveMethodDescriptor(call.service, call.method)'
             <=> resolveMethodDescriptor(call.service, call.method)
        BY <2>1, <2>3 DEF resolveMethodDescriptor
    <2>5. ReturnsValue' BY <1>1, <2>1, <2>3, <2>4 DEF ReturnsValue
    <2> QED BY <1>0, <2>1, <2>2, <2>5 DEF FunctionsInv
<1>2. CASE Returns("ParseConfig", ParseConfig(call.pod)) BY <1>1, <1>2
<1>3. CASE Returns("Interpolate", Interpolate(call.data, call.s)) BY <1>1, <1>3
<1>4. CASE Returns("extract", extractVariables(call.data, call.doc, call.extract))
    BY <1>1, <1>4
<1>5. CASE Build
    <2>1. call.fn = "resolve" /\ BuildNext /\ UNCHANGED <<call, returned, ret>>
        BY <1>5 DEF Build
    <2>2. BuildInv' BY <1>0, <2>1, BuildKeeps
    <2>3. status \notin {"built", "failed"} BY <2>1, BuildNextRuns
    <2>4. ~returned BY <1>0, <2>1, <2>3 DEF ReturnsValue
    <2> QED BY <1>0, <2>1, <2>2, <2>4 DEF FunctionsInv
<1>6. CASE Resolved
    <2>1. PICK v : v = resolveMethodDescriptor(call.service, call.method) OBVIOUS
    <2>2. status \in {"built", "failed"} /\ Returns("resolve", v)
        BY <1>6, <2>1 DEF Resolved
    <2> QED BY <1>1, <2>1, <2>2
<1>7. CASE UNCHANGED vars
    <2>1. UNCHANGED <<call, returned, ret>> /\ UNCHANGED fileSetVars
        BY <1>7 DEF vars
    <2>2. BuildInv' BY <1>0, <2>1, BuildUnchanged
    <2>3. UNCHANGED <<status, files>> BY <2>1 DEF fileSetVars
    <2>4. ReturnsValue <=> ReturnsValue'
        BY <2>1, <2>3 DEF ReturnsValue, resolveMethodDescriptor
    <2> QED BY <1>0, <2>1, <2>2, <2>4 DEF FunctionsInv
<1> QED BY <1>2, <1>3, <1>4, <1>5, <1>6, <1>7 DEF Next, Stopped

(* Every function of the warmup package returns what its definition says   *)
(* of its arguments, and buildFileSet keeps its set of files consistent    *)
(* with the response.                                                      *)
THEOREM FunctionsInvariant == Spec => []FunctionsInv
BY FunctionsStart, FunctionsStep, PTL DEF Spec

(* Whatever its annotations, a pod whose configuration ParseConfig accepts *)
(* has one that the executors can run.                                     *)
THEOREM AcceptedConfigsRun == Spec => []AcceptedIsRunnable
<1>1. ASSUME FunctionsInv PROVE AcceptedIsRunnable
    <2> SUFFICES ASSUME returned, call.fn = "ParseConfig", ret.error = "none"
                 PROVE  Runnable(ret)
        BY DEF AcceptedIsRunnable, Returned
    <2>1. call.pod \in PodObjects BY <1>1, CallFacts DEF FunctionsInv
    <2>2. ret = ParseConfig(call.pod) BY <1>1 DEF FunctionsInv, ReturnsValue
    <2> QED BY <2>1, <2>2, ParseConfigSound
<1> QED BY <1>1, FunctionsInvariant, PTL

(* Whatever its containers, ParseConfig takes the port of a pod from the   *)
(* annotation, or the pod has only that one.                               *)
THEOREM PortsCertain == Spec => []PortNeverGuessed
<1>1. ASSUME FunctionsInv PROVE PortNeverGuessed
    <2> SUFFICES ASSUME returned, call.fn = "ParseConfig", ret.error = "none"
                 PROVE  PortCertain(call.pod, ret)
        BY DEF PortNeverGuessed, Returned
    <2>1. call.pod \in PodObjects BY <1>1, CallFacts DEF FunctionsInv
    <2>2. ret = ParseConfig(call.pod) BY <1>1 DEF FunctionsInv, ReturnsValue
    <2> QED BY <2>1, <2>2, ParseConfigSound
<1> QED BY <1>1, FunctionsInvariant, PTL

(* Whatever a server's reflection response holds and in whatever order,    *)
(* buildFileSet that returns has either rejected a response it must        *)
(* reject, or registered every file of it once, imports first. Nothing is  *)
(* assumed about import cycles: with one, it does not return.              *)
THEOREM FileSetsComplete == Spec => []FileSetComplete
<1>1. ASSUME FunctionsInv PROVE FileSetComplete
    <2>1. BuildInv BY <1>1 DEF FunctionsInv
    <2>2. status = "failed" => ~Buildable(protos) \/ Redeclares(protos)
        BY <2>1 DEF BuildInv
    <2> QED BY <2>1, <2>2, BuildResult DEF FileSetComplete
<1> QED BY <1>1, FunctionsInvariant, PTL

(* resolveMethodDescriptor finds a method only if the response is usable   *)
(* and declares it as a unary method of the service, and always finds it   *)
(* then, unless the response redeclares global messages.                   *)
THEOREM UnaryMethodsFound == Spec => []UnaryMethodFound
<1>1. ASSUME FunctionsInv PROVE UnaryMethodFound
    <2> DEFINE declared == \E f \in Effective(protos) : \E s \in f.symbols :
                  /\ s.name = call.service /\ s.kind = "service"
                  /\ call.method \in s.unary
    <2> SUFFICES ASSUME returned, call.fn = "resolve"
                 PROVE  /\ ret => Buildable(protos) /\ declared
                        /\ Buildable(protos) /\ declared => ret \/ Redeclares(protos)
        BY DEF UnaryMethodFound, Returned
    <2>1. /\ BuildInv /\ status \in {"built", "failed"}
          /\ ret <=> resolveMethodDescriptor(call.service, call.method)
        BY <1>1 DEF FunctionsInv, ReturnsValue
    <2>2. CASE status = "built"
        <3>1. Buildable(protos) /\ ToSet(files) = Effective(protos)
            BY <2>1, <2>2, BuildResult
        <3>2. resolveMethodDescriptor(call.service, call.method) <=> declared
            BY <2>2, <3>1 DEF resolveMethodDescriptor, FindDescriptorByName,
                              IsUnaryMethod
        <3> QED BY <2>1, <3>1, <3>2
    <2>3. CASE status = "failed"
        <3>1. ~Buildable(protos) \/ Redeclares(protos) BY <2>1, <2>3 DEF BuildInv
        <3>2. ~resolveMethodDescriptor(call.service, call.method)
            BY <2>3 DEF resolveMethodDescriptor
        <3> QED BY <2>1, <3>1, <3>2
    <2> QED BY <2>1, <2>2, <2>3
<1> QED BY <1>1, FunctionsInvariant, PTL

(* Interpolate replaces the tokens of the variables that are set, and in   *)
(* their values those of later keys only, for any number of keys, any      *)
(* session and any text.                                                   *)
THEOREM TextsExpanded == Spec => []InterpolateExpandsForward
<1>1. ASSUME FunctionsInv PROVE InterpolateExpandsForward
    <2> SUFFICES ASSUME returned, call.fn = "Interpolate"
                 PROVE  ret = Expansion(call.data, call.s)
        BY DEF InterpolateExpandsForward, Returned
    <2>1. IsSession(call.data) /\ call.s \in Text BY <1>1, CallFacts DEF FunctionsInv
    <2>2. ret = Interpolate(call.data, call.s)
        BY <1>1 DEF FunctionsInv, ReturnsValue
    <2> QED BY <2>1, <2>2, InterpolateExpands
<1> QED BY <1>1, FunctionsInvariant, PTL

(* extractVariables sets exactly the variables whose paths lead somewhere  *)
(* in the response body, for any document and any paths.                   *)
THEOREM VariablesExtracted == Spec => []ExtractsWhatPathsName
<1>1. ASSUME FunctionsInv PROVE ExtractsWhatPathsName
    <2> SUFFICES ASSUME returned, call.fn = "extract"
                 PROVE  Extracted(call.data, call.doc, call.extract, ret)
        BY DEF ExtractsWhatPathsName, Returned
    <2>1. /\ IsDocument(call.doc)
          /\ \A v \in DOMAIN call.extract : call.extract[v] \in JSONPaths
        BY <1>1, CallFacts DEF FunctionsInv
    <2>2. ret = extractVariables(call.data, call.doc, call.extract)
        BY <1>1 DEF FunctionsInv, ReturnsValue
    <2> QED BY <2>1, <2>2, ExtractFinds
<1> QED BY <1>1, FunctionsInvariant, PTL

-----------------------------------------------------------------------------
(* How deep register recurses *)

(* Imports have no cycle: every file of the response comes in a layer      *)
(* above those it imports.                                                 *)
Layered(response, rank) ==
    \A n \in Names(response) :
        \A m \in ToSet(byName(response, n).deps) \cap Names(response) :
            rank[m] < rank[n]

(* The calls of register that have not returned are no more than there are *)
(* layers.                                                                 *)
DepthBounded ==
    \A N \in Nat : \A rank \in [Names(protos) -> 1 .. N] :
        Layered(protos, rank) => Len(stack) <= N

(* Every call but the first was made for an import of the one before. *)
Nested(response, stk) ==
    /\ stk \in Seq(Frames)
    /\ \A k \in 1 .. Len(stk) : stk[k].name \in Names(response)
    /\ \A k \in 1 .. Len(stk) : k > 1 =>
          stk[k].name \in ToSet(byName(response, stk[k - 1].name).deps)

(* A call with others before it, for an import of the last. *)
LEMMA NestedPush ==
    ASSUME NEW response \in Seq(FileDescriptors), NEW stk, Nested(response, stk),
           NEW n \in Names(response),
           Len(stk) > 0 => n \in ToSet(byName(response, stk[Len(stk)].name).deps)
    PROVE  Nested(response, Append(stk, [name |-> n, dep |-> 0]))
<1>1. stk \in Seq(Frames) BY DEF Nested
<1>2. PICK m \in Nat : m = Len(stk) BY <1>1
<1>3. PICK fr : fr = [name |-> n, dep |-> 0] OBVIOUS
<1>4. fr.name = n BY <1>3
<1>5. fr \in Frames
    <2>1. byName(response, n) \in FileDescriptors /\ byName(response, n).name = n
        BY ByName
    <2>2. n \in STRING BY <2>1 DEF FileDescriptors
    <2> QED BY <1>3, <2>2 DEF Frames
<1>6. PICK t : t = Append(stk, fr) OBVIOUS
<1>7. /\ t \in Seq(Frames) /\ Len(t) = m + 1
      /\ \A k \in 1 .. m : t[k] = stk[k]
      /\ t[m + 1] = fr
    BY <1>1, <1>2, <1>5, <1>6
<1>8. ASSUME NEW k \in 1 .. m + 1
      PROVE  /\ t[k].name \in Names(response)
             /\ k > 1 => t[k].name \in ToSet(byName(response, t[k - 1].name).deps)
    <2>1. CASE k = m + 1
        <3>1. t[k].name = n /\ k - 1 = m BY <1>4, <1>7, <2>1
        <3>2. k > 1 => t[k - 1] = stk[m] /\ Len(stk) > 0 BY <1>2, <1>7, <2>1
        <3> QED BY <1>2, <3>1, <3>2
    <2>2. CASE k \in 1 .. m
        <3>1. t[k] = stk[k] /\ (k > 1 => t[k - 1] = stk[k - 1]) BY <1>7, <2>2
        <3> QED BY <1>2, <2>2, <3>1 DEF Nested
    <2> QED BY <2>1, <2>2
<1> QED BY <1>3, <1>6, <1>7, <1>8 DEF Nested

(* Following an import changes no name. *)
LEMMA NestedImport ==
    ASSUME NEW response, NEW stk, Nested(response, stk), stk # <<>>
    PROVE  LET t == [stk EXCEPT ![Len(stk)].dep = @ + 1] IN
           /\ Nested(response, t)
           /\ Len(t) = Len(stk) /\ t[Len(t)].name = stk[Len(stk)].name
<1>1. stk \in Seq(Frames) BY DEF Nested
<1>2. PICK m \in Nat : m = Len(stk) /\ m > 0 BY <1>1, EmptySeq
<1>3. PICK fr : fr = [stk[m] EXCEPT !.dep = @ + 1] OBVIOUS
<1>4. stk[m] \in Frames BY <1>1, <1>2
<1>5. fr.name = stk[m].name BY <1>3, <1>4 DEF Frames
<1>6. fr \in Frames BY <1>3, <1>4 DEF Frames
<1>7. PICK t : t = [stk EXCEPT ![m] = fr] OBVIOUS
<1>8. t = [stk EXCEPT ![Len(stk)].dep = @ + 1] BY <1>1, <1>2, <1>3, <1>7
<1>9. /\ t \in Seq(Frames) /\ Len(t) = m
      /\ t[m] = fr /\ \A k \in 1 .. m : k # m => t[k] = stk[k]
    BY <1>1, <1>2, <1>6, <1>7
<1>10. \A k \in 1 .. m : t[k].name = stk[k].name BY <1>5, <1>9
<1>11. \A k \in 1 .. m : k > 1 => k - 1 \in 1 .. m OBVIOUS
<1>12. \A k \in 1 .. m : k > 1 => t[k - 1].name = stk[k - 1].name BY <1>10, <1>11
<1>13. Nested(response, t) BY <1>2, <1>9, <1>10, <1>12 DEF Nested
<1> QED BY <1>2, <1>8, <1>9, <1>10, <1>13

(* A call that returns. *)
LEMMA NestedPop ==
    ASSUME NEW response, NEW stk, Nested(response, stk), stk # <<>>
    PROVE  Nested(response, Front(stk))
<1>1. stk \in Seq(Frames) BY DEF Nested
<1>2. PICK m \in Nat : m = Len(stk) /\ m > 0 BY <1>1, EmptySeq
<1>3. PICK t : t = Front(stk) OBVIOUS
<1>4. /\ t \in Seq(Frames) /\ Len(t) = m - 1
      /\ \A k \in 1 .. m - 1 : t[k] = stk[k]
    BY <1>1, <1>2, <1>3 DEF Front
<1>5. \A k \in 1 .. m - 1 : k \in 1 .. m /\ (k > 1 => k - 1 \in 1 .. m - 1) OBVIOUS
<1> QED BY <1>2, <1>3, <1>4, <1>5 DEF Nested

(* No calls at all. *)
LEMMA NestedEmpty == ASSUME NEW response PROVE Nested(response, <<>>)
<1>1. <<>> \in Seq(Frames) /\ 1 .. Len(<<>>) = {} BY EmptySeq
<1> QED BY <1>1 DEF Nested

(* A call is at least one layer below the one before it. *)
LEMMA NestedDepth ==
    ASSUME NEW response, NEW stk, Nested(response, stk), NEW N \in Nat,
           NEW rank \in [Names(response) -> 1 .. N], Layered(response, rank)
    PROVE  Len(stk) <= N
<1>1. stk \in Seq(Frames) BY DEF Nested
<1>2. PICK m \in Nat : m = Len(stk) BY <1>1
<1>3. \A k \in 1 .. m : rank[stk[k].name] \in 1 .. N BY <1>2 DEF Nested
<1>4. ASSUME NEW k \in 1 .. m, k > 1
      PROVE  rank[stk[k].name] < rank[stk[k - 1].name]
    <2>1. k - 1 \in 1 .. m BY <1>4
    <2>2. stk[k].name \in Names(response) /\ stk[k - 1].name \in Names(response)
        BY <1>2, <2>1 DEF Nested
    <2>3. stk[k].name \in ToSet(byName(response, stk[k - 1].name).deps)
        BY <1>2, <1>4 DEF Nested
    <2> QED BY <2>2, <2>3 DEF Layered
<1>5. PICK r : r = [k \in 1 .. m |-> rank[stk[k].name]] OBVIOUS
<1>6. /\ \A k \in 1 .. m : r[k] \in 1 .. N
      /\ \A k \in 1 .. m : k > 1 => r[k] < r[k - 1]
    BY <1>3, <1>4, <1>5
<1> DEFINE S == {k \in Nat : k + 1 <= m => r[k + 1] + k <= N}
<1>7. 0 \in S
    <2>1. 0 + 1 <= m => 1 \in 1 .. m /\ 0 + 1 = 1 OBVIOUS
    <2> QED BY <1>6, <2>1
<1>8. ASSUME NEW k \in Nat, k \in S PROVE k + 1 \in S
    <2> SUFFICES ASSUME (k + 1) + 1 <= m PROVE r[(k + 1) + 1] + (k + 1) <= N OBVIOUS
    <2>1. PICK i \in 1 .. m : i = k + 1 + 1 /\ i > 1 /\ i - 1 = k + 1 OBVIOUS
    <2>2. r[i] < r[k + 1] /\ r[i] \in Int /\ r[k + 1] \in Int
        <3>1. k + 1 \in 1 .. m BY <2>1
        <3> QED BY <1>6, <2>1, <3>1
    <2>3. r[k + 1] + k <= N BY <1>8
    <2> QED BY <2>1, <2>2, <2>3
<1> HIDE DEF S
<1>9. \A k \in Nat : k \in S BY <1>7, <1>8, NatSetInduction
<1>10. CASE m = 0 BY <1>2, <1>10
<1>11. CASE m > 0
    <2>1. m - 1 \in Nat /\ (m - 1) + 1 = m /\ m \in 1 .. m BY <1>11
    <2>2. r[m] + (m - 1) <= N BY <1>9, <2>1 DEF S
    <2>3. r[m] \in 1 .. N BY <1>6, <2>1
    <2> QED BY <1>2, <2>2, <2>3
<1> QED BY <1>10, <1>11

(* The calls stay nested. *)
LEMMA NestedStep ==
    ASSUME BuildInv, Nested(protos, stack), BuildNext
    PROVE  Nested(protos, stack)'
<1>1. protos \in Seq(FileDescriptors) BY DEF BuildInv
<1>2. ASSUME NEW n, NEW callers, register(n, callers), Nested(protos, callers),
             Len(callers) > 0 =>
                n \in ToSet(byName(protos, callers[Len(callers)].name).deps)
      PROVE  Nested(protos, stack)'
    <2>1. protos' = protos BY <1>2 DEF register
    <2>2. \/ stack' = callers \/ stack' = <<>>
          \/ n \in Names(protos) /\ stack' = Append(callers, [name |-> n, dep |-> 0])
        BY <1>2 DEF register
    <2>3. CASE stack' = callers BY <1>2, <2>1, <2>3
    <2>4. CASE stack' = <<>> BY <2>1, <2>4, NestedEmpty
    <2>5. CASE n \in Names(protos) /\ stack' = Append(callers, [name |-> n, dep |-> 0])
        <3>1. Nested(protos, Append(callers, [name |-> n, dep |-> 0]))
            BY <1>1, <1>2, <2>5, NestedPush
        <3> QED BY <2>1, <2>5, <3>1
    <2> QED BY <2>2, <2>3, <2>4, <2>5
<1>3. CASE Unmarshal BY <1>3 DEF Unmarshal
<1>4. CASE RegisterFile
    <2>1. register(protos[pos + 1].name, <<>>) BY <1>4 DEF RegisterFile
    <2>2. ~(Len(<<>>) > 0) OBVIOUS
    <2> QED BY <1>2, <2>1, <2>2, NestedEmpty
<1>5. CASE RegisterImport
    <2>1. PICK callers : callers = [stack EXCEPT ![Len(stack)].dep = @ + 1] OBVIOUS
    <2>2. PICK f : f = byName(protos, stack[Len(stack)].name) OBVIOUS
    <2>3. PICK d : d = stack[Len(stack)].dep + 1 OBVIOUS
    <2>4. /\ status = "building" /\ stack # <<>>
          /\ stack[Len(stack)].dep < Len(f.deps) /\ register(f.deps[d], callers)
        BY <1>5, <2>1, <2>2, <2>3 DEF RegisterImport, HasImport, Imports, Top
    <2>5. Waiting(protos, stack, registered, pos, {}) BY <2>4 DEF BuildInv
    <2>6. d \in DOMAIN f.deps
        BY <1>1, <2>2, <2>3, <2>4, <2>5, WaitingImport
    <2>7. f.deps[d] \in ToSet(f.deps) BY <2>6 DEF ToSet
    <2>8. /\ Nested(protos, callers)
          /\ callers[Len(callers)].name = stack[Len(stack)].name
        BY <2>1, <2>4, NestedImport
    <2> QED BY <1>2, <2>2, <2>4, <2>7, <2>8
<1>6. CASE AddFile
    <2>1. /\ protos' = protos /\ stack # <<>>
          /\ stack' = Front(stack) \/ stack' = <<>>
        BY <1>6 DEF AddFile
    <2> QED BY <2>1, NestedPop, NestedEmpty
<1>7. CASE Built BY <1>7 DEF Built
<1> QED BY <1>3, <1>4, <1>5, <1>6, <1>7 DEF BuildNext

(* If the imports of a reflection response have no cycle, register never   *)
(* recurses deeper than the longest chain of imports, whatever the order   *)
(* of the files and however often they are imported.                       *)
THEOREM RecursionBounded == Spec => []DepthBounded
<1>1. Init => Nested(protos, stack)
    BY NestedEmpty DEF Init, buildFileSet
<1>2. FunctionsInv /\ Nested(protos, stack) /\ [Next]_vars => Nested(protos, stack)'
    <2> SUFFICES ASSUME FunctionsInv, Nested(protos, stack), [Next]_vars
                 PROVE  Nested(protos, stack)'
        OBVIOUS
    <2>1. CASE Build BY <2>1, NestedStep DEF Build, FunctionsInv
    <2>2. CASE UNCHANGED fileSetVars BY <2>2 DEF fileSetVars
    <2> QED BY <2>1, <2>2 DEF Next, Returns, Resolved, Stopped, vars
<1>3. Nested(protos, stack) => DepthBounded BY NestedDepth DEF DepthBounded
<1> QED BY <1>1, <1>2, <1>3, FunctionsInvariant, PTL DEF Spec
=============================================================================
