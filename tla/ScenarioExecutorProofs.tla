----------------------- MODULE ScenarioExecutorProofs -----------------------
(***************************************************************************)
(* Theorems about ScenarioExecutor, for every scenario, set of variables,  *)
(* statuses and methods.                                                   *)
(***************************************************************************)
EXTENDS ScenarioExecutor, FiniteSetTheorems, TLAPS

-----------------------------------------------------------------------------
(* Shots *)

Lists == Seq(Seq(Requests))

LEMMA RequestType ==
    ASSUME NEW sc \in Lists, NEW s \in DOMAIN sc, NEW r \in DOMAIN sc[s]
    PROVE  /\ s \in Nat \ {0} /\ s <= Len(sc)
           /\ r \in Nat \ {0} /\ r <= Len(sc[s])
           /\ sc[s][r] \in Requests
           /\ Count(sc[s][r]) \in Nat \ {0}
<1>1. sc[s] \in Seq(Requests) /\ s \in 1 .. Len(sc) BY DEF Lists
<1>2. sc[s][r] \in Requests /\ r \in 1 .. Len(sc[s]) BY <1>1
<1>3. sc[s][r].count \in Nat BY <1>2 DEF Requests
<1> QED BY <1>1, <1>2, <1>3 DEF Count

LEMMA ShotsMember ==
    ASSUME NEW sc, NEW sh
    PROVE  sh \in Shots(sc) <=>
               \E s \in DOMAIN sc : \E r \in DOMAIN sc[s] :
                   \E n \in 0 .. Count(sc[s][r]) - 1 : sh = <<s, r, n>>
BY DEF Shots

LEMMA ShotType ==
    ASSUME NEW sc \in Lists, NEW sh \in Shots(sc)
    PROVE  /\ sh = <<sh[1], sh[2], sh[3]>>
           /\ sh[1] \in DOMAIN sc /\ sh[1] \in Nat \ {0}
           /\ sh[2] \in DOMAIN sc[sh[1]] /\ sh[2] \in Nat \ {0}
           /\ sh[3] \in Nat /\ sh[3] < Count(sc[sh[1]][sh[2]])
<1>1. PICK s \in DOMAIN sc : \E r \in DOMAIN sc[s] :
          \E n \in 0 .. Count(sc[s][r]) - 1 : sh = <<s, r, n>>
    BY ShotsMember
<1>2. PICK r \in DOMAIN sc[s] : \E n \in 0 .. Count(sc[s][r]) - 1 : sh = <<s, r, n>>
    BY <1>1
<1>3. PICK n \in 0 .. Count(sc[s][r]) - 1 : sh = <<s, r, n>>
    BY <1>2
<1>4. /\ s \in Nat \ {0} /\ r \in Nat \ {0} /\ Count(sc[s][r]) \in Nat \ {0}
    BY RequestType
<1>5. n \in Nat /\ n < Count(sc[s][r]) BY <1>4
<1>6. sh[1] = s /\ sh[2] = r /\ sh[3] = n BY <1>3
<1> QED BY <1>3, <1>4, <1>5, <1>6

LEMMA IsShot ==
    ASSUME NEW sc \in Lists, NEW s \in DOMAIN sc, NEW r \in DOMAIN sc[s],
           NEW n \in Nat, n < Count(sc[s][r])
    PROVE  <<s, r, n>> \in Shots(sc)
<1>1. n \in 0 .. Count(sc[s][r]) - 1 BY RequestType
<1> QED BY <1>1, ShotsMember

(* A set that a function maps a finite set onto is finite. *)
LEMMA Onto ==
    ASSUME NEW S, IsFiniteSet(S), NEW f, f \in [S -> {f[x] : x \in S}]
    PROVE  IsFiniteSet({f[x] : x \in S})
<1>1. f \in Surjection(S, {f[x] : x \in S}) BY DEF Surjection
<1> QED BY <1>1, FS_Surjection

(* The shots of one request from the n-th up to the m-th. *)
Span(s, r, n, m) == {<<s, r, k>> : k \in n .. m - 1}

LEMMA SpanCardinality ==
    ASSUME NEW s, NEW r, NEW n \in Nat, NEW m \in Nat, n <= m
    PROVE  IsFiniteSet(Span(s, r, n, m)) /\ Cardinality(Span(s, r, n, m)) = m - n
<1> DEFINE f == [k \in n .. m - 1 |-> <<s, r, k>>]
<1>1. f \in Surjection(n .. m - 1, Span(s, r, n, m))
    BY DEF Surjection, Span
<1>2. f \in Injection(n .. m - 1, Span(s, r, n, m))
    BY <1>1 DEF Injection, IsInjective, Surjection
<1>3. /\ IsFiniteSet(n .. m - 1)
      /\ Cardinality(n .. m - 1) = m - n
    <2>1. m - 1 \in Int /\ n \in Int OBVIOUS
    <2>2. /\ IsFiniteSet(n .. (m - 1))
          /\ Cardinality(n .. (m - 1)) = IF n > m - 1 THEN 0 ELSE (m - 1) - n + 1
        BY ONLY <2>1, FS_Interval
    <2> QED BY <2>2
<1> QED BY <1>1, <1>2, <1>3, FS_Surjection

LEMMA ShotsFinite ==
    ASSUME NEW sc \in Lists
    PROVE  IsFiniteSet(Shots(sc))
<1> DEFINE Q(s) == [r \in DOMAIN sc[s] |-> Span(s, r, 0, Count(sc[s][r]))]
           ofStep(s) == UNION {Q(s)[r] : r \in DOMAIN sc[s]}
           P == [s \in DOMAIN sc |-> ofStep(s)]
<1>1. ASSUME NEW s \in DOMAIN sc PROVE IsFiniteSet(ofStep(s))
    <2>1. sc[s] \in Seq(Requests) BY DEF Lists
    <2>2. IsFiniteSet(DOMAIN sc[s])
        <3>1. DOMAIN sc[s] = 1 .. Len(sc[s]) /\ Len(sc[s]) \in Int BY <2>1
        <3> QED BY <3>1, FS_Interval
    <2>3. PICK q : q = Q(s) OBVIOUS
    <2>4. q \in [DOMAIN sc[s] -> {q[x] : x \in DOMAIN sc[s]}]
        BY <2>3
    <2> HIDE DEF Q
    <2>5. IsFiniteSet({q[r] : r \in DOMAIN sc[s]}) BY <2>2, <2>4, Onto
    <2>6. ASSUME NEW r \in DOMAIN sc[s] PROVE IsFiniteSet(q[r])
        <3>1. q[r] = Span(s, r, 0, Count(sc[s][r])) BY <2>3 DEF Q
        <3>2. Count(sc[s][r]) \in Nat BY RequestType
        <3> QED BY <3>1, <3>2, SpanCardinality
    <2>7. \A T \in {q[r] : r \in DOMAIN sc[s]} : IsFiniteSet(T) BY <2>6
    <2>8. IsFiniteSet(UNION {q[r] : r \in DOMAIN sc[s]}) BY <2>5, <2>7, FS_UNION
    <2> QED BY <2>3, <2>8
<1>2. IsFiniteSet(DOMAIN sc)
    <2>1. DOMAIN sc = 1 .. Len(sc) /\ Len(sc) \in Int BY DEF Lists
    <2> QED BY <2>1, FS_Interval
<1>3. PICK p : p = P OBVIOUS
<1>4. /\ p \in [DOMAIN sc -> {p[x] : x \in DOMAIN sc}]
      /\ \A s \in DOMAIN sc : p[s] = ofStep(s)
    <2> HIDE DEF ofStep
    <2> QED BY <1>3
<1> HIDE DEF P, ofStep
<1>5. IsFiniteSet({p[s] : s \in DOMAIN sc}) BY <1>2, <1>4, Onto
<1>6. \A T \in {p[s] : s \in DOMAIN sc} : IsFiniteSet(T) BY <1>1, <1>4
<1>7. IsFiniteSet(UNION {p[s] : s \in DOMAIN sc}) BY <1>5, <1>6, FS_UNION
<1>8. ASSUME NEW sh PROVE sh \in Shots(sc) <=> sh \in UNION {p[s] : s \in DOMAIN sc}
    <2>1. sh \in UNION {p[s] : s \in DOMAIN sc} <=> \E s \in DOMAIN sc : sh \in ofStep(s)
        BY <1>4
    <2>2. ASSUME NEW s \in DOMAIN sc
          PROVE  sh \in ofStep(s) <=> \E r \in DOMAIN sc[s] : sh \in Span(s, r, 0, Count(sc[s][r]))
        BY DEF ofStep, Q
    <2>3. ASSUME NEW s, NEW r
          PROVE  sh \in Span(s, r, 0, Count(sc[s][r]))
                    <=> \E n \in 0 .. Count(sc[s][r]) - 1 : sh = <<s, r, n>>
        BY DEF Span
    <2> QED BY <2>1, <2>2, <2>3, ShotsMember
<1>9. Shots(sc) = UNION {p[s] : s \in DOMAIN sc} BY <1>8
<1> QED BY <1>7, <1>9

(* The shots before the n-th of request r of step s, in the order in which *)
(* ExecuteScenario takes them.                                             *)
Before(sc, s, r, n) ==
    {sh \in Shots(sc) : \/ sh[1] < s
                        \/ sh[1] = s /\ sh[2] < r
                        \/ sh[1] = s /\ sh[2] = r /\ sh[3] < n}

LEMMA BeforeFinite ==
    ASSUME NEW sc \in Lists, NEW s, NEW r, NEW n
    PROVE  /\ IsFiniteSet(Before(sc, s, r, n))
           /\ Cardinality(Before(sc, s, r, n)) \in Nat
           /\ Cardinality(Before(sc, s, r, n)) <= Cardinality(Shots(sc))
<1>1. Before(sc, s, r, n) \in SUBSET Shots(sc) BY DEF Before
<1> QED BY <1>1, ShotsFinite, FS_Subset, FS_CardinalityType

(* More of the shots of one request. *)
LEMMA BeforeSpan ==
    ASSUME NEW sc \in Lists, NEW s \in DOMAIN sc, NEW r \in DOMAIN sc[s],
           NEW n \in Nat, NEW m \in Nat, n <= m, m <= Count(sc[s][r])
    PROVE  /\ Before(sc, s, r, m) = Before(sc, s, r, n) \cup Span(s, r, n, m)
           /\ Before(sc, s, r, n) \cap Span(s, r, n, m) = {}
<1>1. s \in Nat /\ r \in Nat /\ Count(sc[s][r]) \in Nat BY RequestType
<1>2. ASSUME NEW sh \in Before(sc, s, r, m)
      PROVE  sh \in Before(sc, s, r, n) \cup Span(s, r, n, m)
    <2>1. sh \in Shots(sc) BY DEF Before
    <2>2. sh = <<sh[1], sh[2], sh[3]>> /\ sh[1] \in Nat /\ sh[2] \in Nat /\ sh[3] \in Nat
        BY <2>1, ShotType
    <2>3. CASE sh[1] = s /\ sh[2] = r /\ ~(sh[3] < n)
        <3>1. sh[3] < m BY <1>1, <2>2, <2>3 DEF Before
        <3>2. sh[3] \in n .. m - 1 BY <2>2, <2>3, <3>1
        <3> QED BY <2>2, <2>3, <3>2 DEF Span
    <2>4. CASE ~(sh[1] = s /\ sh[2] = r /\ ~(sh[3] < n))
        BY <1>1, <2>1, <2>2, <2>4 DEF Before
    <2> QED BY <2>3, <2>4
<1>3. ASSUME NEW sh \in Before(sc, s, r, n)
      PROVE  sh \in Before(sc, s, r, m) /\ sh \notin Span(s, r, n, m)
    <2>1. sh \in Shots(sc) BY DEF Before
    <2>2. sh[1] \in Nat /\ sh[2] \in Nat /\ sh[3] \in Nat
        BY <2>1, ShotType
    <2>3. sh \in Before(sc, s, r, m) BY <1>1, <2>1, <2>2 DEF Before
    <2>4. ASSUME sh \in Span(s, r, n, m) PROVE FALSE
        <3>1. PICK k \in n .. m - 1 : sh = <<s, r, k>> BY <2>4 DEF Span
        <3>2. sh[1] = s /\ sh[2] = r /\ sh[3] = k BY <3>1
        <3> QED BY <1>1, <3>2 DEF Before
    <2> QED BY <2>3, <2>4
<1>4. ASSUME NEW sh \in Span(s, r, n, m)
      PROVE  sh \in Before(sc, s, r, m)
    <2>1. PICK k \in n .. m - 1 : sh = <<s, r, k>> BY DEF Span
    <2>2. sh[1] = s /\ sh[2] = r /\ sh[3] = k BY <2>1
    <2>3. k \in Nat /\ k < Count(sc[s][r]) /\ k < m BY <1>1
    <2>4. sh \in Shots(sc) BY <2>1, <2>3, IsShot
    <2> QED BY <2>2, <2>3, <2>4 DEF Before
<1> QED BY <1>2, <1>3, <1>4

(* The end of a request is the beginning of the next one. *)
LEMMA BeforeNextRequest ==
    ASSUME NEW sc \in Lists, NEW s \in DOMAIN sc, NEW r \in DOMAIN sc[s]
    PROVE  Before(sc, s, r, Count(sc[s][r])) = Before(sc, s, r + 1, 0)
<1>1. s \in Nat /\ r \in Nat /\ Count(sc[s][r]) \in Nat BY RequestType
<1>2. ASSUME NEW sh \in Shots(sc)
      PROVE  sh \in Before(sc, s, r, Count(sc[s][r])) <=> sh \in Before(sc, s, r + 1, 0)
    <2>1. sh[1] \in Nat /\ sh[2] \in Nat /\ sh[3] \in Nat
          /\ sh[3] < Count(sc[sh[1]][sh[2]])
        BY ShotType
    <2> QED BY <1>1, <2>1 DEF Before
<1>3. /\ Before(sc, s, r, Count(sc[s][r])) \subseteq Shots(sc)
      /\ Before(sc, s, r + 1, 0) \subseteq Shots(sc)
    BY DEF Before
<1> QED BY <1>2, <1>3

(* The end of a step is the beginning of the next one. *)
LEMMA BeforeNextStep ==
    ASSUME NEW sc \in Lists, NEW s \in DOMAIN sc, NEW r \in Nat, r > Len(sc[s])
    PROVE  Before(sc, s, r, 0) = Before(sc, s + 1, 1, 0)
<1>1. s \in Nat /\ sc[s] \in Seq(Requests) BY DEF Lists
<1>2. ASSUME NEW sh \in Shots(sc)
      PROVE  sh \in Before(sc, s, r, 0) <=> sh \in Before(sc, s + 1, 1, 0)
    <2>1. sh[1] \in Nat /\ sh[2] \in Nat \ {0} /\ sh[3] \in Nat
        BY ShotType
    <2>2. sh[1] = s => sh[2] <= Len(sc[s])
        BY <1>1, ShotType
    <2>3. sh[1] = s => sh[2] < r BY <1>1, <2>1, <2>2
    <2> QED BY <1>1, <2>1, <2>3 DEF Before
<1>3. /\ Before(sc, s, r, 0) \subseteq Shots(sc)
      /\ Before(sc, s + 1, 1, 0) \subseteq Shots(sc)
    BY DEF Before
<1> QED BY <1>2, <1>3

(* A place further on in the step, or the beginning of the next step. *)
LEMMA BeforeLater ==
    ASSUME NEW sc \in Lists, NEW s \in Nat, NEW r \in Nat, NEW n \in Nat,
           NEW t \in Nat, NEW q \in Nat, NEW m \in Nat,
           s < t \/ (s = t /\ r < q) \/ (s = t /\ r = q /\ n <= m)
    PROVE  Before(sc, s, r, n) \subseteq Before(sc, t, q, m)
<1> SUFFICES ASSUME NEW sh \in Before(sc, s, r, n)
             PROVE  sh \in Before(sc, t, q, m)
    OBVIOUS
<1>1. sh \in Shots(sc) BY DEF Before
<1>2. sh[1] \in Nat /\ sh[2] \in Nat /\ sh[3] \in Nat BY <1>1, ShotType
<1> QED BY <1>1, <1>2 DEF Before

(* Up to the end of a step that is left out, nothing is added. *)
LEMMA BeforeSkipsStep ==
    ASSUME NEW sc \in Lists, NEW s \in Nat, NEW r \in Nat, NEW n \in Nat,
           NEW t \in Nat, NEW q \in Nat, NEW m \in Nat, NEW E, s \in E,
           t = s \/ (t = s + 1 /\ q = 1 /\ m = 0)
    PROVE  {sh \in Before(sc, t, q, m) : sh[1] \notin E}
              \subseteq {sh \in Before(sc, s, r, n) : sh[1] \notin E}
<1> SUFFICES ASSUME NEW sh \in Before(sc, t, q, m), sh[1] \notin E
             PROVE  sh \in Before(sc, s, r, n)
    OBVIOUS
<1>1. sh \in Shots(sc) BY DEF Before
<1>2. sh[1] \in Nat /\ sh[2] \in Nat \ {0} /\ sh[3] \in Nat BY <1>1, ShotType
<1>3. sh[1] # s OBVIOUS
<1>4. sh[1] < s BY <1>2, <1>3 DEF Before
<1> QED BY <1>1, <1>4 DEF Before

LEMMA BeforeBounds ==
    ASSUME NEW sc \in Lists
    PROVE  /\ Before(sc, 1, 1, 0) = {}
           /\ Before(sc, Len(sc) + 1, 1, 0) = Shots(sc)
<1>1. ASSUME NEW sh \in Shots(sc)
      PROVE  sh \notin Before(sc, 1, 1, 0) /\ sh \in Before(sc, Len(sc) + 1, 1, 0)
    <2>1. sh[1] \in Nat \ {0} /\ sh[2] \in Nat \ {0} /\ sh[3] \in Nat /\ sh[1] \in DOMAIN sc
        BY ShotType
    <2>2. sh[1] < Len(sc) + 1 BY <2>1 DEF Lists
    <2> QED BY <2>1, <2>2 DEF Before
<1> QED BY <1>1 DEF Before

LEMMA UnionBound ==
    ASSUME NEW S, IsFiniteSet(S), NEW X, IsFiniteSet(X),
           NEW T, T \subseteq S \cup X
    PROVE  IsFiniteSet(T) /\ Cardinality(T) <= Cardinality(S) + Cardinality(X)
<1>1. /\ IsFiniteSet(S \cup X)
      /\ Cardinality(S \cup X) = Cardinality(S) + Cardinality(X) - Cardinality(S \cap X)
    BY FS_Union
<1>2. /\ Cardinality(S) \in Nat /\ Cardinality(X) \in Nat
      /\ IsFiniteSet(S \cap X)
    BY FS_CardinalityType, FS_Intersection
<1>3. Cardinality(S \cap X) \in Nat BY <1>2, FS_CardinalityType
<1>4. T \in SUBSET (S \cup X) OBVIOUS
<1>5. IsFiniteSet(T) /\ Cardinality(T) <= Cardinality(S \cup X)
    BY <1>1, <1>4, FS_Subset
<1>6. Cardinality(T) \in Nat BY <1>5, FS_CardinalityType
<1> QED BY <1>1, <1>2, <1>3, <1>5, <1>6

-----------------------------------------------------------------------------
(* Sending and results *)

(* The sender has looked its method up, with or without success. *)
Settled(s) == s.method # NoMethod \/ s.reflectionFailed

(* What one Send does to the sender: it never loses the connection, it     *)
(* looks up only what is not settled, and settles it thereby.              *)
Sent(s, o) ==
    /\ o.sender \in GRPCSenders
    /\ o.invoked \in GRPCMethods \cup {NoMethod}
    /\ s.conn => o.sender.conn
    /\ o.how = "looked up" => ~Settled(s) /\ Settled(o.sender)
    /\ o.how # "looked up" => (Settled(o.sender) <=> Settled(s))
    /\ o.how = "skipped" => Settled(s)

LEMMA InvokeOutcome ==
    ASSUME NEW s, NEW how, NEW o \in Invoke(s, how)
    PROVE  o.sender = s /\ o.how = how /\ o.invoked \in {s.method, NoMethod}
BY DEF Invoke, Outcome

LEMMA SendOutcome ==
    ASSUME NEW s \in GRPCSenders, NEW m \in GRPCMethods, NEW o \in Send(s, m)
    PROVE  Sent(s, o)
<1>1. m # NoMethod BY GRPCMethodAssumption
<1>2. s.method \in GRPCMethods \cup {NoMethod} BY DEF GRPCSenders
<1> DEFINE c == [s EXCEPT !.conn = TRUE]
<1>3. c \in GRPCSenders BY DEF GRPCSenders
<1>4. /\ c.conn /\ (Settled(c) <=> Settled(s))
      /\ c.method = s.method /\ c.reflectionFailed = s.reflectionFailed
    <2>1. c.conn = TRUE /\ c.method = s.method BY DEF GRPCSenders
    <2>2. c.reflectionFailed = s.reflectionFailed BY DEF GRPCSenders
    <2> HIDE DEF c
    <2>3. Settled(c) <=> Settled(s) BY <2>1, <2>2 DEF Settled
    <2> QED BY <2>1, <2>2, <2>3
<1> HIDE DEF c
<1>5. CASE o \in DialFails(s)
    <2>1. o = Outcome(s, ErrorResponse, NoMethod, "no connection")
        BY <1>5 DEF DialFails
    <2>2. o.sender = s /\ o.invoked = NoMethod /\ o.how = "no connection"
        BY <2>1 DEF Outcome
    <2> QED BY <2>2 DEF Sent
<1>6. CASE o \in SendConnected(c, m)
    <2>1. CASE c.method # NoMethod
        <3>1. o \in Invoke(c, "cached") BY <1>6, <2>1 DEF SendConnected
        <3>2. o.sender = c /\ o.how = "cached" /\ o.invoked \in {c.method, NoMethod}
            BY <3>1, InvokeOutcome
        <3> QED BY <1>2, <1>3, <1>4, <3>2 DEF Sent
    <2>2. CASE c.method = NoMethod /\ c.reflectionFailed
        <3>1. o = Outcome(c, ErrorResponse, NoMethod, "skipped")
            BY <1>6, <2>2 DEF SendConnected
        <3>2. o.sender = c /\ o.invoked = NoMethod /\ o.how = "skipped"
            BY <3>1 DEF Outcome
        <3>3. Settled(s) BY <1>4, <2>2 DEF Settled
        <3> QED BY <1>3, <1>4, <3>2, <3>3 DEF Sent
    <2>3. CASE c.method = NoMethod /\ ~c.reflectionFailed
        <3>1. ~Settled(s) BY <1>4, <2>3 DEF Settled
        <3>2. o \in Lookup(c, m) BY <1>6, <2>3 DEF SendConnected
        <3>3. CASE o \in LookupFailed(c)
            <4> DEFINE d == [c EXCEPT !.reflectionFailed = TRUE]
            <4>1. d \in GRPCSenders /\ d.conn = TRUE /\ d.reflectionFailed = TRUE
                BY <1>3, <1>4 DEF GRPCSenders
            <4>2. o = Outcome(d, ErrorResponse, NoMethod, "looked up")
                BY <3>3 DEF LookupFailed
            <4> HIDE DEF d
            <4>3. o.sender = d /\ o.invoked = NoMethod /\ o.how = "looked up"
                BY <4>2 DEF Outcome
            <4>4. Settled(d) BY <4>1 DEF Settled
            <4> QED BY <3>1, <4>1, <4>3, <4>4 DEF Sent
        <3>4. CASE o \in Invoke([c EXCEPT !.method = m], "looked up")
            <4> DEFINE d == [c EXCEPT !.method = m]
            <4>1. d \in GRPCSenders /\ d.conn = TRUE /\ d.method = m
                BY <1>3, <1>4 DEF GRPCSenders
            <4> HIDE DEF d
            <4>2. o.sender = d /\ o.how = "looked up" /\ o.invoked \in {d.method, NoMethod}
                BY <3>4, InvokeOutcome DEF d
            <4>3. Settled(d) BY <1>1, <4>1 DEF Settled
            <4> QED BY <3>1, <4>1, <4>2, <4>3 DEF Sent
        <3> QED BY <3>2, <3>3, <3>4 DEF Lookup
    <2> QED BY <1>4, <2>1, <2>2, <2>3
<1> QED BY <1>5, <1>6 DEF Send, c

(* What the executor returns after its loops. *)
LEMMA SummaryType ==
    ASSUME NEW c \in Nat, NEW f \in Nat, NEW e \in BOOLEAN
    PROVE  /\ Summary(c, f, e) \in Results
           /\ Summary(c, f, e).completed = c
           /\ Summary(c, f, e).failed = f
           /\ Summary(c, f, e).success <=> c > 0
           /\ Summary(c, f, e).message # "none"
<1> DEFINE m == BuildMessage(c, f, c > 0, e)
<1>1. m \in Messages \ {"none"}
    <2>1. CASE e BY <2>1 DEF BuildMessage, Messages
    <2>2. CASE ~e /\ c = 0 /\ f = 0 BY <2>2 DEF BuildMessage, Messages
    <2>3. CASE ~e /\ c + f > 0 /\ c > 0
        <3>1. ~(c = 0 /\ f = 0) BY <2>3
        <3>2. m = "completed" BY <2>3, <3>1 DEF BuildMessage
        <3> QED BY <3>2 DEF Messages
    <2>4. CASE ~e /\ c + f > 0 /\ ~(c > 0)
        <3>1. ~(c = 0 /\ f = 0) BY <2>4
        <3>2. m = "completed with failures" BY <2>4, <3>1 DEF BuildMessage
        <3> QED BY <3>2 DEF Messages
    <2> QED BY <2>1, <2>2, <2>3, <2>4
<1>2. Summary(c, f, e) = [completed |-> c, failed |-> f, success |-> c > 0,
                          error |-> e, message |-> m]
    BY DEF Summary
<1> HIDE DEF m
<1>3. Summary(c, f, e) \in Results BY <1>1, <1>2 DEF Results
<1>4. /\ Summary(c, f, e).completed = c
      /\ Summary(c, f, e).failed = f
      /\ Summary(c, f, e).success = (c > 0)
      /\ Summary(c, f, e).message = m
    BY <1>2
<1> QED BY <1>1, <1>3, <1>4

-----------------------------------------------------------------------------
(* Types, and where the loops are *)

InStep == pc \in {"requests", "repeat", "wait", "send", "extract"}
InRequest == pc \in {"repeat", "wait", "send", "extract"}

(* The loop variables inside a step and inside a request.  A step's        *)
(* context that is done while the scenario's is not has timed out.         *)
PlaceInv ==
    /\ InStep => stepIdx <= Len(spec) /\ reqIdx <= Len(step) + 1
    /\ InRequest => reqIdx <= Len(step) /\ i <= Count(req)
    /\ pc \in {"wait", "send"} => i < Count(req)
    /\ InStep /\ stepDone /\ ~scenarioDone => stepIdx \in expired
    /\ \A s \in expired : s <= stepIdx

(* A connection is counted as open while the step's sender has it. *)
ConnInv ==
    /\ openConns = IF grpcSender.conn THEN 1 ELSE 0
    /\ grpcSender.conn => InStep

Placed == TypeOK /\ PlaceInv /\ ConnInv

LEMMA Here ==
    ASSUME Placed
    PROVE  /\ spec \in Lists /\ Len(spec) \in Nat
           /\ stepIdx \in Nat \ {0} /\ stepIdx <= Len(spec) + 1
           /\ InStep => /\ stepIdx \in DOMAIN spec
                        /\ step \in Seq(Requests) /\ Len(step) \in Nat
           /\ InRequest => /\ InStep
                           /\ reqIdx \in DOMAIN spec[stepIdx]
                           /\ req \in Requests
                           /\ Count(req) \in Nat \ {0}
           /\ pc \in {"wait", "send"} => InRequest /\ Shot \in Shots(spec)
<1>1. spec \in Lists /\ Len(spec) \in Nat
    BY ScenarioAssumption DEF Placed, TypeOK, Lists
<1>2. stepIdx \in Nat \ {0} /\ stepIdx <= Len(spec) + 1
    BY <1>1 DEF Placed, TypeOK
<1>3. ASSUME InStep
      PROVE  stepIdx \in DOMAIN spec /\ step \in Seq(Requests) /\ Len(step) \in Nat
    <2>1. stepIdx \in 1 .. Len(spec) BY <1>1, <1>2, <1>3 DEF Placed, PlaceInv
    <2>2. stepIdx \in DOMAIN spec BY <1>1, <2>1 DEF Lists
    <2>3. spec[stepIdx] \in Seq(Requests) BY <1>1, <2>2 DEF Lists
    <2> QED BY <2>2, <2>3 DEF step
<1>4. ASSUME InRequest
      PROVE  /\ InStep /\ reqIdx \in DOMAIN spec[stepIdx]
             /\ req \in Requests /\ Count(req) \in Nat \ {0}
    <2>1. InStep BY <1>4 DEF InRequest, InStep
    <2>2. reqIdx \in 1 .. Len(step)
        BY <1>3, <1>4, <2>1 DEF Placed, PlaceInv, TypeOK
    <2>3. reqIdx \in DOMAIN spec[stepIdx] BY <1>3, <2>1, <2>2 DEF step
    <2> QED BY <1>1, <1>3, <2>1, <2>3, RequestType DEF req, step
<1>5. ASSUME pc \in {"wait", "send"}
      PROVE  InRequest /\ Shot \in Shots(spec)
    <2>1. InRequest BY <1>5 DEF InRequest
    <2>2. i \in Nat /\ i < Count(spec[stepIdx][reqIdx])
        BY <1>5 DEF Placed, PlaceInv, TypeOK, req, step
    <2> QED BY <1>1, <1>3, <1>4, <2>1, <2>2, IsShot DEF Shot
<1> QED BY <1>1, <1>2, <1>3, <1>4, <1>5

LEMMA PlacedInit == Init => Placed
<1> SUFFICES ASSUME Init PROVE Placed OBVIOUS
<1>1. spec \in Lists /\ Len(spec) \in Nat BY ScenarioAssumption DEF Init, Lists
<1>2. NewGRPCSender \in GRPCSenders BY DEF NewGRPCSender, GRPCSenders
<1>3. NoResult \in Results BY DEF NoResult, Results, Messages
<1>4. TypeOK
    <2>1. config \in [podIP : BOOLEAN, protocol : {"http", "grpc"}, limited : BOOLEAN]
        BY DEF Init
    <2>2. session \in [Variables -> Shots(spec) \cup {None}] BY DEF Init
    <2>3. lastCall \in [asked : GRPCMethods \cup {NoMethod},
                       invoked : GRPCMethods \cup {NoMethod}]
        BY DEF Init
    <2>4. stepIdx \in 1 .. Len(spec) + 1 BY <1>1 DEF Init
    <2>5. /\ reqIdx \in Nat \ {0} /\ i \in Nat /\ openConns \in Nat
          /\ completed \in Nat /\ failed \in Nat
          /\ totalCompleted \in Nat /\ totalFailed \in Nat
        BY DEF Init
    <2>6. /\ spec \in Scenarios /\ pc = "start"
          /\ scenarioDone \in BOOLEAN /\ stepDone \in BOOLEAN
          /\ grpcSender \in GRPCSenders /\ result \in Results /\ lastBody = None
          /\ begun = {} /\ expired = {} /\ answered = {} /\ lookups = {} /\ skipped = {}
        BY <1>2, <1>3 DEF Init
    <2>7. begun \subseteq {<<sh[1], sh[2]>> : sh \in Shots(spec)} BY <2>6
    <2> QED BY <2>1, <2>2, <2>3, <2>4, <2>5, <2>6, <2>7, Zenon DEF TypeOK
<1>5. PlaceInv BY <1>1 DEF Init, PlaceInv, InStep, InRequest
<1>6. grpcSender.conn = FALSE /\ openConns = 0 BY DEF Init, NewGRPCSender
<1>7. ConnInv BY <1>6 DEF ConnInv
<1> QED BY <1>4, <1>5, <1>7 DEF Placed

LEMMA RespondPlaced ==
    ASSUME Placed, NEW resp, pc = "send", HandleResponse(resp),
           grpcSender' \in GRPCSenders,
           openConns' = IF grpcSender'.conn THEN 1 ELSE 0,
           lookups' \subseteq Shots(spec), skipped' \subseteq Shots(spec),
           lastCall' \in [asked : GRPCMethods \cup {NoMethod},
                          invoked : GRPCMethods \cup {NoMethod}]
    PROVE  Placed'
<1>1. Shot \in Shots(spec) /\ Count(req) \in Nat BY Here
<1>2. TypeOK'
    <2>1. completed' \in Nat /\ failed' \in Nat
        BY DEF Placed, TypeOK, HandleResponse
    <2>2. lastBody' \in Shots(spec) \cup {None} /\ answered' \subseteq Shots(spec)
        BY <1>1 DEF Placed, TypeOK, HandleResponse
    <2>3. i' \in Nat /\ pc' = "repeat" BY DEF Placed, TypeOK, HandleResponse
    <2>4. UNCHANGED <<spec, config, stepIdx, reqIdx, ctxVars, totalCompleted,
                      totalFailed, session, result, begun, expired>>
        BY DEF HandleResponse
    <2>5. openConns' \in Nat OBVIOUS
    <2> QED BY <2>1, <2>2, <2>3, <2>4, <2>5 DEF Placed, TypeOK, ctxVars
<1>3. PlaceInv'
    BY <1>1 DEF Placed, TypeOK, PlaceInv, HandleResponse, InStep, InRequest, req, step, ctxVars
<1>4. ConnInv' BY DEF ConnInv, HandleResponse, InStep
<1> QED BY <1>2, <1>3, <1>4 DEF Placed

LEMMA SendGRPCPlaced ==
    ASSUME Placed, pc = "send", NEW o \in Send(grpcSender, req.method), SendGRPC(o)
    PROVE  Placed' /\ Sent(grpcSender, o)
<1>1. req.method \in GRPCMethods /\ Shot \in Shots(spec) BY Here DEF Requests
<1>2. Sent(grpcSender, o) BY <1>1, SendOutcome DEF Placed, TypeOK
<1>3. grpcSender' \in GRPCSenders BY <1>2 DEF SendGRPC, Sent
<1>4. openConns' = IF grpcSender'.conn THEN 1 ELSE 0
    <2>1. o.sender = grpcSender' /\ (grpcSender.conn => grpcSender'.conn)
        BY <1>2 DEF SendGRPC, Sent
    <2>2. openConns' = IF grpcSender'.conn /\ ~grpcSender.conn THEN openConns + 1
                       ELSE openConns
        BY <2>1 DEF SendGRPC
    <2>3. openConns = IF grpcSender.conn THEN 1 ELSE 0 BY DEF Placed, ConnInv
    <2>4. CASE grpcSender.conn BY <2>1, <2>2, <2>3, <2>4
    <2>5. CASE ~grpcSender.conn /\ grpcSender'.conn BY <2>2, <2>3, <2>5
    <2>6. CASE ~grpcSender.conn /\ ~grpcSender'.conn BY <2>2, <2>3, <2>6
    <2> QED BY <2>4, <2>5, <2>6
<1>5. lookups' \subseteq Shots(spec) /\ skipped' \subseteq Shots(spec)
    BY <1>1 DEF SendGRPC, Placed, TypeOK
<1>6. lastCall' \in [asked : GRPCMethods \cup {NoMethod},
                     invoked : GRPCMethods \cup {NoMethod}]
    BY <1>1, <1>2 DEF SendGRPC, Sent
<1>7. HandleResponse(o.resp) BY DEF SendGRPC
<1> QED BY <1>2, <1>3, <1>4, <1>5, <1>6, <1>7, RespondPlaced

(* Extraction keeps values of the last response or the earlier ones. *)
LEMMA ExtractSession ==
    ASSUME Placed, ExtractVariables
    PROVE  /\ session' \in [Variables -> Shots(spec) \cup {None}]
           /\ \A v \in Variables :
                 session'[v] = session[v]
                    \/ (lastBody # None /\ session'[v] = lastBody /\ v \in req.extract)
<1>1. PICK found \in SUBSET req.extract :
          /\ lastBody = None => found = {}
          /\ session' = [v \in Variables |-> IF v \in found THEN lastBody
                                             ELSE session[v]]
    BY DEF ExtractVariables
<1>2. /\ lastBody \in Shots(spec) \cup {None}
      /\ session \in [Variables -> Shots(spec) \cup {None}]
    BY DEF Placed, TypeOK
<1>3. session' \in [Variables -> Shots(spec) \cup {None}] BY <1>1, <1>2
<1> QED BY <1>1, <1>3

LEMMA PlacedStep == Placed /\ [Next]_vars => Placed'
<1> SUFFICES ASSUME Placed, [Next]_vars PROVE Placed' OBVIOUS
<1> USE DEF Placed, loopVars, ctxVars, countVars, dataVars, histVars, grpcHist
<1>0. /\ Len(spec) \in Nat /\ stepIdx \in Nat \ {0} /\ stepIdx <= Len(spec) + 1
      /\ InStep => stepIdx \in DOMAIN spec /\ Len(step) \in Nat
      /\ InRequest => Count(req) \in Nat \ {0}
    BY Here
<1>1. CASE NoScenario
    <2>1. result' \in Results
        BY <1>1 DEF NoScenario, NoResult, Results, Messages
    <2>2. TypeOK' BY <1>1, <2>1 DEF NoScenario, TypeOK
    <2>3. PlaceInv' BY <1>1 DEF NoScenario, PlaceInv, InStep, InRequest
    <2>4. ConnInv' BY <1>1 DEF NoScenario, ConnInv, InStep
    <2> QED BY <2>2, <2>3, <2>4
<1>2. CASE Begin
    <2>1. TypeOK' BY <1>2 DEF Begin, TypeOK
    <2>2. PlaceInv' BY <1>2 DEF Begin, PlaceInv, InStep, InRequest
    <2>3. ConnInv' BY <1>2 DEF Begin, ConnInv, InStep
    <2> QED BY <2>1, <2>2, <2>3
<1>3. CASE StepBegin
    <2>1. NewGRPCSender \in GRPCSenders BY DEF NewGRPCSender, GRPCSenders
    <2>2. TypeOK'
        <3>1. /\ pc' = "requests" /\ reqIdx' = 1 /\ stepDone' = FALSE
              /\ completed' = 0 /\ failed' = 0 /\ grpcSender' \in GRPCSenders
              /\ UNCHANGED <<spec, config, stepIdx, i, scenarioDone, totalCompleted,
                             totalFailed, lastBody, session, result, histVars>>
            BY <1>3, <2>1 DEF StepBegin
        <3>2. reqIdx' \in Nat \ {0} /\ completed' \in Nat /\ failed' \in Nat BY <3>1
        <3> QED BY <3>1, <3>2 DEF TypeOK
    <2>3. stepIdx \in DOMAIN spec /\ Len(step) \in Nat
        BY <1>0, <1>3, Here DEF StepBegin, Lists, step
    <2>4. PlaceInv' BY <1>0, <1>3, <2>3 DEF StepBegin, PlaceInv, InStep, InRequest, step
    <2>5. ~grpcSender.conn /\ grpcSender'.conn = FALSE /\ openConns' = openConns
        BY <1>3 DEF StepBegin, ConnInv, InStep, NewGRPCSender
    <2>6. ConnInv' BY <2>5 DEF ConnInv
    <2> QED BY <2>2, <2>4, <2>6
<1>4. CASE ScenarioEnd
    <2>1. result' \in Results
        BY <1>4, SummaryType DEF ScenarioEnd, TypeOK
    <2>2. TypeOK' BY <1>4, <2>1 DEF ScenarioEnd, TypeOK
    <2>3. PlaceInv' BY <1>4 DEF ScenarioEnd, PlaceInv, InStep, InRequest
    <2>4. ConnInv' BY <1>4 DEF ScenarioEnd, ConnInv, InStep
    <2> QED BY <2>2, <2>3, <2>4
<1>5. CASE RequestBegin
    <2>1. InStep /\ reqIdx \in 1 .. Len(step)
        BY <1>0, <1>5 DEF RequestBegin, InStep, TypeOK
    <2>2. reqIdx \in DOMAIN spec[stepIdx] BY <2>1, Here DEF step
    <2>3. /\ Count(spec[stepIdx][reqIdx]) \in Nat \ {0}
          /\ <<stepIdx, reqIdx, 0>> \in Shots(spec)
        BY <2>1, <2>2, Here, RequestType, IsShot
    <2>4. begun' \subseteq {<<sh[1], sh[2]>> : sh \in Shots(spec)}
        BY <1>5, <2>3 DEF RequestBegin, TypeOK
    <2>5. TypeOK' BY <1>5, <2>4 DEF RequestBegin, TypeOK, FreshBody
    <2>6. PlaceInv'
        BY <1>0, <1>5, <2>1, <2>3 DEF RequestBegin, PlaceInv, InStep, InRequest, step, req
    <2>7. ConnInv' BY <1>5 DEF RequestBegin, ConnInv, InStep
    <2> QED BY <2>5, <2>6, <2>7
<1>6. CASE StepEnd
    <2>1. NewGRPCSender \in GRPCSenders BY DEF NewGRPCSender, GRPCSenders
    <2>2. stepIdx' = stepIdx + 1 /\ stepIdx' \in 1 .. Len(spec) + 1
        BY <1>0, <1>6 DEF StepEnd, NextStep, PlaceInv, InStep
    <2>3. openConns' = 0 /\ grpcSender'.conn = FALSE
        <3>1. openConns' = Close(grpcSender, openConns) /\ grpcSender' = NewGRPCSender
            BY <1>6 DEF StepEnd
        <3> QED BY <3>1 DEF Close, NewGRPCSender, ConnInv
    <2>4. TypeOK' BY <1>6, <2>1, <2>2, <2>3 DEF StepEnd, TypeOK
    <2>5. PlaceInv' BY <1>0, <1>6, <2>2 DEF StepEnd, PlaceInv, InStep, InRequest, TypeOK
    <2>6. ConnInv' BY <2>3 DEF ConnInv
    <2> QED BY <2>4, <2>5, <2>6
<1>7. CASE RepeatHead
    <2>1. TypeOK' BY <1>7 DEF RepeatHead, TypeOK
    <2>2. PlaceInv' BY <1>7 DEF RepeatHead, PlaceInv, InStep, InRequest, req, step
    <2>3. ConnInv' BY <1>7 DEF RepeatHead, ConnInv, InStep
    <2> QED BY <2>1, <2>2, <2>3
<1>8. CASE WaitGranted
    <2>1. TypeOK' BY <1>8 DEF WaitGranted, TypeOK
    <2>2. PlaceInv' BY <1>8 DEF WaitGranted, PlaceInv, InStep, InRequest, req, step
    <2>3. ConnInv' BY <1>8 DEF WaitGranted, ConnInv, InStep
    <2> QED BY <2>1, <2>2, <2>3
<1>9. CASE WaitRefused
    <2>1. failed' \in Nat
        BY <1>0, <1>9 DEF WaitRefused, Unsent, TypeOK, PlaceInv, InRequest
    <2>2. TypeOK' BY <1>9, <2>1 DEF WaitRefused, TypeOK
    <2>3. PlaceInv' BY <1>9 DEF WaitRefused, PlaceInv, InStep, InRequest, req, step
    <2>4. ConnInv' BY <1>9 DEF WaitRefused, ConnInv, InStep
    <2> QED BY <2>2, <2>3, <2>4
<1>10. CASE SendHTTPFailed \/ SendHTTPAnswered
    <2>1. PICK resp : HandleResponse(resp)
        BY <1>10 DEF SendHTTPFailed, SendHTTPAnswered
    <2>2. pc = "send" /\ UNCHANGED <<grpcSender, openConns, lookups, skipped, lastCall>>
        BY <1>10 DEF SendHTTPFailed, SendHTTPAnswered
    <2> QED BY <2>1, <2>2, RespondPlaced DEF TypeOK, ConnInv
<1>11. CASE SendGRPCFailed \/ SendGRPCAnswered
    BY <1>11, SendGRPCPlaced DEF SendGRPCFailed, SendGRPCAnswered
<1>12. CASE ExtractVariables
    <2>1. session' \in [Variables -> Shots(spec) \cup {None}] BY <1>12, ExtractSession
    <2>2. /\ pc = "extract" /\ pc' = "requests" /\ reqIdx' = reqIdx + 1
          /\ UNCHANGED <<spec, config, stepIdx, i, ctxVars, countVars, grpcSender,
                         lastBody, result, histVars>>
        BY <1>12 DEF ExtractVariables
    <2>3. TypeOK' BY <2>1, <2>2 DEF TypeOK
    <2>4. PlaceInv' BY <1>0, <2>2 DEF PlaceInv, InStep, InRequest, step, TypeOK
    <2>5. ConnInv' BY <2>2 DEF ConnInv, InStep
    <2> QED BY <2>3, <2>4, <2>5
<1>13. CASE ExpireScenario
    <2>1. TypeOK' BY <1>13 DEF ExpireScenario, TypeOK
    <2>2. PlaceInv' BY <1>13 DEF ExpireScenario, PlaceInv, InStep, InRequest, req, step
    <2>3. ConnInv' BY <1>13 DEF ExpireScenario, ConnInv, InStep
    <2> QED BY <2>1, <2>2, <2>3
<1>14. CASE ExpireStep
    <2>1. InStep /\ stepIdx \in DOMAIN spec BY <1>0, <1>14 DEF ExpireStep, Running, InStep
    <2>2. expired' \subseteq DOMAIN spec BY <1>14, <2>1 DEF ExpireStep, TypeOK
    <2>3. TypeOK' BY <1>14, <2>2 DEF ExpireStep, TypeOK
    <2>4. PlaceInv'
        BY <1>0, <1>14 DEF ExpireStep, PlaceInv, InStep, InRequest, req, step
    <2>5. ConnInv' BY <1>14 DEF ExpireStep, ConnInv, InStep
    <2> QED BY <2>3, <2>4, <2>5
<1>15. CASE UNCHANGED vars
    <2>1. TypeOK' BY <1>15 DEF vars, TypeOK
    <2>2. PlaceInv' BY <1>15 DEF vars, PlaceInv, InStep, InRequest, req, step
    <2>3. ConnInv' BY <1>15 DEF vars, ConnInv, InStep
    <2> QED BY <2>1, <2>2, <2>3
<1> QED BY <1>1, <1>2, <1>3, <1>4, <1>5, <1>6, <1>7, <1>8, <1>9, <1>10, <1>11,
           <1>12, <1>13, <1>14, <1>15 DEF Next, Advance

(* Every variable of ExecuteScenario keeps to its type: in particular the  *)
(* nested loops never run past a step or a request.                        *)
THEOREM ScenarioTypes == Spec => []TypeOK
<1>1. Placed => TypeOK BY DEF Placed
<1> QED BY <1>1, PlacedInit, PlacedStep, PTL DEF Spec

(* At most one connection is open at a time, and Close runs on every way   *)
(* out of a step.                                                          *)
THEOREM NoConnectionEverLeaks == Spec => []NoConnectionLeak
<1>1. Placed => NoConnectionLeak BY DEF Placed, ConnInv, NoConnectionLeak, InStep
<1> QED BY <1>1, PlacedInit, PlacedStep, PTL DEF Spec

-----------------------------------------------------------------------------
(* What is extracted *)

(* The body kept inside a request is a response to that request. *)
BodyInv ==
    InRequest /\ lastBody # None =>
        lastBody \in answered /\ lastBody[1] = stepIdx /\ lastBody[2] = reqIdx

ExtractInv == BodyInv /\ ExtractedFromOwnResponse

(* A step other than the beginning of a request, a response and an         *)
(* extraction.                                                             *)
QuietStep ==
    /\ UNCHANGED <<spec, lastBody, answered, session>>
    /\ InRequest' => InRequest /\ UNCHANGED <<stepIdx, reqIdx>>

LEMMA StepKinds ==
    ASSUME [Next]_vars
    PROVE  \/ QuietStep
           \/ RequestBegin
           \/ pc = "send" /\ \E resp : HandleResponse(resp)
           \/ ExtractVariables
<1> USE DEF loopVars, ctxVars, countVars, dataVars, histVars
<1>1. CASE NoScenario BY <1>1 DEF NoScenario, QuietStep, InRequest
<1>2. CASE Begin BY <1>2 DEF Begin, QuietStep, InRequest
<1>3. CASE StepBegin BY <1>3 DEF StepBegin, QuietStep, InRequest
<1>4. CASE ScenarioEnd BY <1>4 DEF ScenarioEnd, QuietStep, InRequest
<1>5. CASE StepEnd BY <1>5 DEF StepEnd, QuietStep, InRequest
<1>6. CASE RepeatHead BY <1>6 DEF RepeatHead, QuietStep, InRequest
<1>7. CASE WaitGranted BY <1>7 DEF WaitGranted, QuietStep, InRequest
<1>8. CASE WaitRefused BY <1>8 DEF WaitRefused, QuietStep, InRequest
<1>9. CASE SendHTTPFailed \/ SendHTTPAnswered
    BY <1>9 DEF SendHTTPFailed, SendHTTPAnswered
<1>10. CASE SendGRPCFailed \/ SendGRPCAnswered
    BY <1>10 DEF SendGRPCFailed, SendGRPCAnswered, SendGRPC
<1>11. CASE ExpireScenario BY <1>11 DEF ExpireScenario, QuietStep, InRequest
<1>12. CASE ExpireStep BY <1>12 DEF ExpireStep, QuietStep, InRequest
<1>13. CASE UNCHANGED vars BY <1>13 DEF vars, QuietStep, InRequest
<1> QED BY <1>1, <1>2, <1>3, <1>4, <1>5, <1>6, <1>7, <1>8, <1>9, <1>10, <1>11,
           <1>12, <1>13 DEF Next, Advance

LEMMA ExtractStep == Placed /\ ExtractInv /\ [Next]_vars => ExtractInv'
<1> SUFFICES ASSUME Placed, ExtractInv, [Next]_vars PROVE ExtractInv' OBVIOUS
<1> USE DEF ExtractInv
<1>1. CASE QuietStep
    BY <1>1 DEF QuietStep, BodyInv, ExtractedFromOwnResponse
<1>2. CASE RequestBegin
    BY <1>2 DEF RequestBegin, FreshBody, BodyInv, ExtractedFromOwnResponse
<1>3. CASE pc = "send" /\ \E resp : HandleResponse(resp)
    <2>1. PICK resp : HandleResponse(resp) BY <1>3
    <2>2. InRequest BY <1>3 DEF InRequest
    <2>3. /\ answered \subseteq answered'
          /\ UNCHANGED <<spec, stepIdx, reqIdx, session>>
          /\ lastBody' \in {lastBody, None} \/ (lastBody' = Shot /\ Shot \in answered')
        BY <2>1 DEF HandleResponse
    <2>4. Shot[1] = stepIdx /\ Shot[2] = reqIdx BY DEF Shot
    <2>5. BodyInv' BY <2>2, <2>3, <2>4 DEF BodyInv
    <2>6. ExtractedFromOwnResponse' BY <2>3 DEF ExtractedFromOwnResponse
    <2> QED BY <2>5, <2>6
<1>4. CASE ExtractVariables
    <2>1. pc = "extract" /\ pc' = "requests" /\ UNCHANGED <<spec, answered>>
        BY <1>4 DEF ExtractVariables, histVars
    <2>2. BodyInv' BY <2>1 DEF BodyInv, InRequest
    <2>3. \A v \in Variables :
             session'[v] = session[v]
                \/ (lastBody # None /\ session'[v] = lastBody /\ v \in req.extract)
        BY <1>4, ExtractSession
    <2>4. lastBody # None =>
              lastBody \in answered /\ lastBody[1] = stepIdx /\ lastBody[2] = reqIdx
        BY <2>1 DEF BodyInv, InRequest
    <2>5. ASSUME NEW v \in Variables, session'[v] # None
          PROVE  /\ session'[v] \in answered
                 /\ v \in spec[session'[v][1]][session'[v][2]].extract
        <3>1. CASE session'[v] = session[v]
            BY <2>5, <3>1 DEF ExtractedFromOwnResponse
        <3>2. CASE lastBody # None /\ session'[v] = lastBody /\ v \in req.extract
            BY <2>4, <3>2 DEF req, step
        <3> QED BY <2>3, <3>1, <3>2
    <2>6. ExtractedFromOwnResponse' BY <2>1, <2>5 DEF ExtractedFromOwnResponse
    <2> QED BY <2>2, <2>6
<1> QED BY <1>1, <1>2, <1>3, <1>4, StepKinds

(* A variable never holds a value from a response to a request that does   *)
(* not extract it, whatever responses fail, are empty or do not come.      *)
THEOREM AlwaysExtractedFromOwnResponse == Spec => []ExtractedFromOwnResponse
<1>1. Init => ExtractInv
    BY DEF Init, ExtractInv, BodyInv, InRequest, ExtractedFromOwnResponse
<1>2. ExtractInv => ExtractedFromOwnResponse BY DEF ExtractInv
<1> QED BY <1>1, <1>2, PlacedInit, PlacedStep, ExtractStep, PTL DEF Spec

-----------------------------------------------------------------------------
(* Lookups *)

(* The lookups made so far are of this and earlier steps, and this step    *)
(* has one exactly if its sender is settled.                               *)
LookupInv ==
    /\ \A l \in lookups : l[1] <= stepIdx
    /\ (\E l \in lookups : l[1] = stepIdx) <=> Settled(grpcSender)
    /\ pc \in {"start", "steps"} => ~Settled(grpcSender)
    /\ OneLookupPerStep

LEMMA NewIsUnsettled == ~Settled(NewGRPCSender)
<1>1. NewGRPCSender.method = NoMethod /\ NewGRPCSender.reflectionFailed = FALSE
    BY DEF NewGRPCSender
<1> QED BY <1>1 DEF Settled

LEMMA LookupStep == Placed /\ LookupInv /\ [Next]_vars => LookupInv'
<1> SUFFICES ASSUME Placed, LookupInv, [Next]_vars PROVE LookupInv' OBVIOUS
<1> USE DEF LookupInv, loopVars, ctxVars, countVars, dataVars, histVars, grpcHist
<1>1. CASE /\ UNCHANGED <<stepIdx, grpcSender, lookups, skipped>>
           /\ pc' \in {"start", "steps"} => pc \in {"start", "steps"}
    BY <1>1 DEF OneLookupPerStep
<1>2. CASE StepBegin
    <2>1. /\ UNCHANGED <<stepIdx, lookups, skipped>>
          /\ grpcSender' = NewGRPCSender /\ pc' = "requests" /\ pc = "steps"
        BY <1>2 DEF StepBegin
    <2> QED BY <2>1, NewIsUnsettled DEF OneLookupPerStep
<1>3. CASE StepEnd
    <2>1. /\ UNCHANGED <<lookups, skipped>> /\ stepIdx' = stepIdx + 1
          /\ grpcSender' = NewGRPCSender
        BY <1>3 DEF StepEnd, NextStep
    <2>2. ASSUME NEW l \in lookups PROVE l[1] \in Nat
        BY Here, ShotType DEF Placed, TypeOK
    <2>3. \A l \in lookups : l[1] < stepIdx' BY <2>1, <2>2, Here
    <2>4. /\ \A l \in lookups : l[1] <= stepIdx'
          /\ ~ \E l \in lookups : l[1] = stepIdx'
        BY <2>1, <2>2, <2>3, Here
    <2> QED BY <2>1, <2>4, NewIsUnsettled DEF OneLookupPerStep
<1>4. CASE SendGRPCFailed \/ SendGRPCAnswered
    <2>1. PICK o \in Send(grpcSender, req.method) : SendGRPC(o)
        BY <1>4 DEF SendGRPCFailed, SendGRPCAnswered
    <2>2. pc = "send" BY <1>4 DEF SendGRPCFailed, SendGRPCAnswered
    <2>3. Sent(grpcSender, o) BY <2>1, <2>2, SendGRPCPlaced
    <2>4. /\ grpcSender' = o.sender /\ stepIdx' = stepIdx /\ pc' = "repeat"
          /\ lookups' = IF o.how = "looked up" THEN lookups \cup {Shot} ELSE lookups
          /\ skipped' = IF o.how = "skipped" THEN skipped \cup {Shot} ELSE skipped
        BY <2>1 DEF SendGRPC, HandleResponse
    <2>5. Shot[1] = stepIdx /\ stepIdx <= stepIdx BY Here DEF Shot
    <2>6. CASE o.how = "looked up"
        <3>1. lookups' = lookups \cup {Shot} /\ skipped' = skipped BY <2>4, <2>6
        <3>2. Settled(grpcSender') /\ ~Settled(grpcSender) BY <2>3, <2>4, <2>6 DEF Sent
        <3>3. ~ \E l \in lookups : l[1] = stepIdx BY <3>2
        <3>4. OneLookupPerStep' BY <2>5, <3>1, <3>3 DEF OneLookupPerStep
        <3> QED BY <2>4, <2>5, <3>1, <3>2, <3>4
    <2>7. CASE o.how # "looked up"
        <3>1. lookups' = lookups /\ (Settled(grpcSender') <=> Settled(grpcSender))
            BY <2>3, <2>4, <2>7 DEF Sent
        <3>2. o.how = "skipped" => \E l \in lookups : l[1] = stepIdx BY <2>3 DEF Sent
        <3>3. OneLookupPerStep' BY <2>4, <2>5, <3>1, <3>2 DEF OneLookupPerStep
        <3> QED BY <2>4, <3>1, <3>3
    <2> QED BY <2>6, <2>7
<1>5. CASE NoScenario \/ Begin \/ ScenarioEnd \/ RequestBegin \/ RepeatHead
           \/ ExtractVariables
    BY <1>1, <1>5 DEF NoScenario, Begin, ScenarioEnd, RequestBegin, RepeatHead, ExtractVariables
<1>6. CASE WaitGranted \/ WaitRefused \/ SendHTTPFailed \/ SendHTTPAnswered
    BY <1>1, <1>6 DEF WaitGranted, WaitRefused, SendHTTPFailed, SendHTTPAnswered, HandleResponse
<1>7. CASE ExpireScenario \/ ExpireStep \/ UNCHANGED vars
    BY <1>1, <1>7 DEF ExpireScenario, ExpireStep, vars
<1> QED BY <1>2, <1>3, <1>4, <1>5, <1>6, <1>7 DEF Next, Advance

(* One lookup for the requests of a step, and what failed in one step is   *)
(* never held against the next.                                            *)
THEOREM AlwaysOneLookupPerStep == Spec => []OneLookupPerStep
<1>1. Init => LookupInv
    BY NewIsUnsettled DEF Init, LookupInv, OneLookupPerStep
<1>2. LookupInv => OneLookupPerStep BY DEF LookupInv
<1> QED BY <1>1, <1>2, PlacedInit, PlacedStep, LookupStep, PTL DEF Spec

-----------------------------------------------------------------------------
(* Counting *)

(* The shots the loops have passed.  At the extraction a request is        *)
(* passed, whether or not all of its shots were sent.                      *)
AtRequest == IF InStep THEN reqIdx ELSE 1
AtShot == IF pc = "extract" THEN Count(req) ELSE IF InRequest THEN i ELSE 0
Passed == Before(spec, stepIdx, AtRequest, AtShot)

(* Those of steps that did not time out. *)
InTime == {sh \in Passed : sh[1] \notin expired}

(* The requests counted, those of the step at hand included. *)
Counted == totalCompleted + totalFailed + (IF InStep THEN completed + failed ELSE 0)

(* What is counted was passed, and unless the scenario ran out of time     *)
(* what was passed in time is counted.                                     *)
CountInv ==
    /\ Counted <= Cardinality(Passed)
    /\ ~scenarioDone => Cardinality(InTime) <= Counted

LEMMA PassedType ==
    ASSUME Placed
    PROVE  /\ IsFiniteSet(Passed) /\ IsFiniteSet(InTime)
           /\ Cardinality(Passed) \in Nat /\ Cardinality(InTime) \in Nat
           /\ Cardinality(Passed) <= Cardinality(Shots(spec))
           /\ Counted \in Nat
<1>1. spec \in Lists BY Here
<1>2. /\ IsFiniteSet(Passed) /\ Cardinality(Passed) \in Nat
      /\ Cardinality(Passed) <= Cardinality(Shots(spec))
    BY <1>1, BeforeFinite DEF Passed
<1>3. InTime \in SUBSET Passed BY DEF InTime
<1>4. IsFiniteSet(InTime) BY <1>2, <1>3, FS_Subset
<1>5. Cardinality(InTime) \in Nat BY <1>4, FS_CardinalityType
<1>6. Counted \in Nat BY DEF Placed, TypeOK, Counted
<1> QED BY <1>2, <1>4, <1>5, <1>6

(* A step that passes the shots X, and perhaps shots of a step out of      *)
(* time, and counts X.                                                     *)
LEMMA CountFrom ==
    ASSUME Placed, Placed', CountInv,
           NEW X, IsFiniteSet(X), Passed \cup X \subseteq Passed', Passed \cap X = {},
           Counted' = Counted + Cardinality(X),
           ~scenarioDone' => ~scenarioDone /\ InTime' \subseteq InTime \cup X
    PROVE  CountInv'
<1>1. /\ IsFiniteSet(Passed) /\ IsFiniteSet(InTime)
      /\ Cardinality(Passed) \in Nat /\ Cardinality(InTime) \in Nat /\ Counted \in Nat
    BY PassedType
<1>2. IsFiniteSet(Passed') /\ Cardinality(Passed') \in Nat /\ Cardinality(InTime') \in Nat
    <2>1. spec' \in Lists BY ScenarioAssumption DEF Placed, TypeOK, Lists
    <2>2. IsFiniteSet(Passed') /\ Cardinality(Passed') \in Nat
        BY <2>1, BeforeFinite DEF Passed
    <2>3. InTime' \in SUBSET Passed' BY DEF InTime
    <2> QED BY <2>2, <2>3, FS_Subset, FS_CardinalityType
<1>3. Cardinality(X) \in Nat BY FS_CardinalityType
<1>4. Cardinality(Passed \cup X) = Cardinality(Passed) + Cardinality(X)
    <2>1. Cardinality(Passed \cup X)
             = Cardinality(Passed) + Cardinality(X) - Cardinality(Passed \cap X)
        BY <1>1, FS_Union
    <2>2. Cardinality(Passed \cap X) = 0 BY FS_EmptySet
    <2> QED BY <1>1, <1>3, <2>1, <2>2
<1>5. Cardinality(Passed \cup X) <= Cardinality(Passed')
    <2>1. Passed \cup X \in SUBSET Passed' OBVIOUS
    <2> QED BY <1>2, <2>1, FS_Subset
<1>6. Counted' <= Cardinality(Passed')
    BY <1>1, <1>2, <1>3, <1>4, <1>5 DEF CountInv
<1>7. ASSUME ~scenarioDone' PROVE Cardinality(InTime') <= Counted'
    <2>1. Cardinality(InTime') <= Cardinality(InTime) + Cardinality(X)
        BY <1>1, <1>7, UnionBound
    <2> QED BY <1>1, <1>2, <1>3, <1>7, <2>1 DEF CountInv
<1> QED BY <1>6, <1>7 DEF CountInv

(* A step that counts nothing. *)
LEMMA CountKept ==
    ASSUME Placed, Placed', CountInv,
           Passed \subseteq Passed', Counted' = Counted,
           ~scenarioDone' => ~scenarioDone /\ InTime' \subseteq InTime
    PROVE  CountInv'
<1>1. IsFiniteSet({}) /\ Cardinality({}) = 0 BY FS_EmptySet
<1>2. Counted' = Counted + Cardinality({}) BY <1>1, PassedType
<1>3. Passed \cup {} \subseteq Passed' /\ Passed \cap {} = {} OBVIOUS
<1>4. ~scenarioDone' => ~scenarioDone /\ InTime' \subseteq InTime \cup {} OBVIOUS
<1> QED BY <1>1, <1>2, <1>3, <1>4, CountFrom

(* A step that counts the shots of the request at hand up to the m-th. *)
LEMMA CountSpan ==
    ASSUME Placed, Placed', CountInv, pc \in {"wait", "send"},
           NEW m \in Nat, i <= m, m <= Count(req),
           Passed' = Before(spec, stepIdx, reqIdx, m),
           Counted' = Counted + (m - i),
           UNCHANGED <<scenarioDone, expired>>
    PROVE  CountInv'
<1>1. /\ spec \in Lists /\ stepIdx \in DOMAIN spec /\ reqIdx \in DOMAIN spec[stepIdx]
      /\ InStep /\ InRequest
    BY Here
<1>2. i \in Nat /\ Count(req) = Count(spec[stepIdx][reqIdx])
    BY DEF Placed, TypeOK, req, step
<1>3. Passed = Before(spec, stepIdx, reqIdx, i)
    BY <1>1 DEF Passed, AtRequest, AtShot
<1> DEFINE X == Span(stepIdx, reqIdx, i, m)
<1>4. /\ IsFiniteSet(X) /\ Cardinality(X) = m - i
    BY <1>2, SpanCardinality
<1>5. Passed' = Passed \cup X /\ Passed \cap X = {}
    BY <1>1, <1>2, <1>3, BeforeSpan
<1> HIDE DEF X
<1>6. InTime' \subseteq InTime \cup X BY <1>5 DEF InTime
<1> QED BY <1>4, <1>5, <1>6, CountFrom

LEMMA CountRespond ==
    ASSUME Placed, Placed', CountInv, pc = "send", NEW resp, HandleResponse(resp)
    PROVE  CountInv'
<1>1. InRequest /\ InStep /\ i \in Nat /\ i < Count(req) /\ Count(req) \in Nat
    BY Here DEF Placed, TypeOK, PlaceInv
<1>2. /\ pc' = "repeat" /\ i' = i + 1
      /\ UNCHANGED <<spec, stepIdx, reqIdx, scenarioDone, expired, totalCompleted, totalFailed>>
    BY DEF HandleResponse, ctxVars
<1>3. \/ completed' = completed + 1 /\ failed' = failed
      \/ failed' = failed + 1 /\ completed' = completed
    BY DEF HandleResponse
<1>4. InStep' /\ InRequest' BY <1>2 DEF InStep, InRequest
<1>5. Counted' = Counted + ((i + 1) - i)
    <2>1. /\ completed \in Nat /\ failed \in Nat
          /\ totalCompleted \in Nat /\ totalFailed \in Nat
        BY DEF Placed, TypeOK
    <2>2. /\ Counted = totalCompleted + totalFailed + (completed + failed)
          /\ Counted' = totalCompleted + totalFailed + (completed' + failed')
        BY <1>1, <1>2, <1>4 DEF Counted
    <2> QED BY <1>1, <1>3, <2>1, <2>2
<1>6. Passed' = Before(spec, stepIdx, reqIdx, i + 1)
    BY <1>2, <1>4 DEF Passed, AtRequest, AtShot
<1>7. i + 1 \in Nat /\ i <= i + 1 /\ i + 1 <= Count(req) BY <1>1
<1> QED BY <1>2, <1>5, <1>6, <1>7, CountSpan

LEMMA CountStep == Placed /\ CountInv /\ [Next]_vars => CountInv'
<1> SUFFICES ASSUME Placed, CountInv, [Next]_vars PROVE CountInv' OBVIOUS
<1> USE DEF loopVars, ctxVars, countVars, dataVars, histVars, grpcHist
<1>p. Placed' BY PlacedStep
<1>0. /\ spec \in Lists /\ stepIdx \in Nat /\ reqIdx \in Nat /\ i \in Nat
      /\ completed \in Nat /\ failed \in Nat /\ totalCompleted \in Nat /\ totalFailed \in Nat
    BY Here DEF Placed, TypeOK
<1>1. ASSUME Passed' = Passed, Counted' = Counted, expired \subseteq expired',
             scenarioDone => scenarioDone'
      PROVE  CountInv'
    <2>1. InTime' \subseteq InTime BY <1>1 DEF InTime
    <2> QED BY <1>p, <1>1, <2>1, CountKept
<1>2. CASE NoScenario \/ Begin \/ ScenarioEnd
    <2>1. ~InStep /\ ~InRequest /\ ~InStep' /\ ~InRequest'
          /\ pc # "extract" /\ pc' # "extract"
        BY <1>2 DEF NoScenario, Begin, ScenarioEnd, InStep, InRequest
    <2>2. UNCHANGED <<spec, stepIdx, totalCompleted, totalFailed, scenarioDone, expired>>
        BY <1>2 DEF NoScenario, Begin, ScenarioEnd
    <2>3. Passed' = Passed /\ Counted' = Counted
        BY <2>1, <2>2 DEF Passed, AtRequest, AtShot, Counted
    <2> QED BY <1>1, <2>2, <2>3
<1>3. CASE StepBegin
    <2>1. /\ ~InStep /\ ~InRequest /\ InStep' /\ ~InRequest'
          /\ pc # "extract" /\ pc' # "extract"
        BY <1>3 DEF StepBegin, InStep, InRequest
    <2>2. /\ UNCHANGED <<spec, stepIdx, totalCompleted, totalFailed, scenarioDone, expired>>
          /\ reqIdx' = 1 /\ completed' = 0 /\ failed' = 0
        BY <1>3 DEF StepBegin
    <2>3. Passed' = Passed BY <2>1, <2>2 DEF Passed, AtRequest, AtShot
    <2>4. Counted' = Counted BY <1>0, <2>1, <2>2 DEF Counted
    <2> QED BY <1>1, <2>2, <2>3, <2>4
<1>4. CASE RequestBegin
    <2>1. /\ InStep /\ ~InRequest /\ InStep' /\ InRequest'
          /\ pc # "extract" /\ pc' # "extract"
        BY <1>4 DEF RequestBegin, InStep, InRequest
    <2>2. /\ UNCHANGED <<spec, stepIdx, reqIdx, countVars, scenarioDone, expired>>
          /\ i' = 0
        BY <1>4 DEF RequestBegin
    <2>3. Passed' = Passed BY <2>1, <2>2 DEF Passed, AtRequest, AtShot
    <2>4. Counted' = Counted BY <2>1, <2>2 DEF Counted
    <2> QED BY <1>1, <2>2, <2>3, <2>4
<1>5. CASE StepEnd
    <2>1. /\ InStep /\ ~InRequest /\ ~InStep' /\ ~InRequest'
          /\ pc # "extract" /\ pc' # "extract"
        BY <1>5 DEF StepEnd, InStep, InRequest
    <2>2. /\ UNCHANGED <<spec, reqIdx, scenarioDone, expired>>
          /\ stepIdx' = stepIdx + 1
          /\ totalCompleted' = totalCompleted + completed
          /\ totalFailed' = totalFailed + failed
          /\ reqIdx > Len(step) \/ stepDone
        BY <1>5 DEF StepEnd, NextStep
    <2>3. /\ Passed = Before(spec, stepIdx, reqIdx, 0)
          /\ Passed' = Before(spec, stepIdx + 1, 1, 0)
        BY <2>1, <2>2 DEF Passed, AtRequest, AtShot
    <2>4. Counted' = Counted
        <3>1. /\ Counted = totalCompleted + totalFailed + (completed + failed)
              /\ Counted' = totalCompleted' + totalFailed' + 0
            BY <2>1 DEF Counted
        <3> QED BY <1>0, <2>2, <3>1
    <2>5. Passed \subseteq Passed'
        <3>1. stepIdx + 1 \in Nat /\ stepIdx < stepIdx + 1 BY <1>0
        <3> QED BY <1>0, <2>3, <3>1, BeforeLater
    <2>6. ASSUME ~scenarioDone' PROVE ~scenarioDone /\ InTime' \subseteq InTime
        <3>1. CASE reqIdx > Len(step)
            <4>1. Passed' = Passed
                BY <1>0, <2>1, <2>3, <3>1, Here, BeforeNextStep DEF step
            <4> QED BY <2>2, <2>6, <4>1 DEF InTime
        <3>2. CASE stepDone
            <4>1. stepIdx \in expired BY <2>1, <2>2, <2>6, <3>2 DEF Placed, PlaceInv
            <4>2. stepIdx + 1 \in Nat BY <1>0
            <4>3. {sh \in Before(spec, stepIdx + 1, 1, 0) : sh[1] \notin expired}
                    \subseteq {sh \in Before(spec, stepIdx, reqIdx, 0) : sh[1] \notin expired}
                BY <1>0, <4>1, <4>2, BeforeSkipsStep
            <4> QED BY <2>2, <2>3, <2>6, <4>3 DEF InTime
        <3> QED BY <2>2, <3>1, <3>2
    <2> QED BY <1>p, <2>4, <2>5, <2>6, CountKept
<1>6. CASE RepeatHead
    <2>1. /\ InStep /\ InRequest /\ InStep' /\ InRequest' /\ pc # "extract"
          /\ UNCHANGED <<spec, stepIdx, reqIdx, i, countVars, scenarioDone, expired>>
        BY <1>6 DEF RepeatHead, InStep, InRequest
    <2>2. Passed = Before(spec, stepIdx, reqIdx, i) /\ Counted' = Counted
        BY <2>1 DEF Passed, AtRequest, AtShot, Counted
    <2>3. CASE i < Count(req) /\ ~stepDone
        <3>1. pc' = "wait" BY <1>6, <2>3 DEF RepeatHead
        <3>2. Passed' = Passed BY <2>1, <2>2, <3>1 DEF Passed, AtRequest, AtShot
        <3> QED BY <1>1, <2>1, <2>2, <3>2
    <2>4. CASE ~(i < Count(req) /\ ~stepDone)
        <3>1. pc' = "extract" BY <1>6, <2>4 DEF RepeatHead
        <3>2. /\ Passed' = Before(spec, stepIdx, reqIdx, Count(req))
              /\ Count(req) \in Nat /\ i <= Count(req)
            BY <2>1, <3>1, Here DEF Passed, AtRequest, AtShot, req, step, Placed, PlaceInv
        <3>3. Passed \subseteq Passed' BY <1>0, <2>2, <3>2, BeforeLater
        <3>4. ASSUME ~scenarioDone' PROVE ~scenarioDone /\ InTime' \subseteq InTime
            <4>1. CASE ~(i < Count(req))
                <5>1. Passed' = Passed BY <1>0, <2>2, <3>2, <4>1
                <5> QED BY <2>1, <3>4, <5>1 DEF InTime
            <4>2. CASE stepDone
                <5>1. stepIdx \in expired BY <2>1, <3>4, <4>2 DEF Placed, PlaceInv
                <5>2. {sh \in Before(spec, stepIdx, reqIdx, Count(req)) : sh[1] \notin expired}
                        \subseteq {sh \in Before(spec, stepIdx, reqIdx, i) : sh[1] \notin expired}
                    BY <1>0, <3>2, <5>1, BeforeSkipsStep
                <5> QED BY <2>1, <2>2, <3>2, <3>4, <5>2 DEF InTime
            <4> QED BY <2>4, <4>1, <4>2
        <3> QED BY <1>p, <2>2, <3>3, <3>4, CountKept
    <2> QED BY <2>3, <2>4
<1>7. CASE WaitGranted
    <2>1. /\ pc = "wait" /\ pc' = "send"
          /\ UNCHANGED <<spec, stepIdx, reqIdx, i, countVars, scenarioDone, expired>>
        BY <1>7 DEF WaitGranted
    <2>2. Passed' = Passed /\ Counted' = Counted
        BY <2>1 DEF Passed, AtRequest, AtShot, Counted, InStep, InRequest
    <2> QED BY <1>1, <2>1, <2>2
<1>8. CASE WaitRefused
    <2>1. /\ pc = "wait" /\ pc' = "extract" /\ failed' = failed + (Count(req) - i)
          /\ UNCHANGED <<spec, stepIdx, reqIdx, i, completed, totalCompleted, totalFailed,
                         scenarioDone, expired>>
        BY <1>8 DEF WaitRefused, Unsent
    <2>2. InStep /\ InStep' /\ InRequest' BY <2>1 DEF InStep, InRequest
    <2>3. Count(req) \in Nat /\ i <= Count(req)
        BY <1>0, <2>1, Here DEF Placed, PlaceInv, InRequest
    <2>4. Passed' = Before(spec, stepIdx, reqIdx, Count(req))
        BY <2>1, <2>2 DEF Passed, AtRequest, AtShot, req, step
    <2>5. Counted' = Counted + (Count(req) - i)
        <3>1. /\ Counted = totalCompleted + totalFailed + (completed + failed)
              /\ Counted' = totalCompleted + totalFailed + (completed + failed')
            BY <2>1, <2>2 DEF Counted
        <3> QED BY <1>0, <2>1, <2>3, <3>1
    <2> QED BY <1>p, <2>1, <2>3, <2>4, <2>5, CountSpan
<1>9. CASE SendHTTPFailed \/ SendHTTPAnswered \/ SendGRPCFailed \/ SendGRPCAnswered
    <2>1. pc = "send" /\ \E resp : HandleResponse(resp)
        BY <1>9 DEF SendHTTPFailed, SendHTTPAnswered, SendGRPCFailed, SendGRPCAnswered,
                    SendGRPC
    <2> QED BY <1>p, <2>1, CountRespond
<1>10. CASE ExtractVariables
    <2>1. /\ pc = "extract" /\ pc' = "requests" /\ reqIdx' = reqIdx + 1
          /\ UNCHANGED <<spec, stepIdx, countVars, scenarioDone, expired>>
        BY <1>10 DEF ExtractVariables
    <2>2. InStep /\ InRequest /\ InStep' /\ ~InRequest' BY <2>1 DEF InStep, InRequest
    <2>3. /\ Passed = Before(spec, stepIdx, reqIdx, Count(spec[stepIdx][reqIdx]))
          /\ Passed' = Before(spec, stepIdx, reqIdx + 1, 0)
        BY <2>1, <2>2 DEF Passed, AtRequest, AtShot, req, step
    <2>4. Passed' = Passed BY <2>2, <2>3, Here, BeforeNextRequest
    <2>5. Counted' = Counted BY <2>1, <2>2 DEF Counted
    <2> QED BY <1>1, <2>1, <2>4, <2>5
<1>11. CASE ExpireScenario \/ ExpireStep \/ UNCHANGED vars
    <2>1. /\ UNCHANGED <<spec, pc, stepIdx, reqIdx, i, countVars>>
          /\ expired \subseteq expired'
          /\ scenarioDone => scenarioDone'
        BY <1>11 DEF ExpireScenario, ExpireStep, vars
    <2>2. Passed' = Passed /\ Counted' = Counted
        BY <2>1 DEF Passed, AtRequest, AtShot, Counted, InStep, InRequest, req, step
    <2> QED BY <1>1, <2>1, <2>2
<1> QED BY <1>2, <1>3, <1>4, <1>5, <1>6, <1>7, <1>8, <1>9, <1>10, <1>11
        DEF Next, Advance

LEMMA CountInit == Init => CountInv
<1> SUFFICES ASSUME Init PROVE CountInv OBVIOUS
<1>1. spec \in Lists BY PlacedInit, Here
<1>2. Passed = {}
    <2>1. Passed = Before(spec, 1, 1, 0)
        BY DEF Init, Passed, AtRequest, AtShot, InStep, InRequest
    <2> QED BY <1>1, <2>1, BeforeBounds
<1>3. InTime = {} BY <1>2 DEF InTime
<1>4. Counted = 0 BY DEF Init, Counted, InStep
<1> QED BY <1>2, <1>3, <1>4, FS_EmptySet DEF CountInv

(* No steps, no shots. *)
LEMMA NoShots == Placed /\ spec = <<>> => Shots(spec) = {}
<1> SUFFICES ASSUME Placed, spec = <<>> PROVE Shots(spec) = {} OBVIOUS
<1>1. spec \in Lists BY Here
<1>2. Len(spec) + 1 = 1 OBVIOUS
<1> QED BY <1>1, <1>2, BeforeBounds

LEMMA ScenarioContractStep ==
    Placed /\ CountInv /\ [Next]_vars => [Contract!Return]_Contract!vars
<1> SUFFICES ASSUME Placed, CountInv, [Next]_vars
             PROVE  [Contract!Return]_Contract!vars
    OBVIOUS
<1> USE DEF loopVars, ctxVars, countVars, dataVars, histVars, grpcHist
<1>p. Placed' BY PlacedStep
<1>0. Cardinality(Shots(spec)) \in Nat
    BY Here, ShotsFinite, FS_CardinalityType
<1>r. result' \in Contract!Results
    BY <1>p DEF Placed, TypeOK, Results, Contract!Results, Messages, Contract!Messages
<1>1. CASE NoScenario
    <2>1. pc = "start" /\ pc' = "returned" /\ spec' = spec BY <1>1 DEF NoScenario
    <2>2. CASE ~config.podIP
        <3>1. result' = [completed |-> 0, failed |-> 0, success |-> FALSE,
                         error |-> TRUE, message |-> "refused"]
            BY <1>1, <2>2 DEF NoScenario, NoResult
        <3>2. /\ result'.completed = 0 /\ result'.failed = 0 /\ result'.success = FALSE
              /\ result'.message = "refused"
            BY <3>1
        <3>3. Contract!Acceptable(result') BY <1>0, <3>2 DEF Contract!Acceptable
        <3> QED BY <1>r, <2>1, <3>3 DEF Contract!Return
    <2>3. CASE config.podIP
        <3>1. /\ result' = [completed |-> 0, failed |-> 0, success |-> TRUE,
                            error |-> FALSE, message |-> "no steps"]
              /\ spec = <<>>
            BY <1>1, <2>3 DEF NoScenario, NoResult
        <3>2. Cardinality(Shots(spec)) = 0 BY <3>1, NoShots, FS_EmptySet
        <3>3. result'.completed = 0 /\ result'.failed = 0 /\ result'.message = "no steps"
            BY <3>1
        <3>4. Contract!Acceptable(result')
            <4>1. ASSUME NEW c, NEW f, NEW n, c = 0, f = 0, n = 0
                  PROVE  c + f <= n /\ ~(c > 0) /\ ~(n > 0)
                BY <4>1
            <4>2. /\ result'.completed + result'.failed <= Cardinality(Shots(spec))
                  /\ ~(result'.completed > 0) /\ ~(Cardinality(Shots(spec)) > 0)
                BY ONLY <3>2, <3>3, <4>1
            <4> QED BY <3>3, <4>2 DEF Contract!Acceptable
        <3> QED BY <1>r, <2>1, <3>4 DEF Contract!Return
    <2> QED BY <2>2, <2>3
<1>2. CASE ScenarioEnd
    <2>1. /\ pc = "steps" /\ pc' = "returned" /\ spec' = spec
          /\ result' = Summary(totalCompleted, totalFailed, scenarioDone)
        BY <1>2 DEF ScenarioEnd
    <2>2. /\ totalCompleted \in Nat /\ totalFailed \in Nat /\ scenarioDone \in BOOLEAN
        BY DEF Placed, TypeOK
    <2>3. totalCompleted + totalFailed <= Cardinality(Shots(spec))
        <3>1. Counted = totalCompleted + totalFailed
            BY <2>1, <2>2 DEF Counted, InStep
        <3> QED BY <1>0, <2>2, <3>1, PassedType DEF CountInv
    <2>4. /\ result'.completed = totalCompleted
          /\ result'.failed = totalFailed
          /\ result'.success <=> totalCompleted > 0
          /\ result'.message # "none"
        BY <2>1, <2>2, SummaryType
    <2>5. Contract!Acceptable(result')
        BY <1>0, <2>2, <2>3, <2>4 DEF Contract!Acceptable
    <2> QED BY <1>r, <2>1, <2>5 DEF Contract!Return
<1>3. CASE Begin \/ StepBegin \/ RequestBegin \/ StepEnd \/ RepeatHead \/ ExtractVariables
    <2>1. spec' = spec /\ result' = result /\ pc # "returned" /\ pc' # "returned"
        BY <1>3 DEF Begin, StepBegin, RequestBegin, StepEnd, RepeatHead, ExtractVariables
    <2> QED BY <2>1 DEF Contract!vars
<1>4. CASE WaitGranted \/ WaitRefused \/ SendHTTPFailed \/ SendHTTPAnswered
           \/ SendGRPCFailed \/ SendGRPCAnswered
    <2>1. spec' = spec /\ result' = result /\ pc # "returned" /\ pc' # "returned"
        BY <1>4 DEF WaitGranted, WaitRefused, SendHTTPFailed, SendHTTPAnswered,
                    SendGRPCFailed, SendGRPCAnswered, SendGRPC, HandleResponse
    <2> QED BY <2>1 DEF Contract!vars
<1>5. CASE ExpireScenario \/ ExpireStep \/ UNCHANGED vars
    BY <1>5 DEF ExpireScenario, ExpireStep, vars, Contract!vars
<1> QED BY <1>1, <1>2, <1>3, <1>4, <1>5 DEF Next, Advance

(* ExecuteScenario implements the contract of an executor, whatever steps, *)
(* requests and counts the scenario has: on no way out of the nested loops *)
(* is a request counted twice.                                             *)
THEOREM ScenarioKeepsContract == Spec => KeepsContract
<1>1. Init => Contract!Init
    <2> SUFFICES ASSUME Init PROVE Contract!Init OBVIOUS
    <2>1. Cardinality(Shots(spec)) \in Nat
        BY PlacedInit, Here, ShotsFinite, FS_CardinalityType
    <2> QED BY <2>1 DEF Init, Contract!Init, NoResult, Contract!NoResult
<1> QED BY <1>1, PlacedInit, PlacedStep, CountInit, CountStep, ScenarioContractStep, PTL
        DEF Spec, KeepsContract, Contract!Spec

-----------------------------------------------------------------------------
(* Nothing is left out *)

(* The requests whose loop was reached. *)
Reached(s, r) ==
    \/ s < stepIdx
    \/ InStep /\ s = stepIdx /\ r < reqIdx
    \/ InRequest /\ s = stepIdx /\ r = reqIdx

BegunInv ==
    ~scenarioDone =>
        \A s \in DOMAIN spec \ expired : \A r \in DOMAIN spec[s] :
            Reached(s, r) => <<s, r>> \in begun

LEMMA BegunStep == Placed /\ BegunInv /\ [Next]_vars => BegunInv'
<1> SUFFICES ASSUME Placed, BegunInv, [Next]_vars, ~scenarioDone',
                    NEW s \in DOMAIN spec' \ expired', NEW r \in DOMAIN spec'[s],
                    Reached(s, r)'
             PROVE  <<s, r>> \in begun'
    BY DEF BegunInv
<1> USE DEF loopVars, ctxVars, countVars, dataVars, histVars, grpcHist
<1>1. /\ spec' = spec /\ begun \subseteq begun' /\ expired \subseteq expired'
      /\ ~scenarioDone
    <2>1. CASE Advance
        BY <2>1 DEF Advance, NoScenario, Begin, StepBegin, ScenarioEnd, RequestBegin,
                    StepEnd, RepeatHead, ExtractVariables
    <2>2. CASE WaitGranted \/ WaitRefused BY <2>2 DEF WaitGranted, WaitRefused
    <2>3. CASE SendHTTPFailed \/ SendHTTPAnswered \/ SendGRPCFailed \/ SendGRPCAnswered
        <3>1. \E resp : HandleResponse(resp)
            BY <2>3 DEF SendHTTPFailed, SendHTTPAnswered, SendGRPCFailed, SendGRPCAnswered,
                        SendGRPC
        <3> QED BY <3>1 DEF HandleResponse
    <2>4. CASE ExpireScenario \/ ExpireStep \/ UNCHANGED vars
        BY <2>4 DEF ExpireScenario, ExpireStep, vars
    <2> QED BY <2>1, <2>2, <2>3, <2>4 DEF Next
<1>2. s \in DOMAIN spec \ expired /\ r \in DOMAIN spec[s] BY <1>1
<1>3. s \in Nat \ {0} /\ r \in Nat \ {0} /\ s <= Len(spec) /\ r <= Len(spec[s])
    BY <1>2, Here, RequestType
<1>4. Reached(s, r) => <<s, r>> \in begun' BY <1>1, <1>2 DEF BegunInv
<1>5. stepIdx \in Nat /\ reqIdx \in Nat BY Here DEF Placed, TypeOK
<1>6. CASE NoScenario \/ Begin \/ ScenarioEnd \/ RepeatHead \/ WaitGranted \/ WaitRefused
           \/ ExpireScenario \/ ExpireStep \/ UNCHANGED vars
    <2>1. UNCHANGED <<stepIdx, reqIdx>> /\ (InStep' <=> InStep) /\ (InRequest' <=> InRequest)
        BY <1>6 DEF NoScenario, Begin, ScenarioEnd, RepeatHead, WaitGranted, WaitRefused,
                    ExpireScenario, ExpireStep, vars, InStep, InRequest
    <2> QED BY <1>4, <2>1 DEF Reached
<1>7. CASE SendHTTPFailed \/ SendHTTPAnswered \/ SendGRPCFailed \/ SendGRPCAnswered
    <2>1. UNCHANGED <<stepIdx, reqIdx>> /\ pc = "send" /\ pc' = "repeat"
        BY <1>7 DEF SendHTTPFailed, SendHTTPAnswered, SendGRPCFailed, SendGRPCAnswered,
                    SendGRPC, HandleResponse
    <2> QED BY <1>4, <2>1 DEF Reached, InStep, InRequest
<1>8. CASE StepBegin
    <2>1. /\ stepIdx' = stepIdx /\ reqIdx' = 1 /\ pc' = "requests"
        BY <1>8 DEF StepBegin
    <2>2. s < stepIdx BY <1>3, <1>5, <2>1 DEF Reached, InStep, InRequest
    <2> QED BY <1>4, <2>2 DEF Reached
<1>9. CASE RequestBegin
    <2>1. /\ UNCHANGED <<stepIdx, reqIdx>> /\ pc = "requests" /\ pc' = "repeat"
          /\ <<stepIdx, reqIdx>> \in begun'
        BY <1>9 DEF RequestBegin
    <2> QED BY <1>4, <2>1 DEF Reached, InStep, InRequest
<1>10. CASE ExtractVariables
    <2>1. stepIdx' = stepIdx /\ reqIdx' = reqIdx + 1 /\ pc = "extract" /\ pc' = "requests"
        BY <1>10 DEF ExtractVariables
    <2> QED BY <1>3, <1>4, <1>5, <2>1 DEF Reached, InStep, InRequest
<1>11. CASE StepEnd
    <2>1. /\ stepIdx' = stepIdx + 1 /\ pc = "requests" /\ pc' = "steps"
          /\ reqIdx > Len(step) \/ stepDone
        BY <1>11 DEF StepEnd, NextStep
    <2>2. s < stepIdx + 1 BY <2>1 DEF Reached, InStep, InRequest
    <2>3. CASE s < stepIdx BY <1>4, <2>3 DEF Reached
    <2>4. CASE s = stepIdx
        <3>1. stepDone => stepIdx \in expired
            BY <1>1, <2>1 DEF Placed, PlaceInv, InStep
        <3>2. reqIdx > Len(step) BY <1>2, <2>1, <2>4, <3>1
        <3>3. r < reqIdx
            BY <1>3, <1>5, <2>1, <2>4, <3>2, Here DEF step, InStep
        <3> QED BY <1>4, <2>1, <2>4, <3>3 DEF Reached, InStep
    <2> QED BY <1>3, <1>5, <2>2, <2>3, <2>4
<1> QED BY <1>6, <1>7, <1>8, <1>9, <1>10, <1>11 DEF Next, Advance

LEMMA ContinuesStep ==
    Placed /\ CountInv /\ BegunInv /\ ScenarioContinues /\ [Next]_vars => ScenarioContinues'
<1> SUFFICES ASSUME Placed, CountInv, BegunInv, ScenarioContinues, [Next]_vars
             PROVE  ScenarioContinues'
    OBVIOUS
<1> USE DEF loopVars, ctxVars, countVars, dataVars, histVars, grpcHist
<1> DEFINE Uncut == {sh \in Shots(spec) : sh[1] \notin expired}
<1>1. CASE NoScenario
    <2>1. UNCHANGED <<spec, config, expired>> /\ (config.podIP => spec = <<>>)
        BY <1>1 DEF NoScenario
    <2>2. CASE ~config.podIP BY <2>1, <2>2 DEF ScenarioContinues
    <2>3. CASE config.podIP
        <3>1. Shots(spec') = {} /\ DOMAIN spec' = {} BY <2>1, <2>3, NoShots
        <3>2. {sh \in Shots(spec') : sh[1] \notin expired'} = {} BY <3>1
        <3>3. result' = [NoResult EXCEPT !.success = TRUE, !.message = "no steps"]
            BY <1>1, <2>3 DEF NoScenario
        <3>4. result'.completed = 0 /\ result'.failed = 0 BY <3>3 DEF NoResult
        <3>5. Cardinality({sh \in Shots(spec') : sh[1] \notin expired'})
                 <= result'.completed + result'.failed
            <4>1. Cardinality({sh \in Shots(spec') : sh[1] \notin expired'}) = 0
                BY <3>2, FS_EmptySet
            <4>2. 0 <= 0 + 0 OBVIOUS
            <4> QED BY ONLY <3>4, <4>1, <4>2
        <3> QED BY <3>1, <3>5 DEF ScenarioContinues
    <2> QED BY <2>2, <2>3
<1>2. CASE ScenarioEnd
    <2>1. /\ pc = "steps" /\ UNCHANGED <<spec, expired, begun, scenarioDone>>
          /\ result' = Summary(totalCompleted, totalFailed, scenarioDone)
          /\ stepIdx > Len(spec) \/ scenarioDone
        BY <1>2 DEF ScenarioEnd
    <2>2. CASE scenarioDone BY <2>1, <2>2 DEF ScenarioContinues
    <2>3. CASE ~scenarioDone
        <3>1. stepIdx = Len(spec) + 1 BY <2>1, <2>3, Here
        <3>2. ASSUME NEW s \in DOMAIN spec \ expired, NEW r \in DOMAIN spec[s]
              PROVE  <<s, r>> \in begun
            <4>1. s \in Nat /\ s <= Len(spec) /\ Len(spec) \in Nat BY Here, RequestType
            <4>2. Reached(s, r) BY <3>1, <4>1 DEF Reached
            <4> QED BY <2>3, <4>2 DEF BegunInv
        <3>3. InTime = Uncut
            <4>1. Passed = Before(spec, Len(spec) + 1, 1, 0)
                BY <2>1, <3>1 DEF Passed, AtRequest, AtShot, InStep, InRequest
            <4>2. Passed = Shots(spec) BY <4>1, Here, BeforeBounds
            <4> QED BY <4>2 DEF InTime
        <3>4. /\ totalCompleted \in Nat /\ totalFailed \in Nat /\ scenarioDone \in BOOLEAN
            BY DEF Placed, TypeOK
        <3>5. Counted = totalCompleted + totalFailed BY <2>1, <3>4 DEF Counted, InStep
        <3>6. result'.completed = totalCompleted /\ result'.failed = totalFailed
            BY <2>1, <3>4, SummaryType
        <3>7. Cardinality(Uncut) <= result'.completed + result'.failed
            BY <2>3, <3>3, <3>5, <3>6 DEF CountInv
        <3> QED BY <2>1, <3>2, <3>7 DEF ScenarioContinues
    <2> QED BY <2>2, <2>3 DEF Placed, TypeOK
<1>3. CASE pc' # "returned" BY <1>3 DEF ScenarioContinues
<1>4. CASE UNCHANGED vars BY <1>4 DEF vars, ScenarioContinues
<1>5. CASE Begin \/ StepBegin \/ RequestBegin \/ StepEnd \/ RepeatHead \/ ExtractVariables
    BY <1>3, <1>5 DEF Begin, StepBegin, RequestBegin, StepEnd, RepeatHead, ExtractVariables
<1>6. CASE WaitGranted \/ WaitRefused \/ SendHTTPFailed \/ SendHTTPAnswered
           \/ SendGRPCFailed \/ SendGRPCAnswered
    <2>1. pc' # "returned"
        BY <1>6 DEF WaitGranted, WaitRefused, SendHTTPFailed, SendHTTPAnswered,
                    SendGRPCFailed, SendGRPCAnswered, SendGRPC, HandleResponse
    <2> QED BY <1>3, <2>1
<1>7. CASE ExpireScenario \/ ExpireStep
    <2>1. pc' # "returned" BY <1>7 DEF ExpireScenario, ExpireStep, Running
    <2> QED BY <1>3, <2>1
<1> QED BY <1>1, <1>2, <1>4, <1>5, <1>6, <1>7 DEF Next, Advance

(* A failed request, a refusal of the limiter or a step out of time never  *)
(* makes ExecuteScenario leave out, or leave uncounted, what a step that   *)
(* did not time out asks for, in any scenario.                             *)
THEOREM ScenarioAlwaysContinues == Spec => []ScenarioContinues
<1>1. Init => BegunInv
    <2> SUFFICES ASSUME Init, NEW s \in DOMAIN spec, NEW r \in DOMAIN spec[s], Reached(s, r)
                 PROVE  FALSE
        BY DEF BegunInv
    <2>1. s \in Nat \ {0} BY PlacedInit, Here, RequestType
    <2> QED BY <2>1 DEF Init, Reached, InStep, InRequest
<1>2. Init => ScenarioContinues BY DEF Init, ScenarioContinues
<1> QED BY <1>1, <1>2, PlacedInit, PlacedStep, CountInit, CountStep, BegunStep,
           ContinuesStep, PTL DEF Spec
=============================================================================
