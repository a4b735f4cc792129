------------------------- MODULE WarmupTimingProofs -------------------------
(***************************************************************************)
(* Theorems about WarmupTiming, for any finite number of warmups, any      *)
(* plans, rates and timeouts.                                              *)
(***************************************************************************)
EXTENDS WarmupTiming, FiniteSetTheorems, TLAPS

Waiting == {c \in Warmups : w[c].pc = "wait"}

(* Waiting warmups whose token is there. *)
Served == {c \in Waiting : w[c].due <= now}

(* Tokens that can be had at once. *)
InBucket == IF limiter.tokens > 0 THEN limiter.tokens ELSE 0

-----------------------------------------------------------------------------
(* The contexts are nested, and a warmup leaves each one in time: it waits *)
(* for a token or an answer only while the context of the step lasts.      *)
ContextOK(u) ==
    /\ u.pc \notin {"idle", "update", "released"} =>
          /\ now <= u.deadline
          /\ u.deadline <= u.started + u.plan.timeout + Grace
    /\ u.pc \in {"loop", "wait", "send"} => u.stepDeadline <= u.deadline
    /\ u.pc \in {"wait", "send"} => u.left > 0
    /\ u.pc = "wait" => u.due <= u.stepDeadline

LimiterInv ==
    /\ limiter \in [limited : BOOLEAN, burst : Nat, tokens : Int]
    /\ limiter.limited <=> quarterRps > 0
    /\ limiter.limited => limiter.burst > 0 /\ limiter.burst <= OneSecond(quarterRps)
    /\ limiter.tokens <= limiter.burst

(* Each missing token is one that a warmup waits for: the reservations     *)
(* that are not due yet come due one by one, the last when all missing     *)
(* tokens are there.                                                       *)
DebtInv ==
    /\ \A c \in Waiting : w[c].due <= now \/ w[c].due - now <= -limiter.tokens
    /\ \A n \in 1 .. -limiter.tokens : \E c \in Waiting : w[c].due = now + n
    /\ \A c, d \in Waiting : w[c].due > now /\ w[c].due = w[d].due => c = d

(* What was granted since t, is granted now and is in the bucket never     *)
(* exceeds what was in the bucket at t and was added since.                *)
RateInv ==
    limiter.limited =>
        \A t \in 0 .. now :
            granted - before[t] + Cardinality(Served) + InBucket
                <= limiter.burst + (now - t)

WarmupState ==
    [plan : Plans,
     pc : {"idle", "steps", "loop", "wait", "send", "update", "released"},
     started : Nat, deadline : Nat, step : Nat \ {0}, stepDeadline : Nat,
     left : Nat, due : Nat, timedOut : BOOLEAN]

Types ==
    /\ now \in 0 .. Horizon
    /\ quarterRps \in QuarterRates
    /\ w \in [Warmups -> WarmupState]
    /\ granted \in Nat
    /\ before \in [0 .. Horizon -> Nat]

TimingInv ==
    /\ Types
    /\ \A c \in Warmups : ContextOK(w[c])
    /\ LimiterInv
    /\ DebtInv
    /\ RateInv

-----------------------------------------------------------------------------
(* Operators of the model *)

LEMMA BurstBounds ==
    ASSUME NEW r \in Int, r > 0
    PROVE  \A b \in Burst(r) : b \in Nat /\ b > 0 /\ b <= OneSecond(r)
<1>1. /\ Round(r) \in Nat
      /\ r < 4 => Round(r) <= 1
      /\ r >= 4 => Round(r) >= 1
    BY DEF Round
<1> SUFFICES ASSUME NEW x \in ToInt(Round(r))
             PROVE  LET b == Greatest(1, Least(x, MaxBurst))
                    IN  b \in Nat /\ b > 0 /\ b <= OneSecond(r)
    BY DEF Burst
<1>2. x \in Int /\ (x = Round(r) \/ (x = MaxInt /\ MaxInt < Round(r)) \/ x < 0)
    BY <1>1, MaxBurstAssumption DEF ToInt
<1> QED BY <1>1, <1>2, MaxBurstAssumption DEF Least, Greatest, OneSecond

(* The executor's context ends within Reconcile's. *)
LEMMA DeadlineBounds ==
    ASSUME now \in Nat, NEW p \in Plans
    PROVE  /\ Deadline(p) \in Nat
           /\ now <= Deadline(p)
           /\ Deadline(p) <= now + p.timeout + Grace
<1>1. p.timeout \in Nat /\ p.specTimeout \in Nat
    BY PlansAssumption
<1>2. overallTimeout(p) \in Nat
    BY <1>1, TimingAssumption DEF overallTimeout, OrDefault, Least
<1> QED BY <1>1, <1>2, TimingAssumption DEF Deadline, ReconcileDeadline, Least

(* The context of a step ends within the executor's. *)
LEMMA StepDeadlineBounds ==
    ASSUME now \in Nat, NEW u \in WarmupState, u.step <= Len(u.plan.steps)
    PROVE  /\ StepDeadline(u) \in Nat
           /\ StepDeadline(u) <= u.deadline
           /\ u.plan.steps[u.step].count \in Nat
<1>1. u.plan \in Plans /\ u.deadline \in Nat /\ u.step \in Nat \ {0}
    BY DEF WarmupState
<1>2. u.plan.steps \in Seq([count : Nat, timeout : Nat])
    BY <1>1, PlansAssumption
<1>3. u.plan.steps[u.step] \in [count : Nat, timeout : Nat]
    <2>1. ASSUME NEW T, NEW s \in Seq(T), NEW j \in Nat \ {0}, j <= Len(s)
          PROVE  s[j] \in T
        BY <2>1
    <2> QED BY <1>1, <1>2, <2>1
<1>4. OrDefault(u.plan.steps[u.step].timeout, DefaultStepTimeout) \in Nat
    BY <1>3, TimingAssumption DEF OrDefault
<1> QED BY <1>1, <1>3, <1>4 DEF StepDeadline, Least

LEMMA WaitingFinite ==
    /\ IsFiniteSet(Waiting) /\ IsFiniteSet(Served)
    /\ Cardinality(Waiting) \in Nat /\ Cardinality(Served) \in Nat
    /\ Cardinality(Waiting) <= Cardinality(Warmups)
    /\ Cardinality(Warmups) \in Nat
<1>1. Waiting \subseteq Warmups /\ Served \subseteq Warmups
    BY DEF Waiting, Served
<1> QED BY <1>1, PlansAssumption, FS_Subset, FS_CardinalityType

-----------------------------------------------------------------------------
LEMMA TimingInit == Init => TimingInv
<1> SUFFICES ASSUME Init PROVE TimingInv OBVIOUS
<1>1. Types
    <2>1. 0 \in 0 .. Horizon BY TimingAssumption
    <2>2. w \in [Warmups -> WarmupState]
        <3> DEFINE new(p) == [plan |-> p, pc |-> "idle", started |-> 0,
                              deadline |-> 0, step |-> 1, stepDeadline |-> 0,
                              left |-> 0, due |-> 0, timedOut |-> FALSE]
        <3>1. \A p \in Plans : new(p) \in WarmupState BY DEF WarmupState
        <3>2. w \in [Warmups -> {new(p) : p \in Plans}] BY DEF Init
        <3> HIDE DEF new
        <3> QED BY <3>1, <3>2
    <2> QED BY <2>1, <2>2 DEF Init, Types
<1>2. \A c \in Warmups : w[c].pc = "idle" BY DEF Init
<1>3. \A c \in Warmups : ContextOK(w[c]) BY <1>2 DEF ContextOK
<1>4. quarterRps \in Int BY PlansAssumption DEF Init
<1>5. LimiterInv
    <2> DEFINE l == quarterRps > 0
    <2>1. PICK b \in IF quarterRps <= 0 THEN {0} ELSE Burst(quarterRps) :
              limiter = [limited |-> l, burst |-> b, tokens |-> b]
        BY DEF Init, NewRequestRateLimiter
    <2>2. b \in Nat /\ (l => b > 0 /\ b <= OneSecond(quarterRps))
        BY <1>4, <2>1, BurstBounds
    <2>3. l \in BOOLEAN OBVIOUS
    <2>4. [limited |-> l, burst |-> b, tokens |-> b]
              \in [limited : BOOLEAN, burst : Nat, tokens : Int]
        <3> HIDE DEF l
        <3> QED BY <2>2, <2>3
    <2>5. /\ limiter.limited = l /\ limiter.burst = b /\ limiter.tokens = b
        BY <2>1, Zenon
    <2>6. limiter \in [limited : BOOLEAN, burst : Nat, tokens : Int]
        BY <2>1, <2>4
    <2>7. limiter.limited <=> quarterRps > 0 BY <2>5, Zenon
    <2>8. limiter.limited => limiter.burst > 0 /\ limiter.burst <= OneSecond(quarterRps)
        BY <2>2, <2>5, <2>7
    <2>9. limiter.tokens <= limiter.burst BY <2>2, <2>5
    <2> QED BY <2>6, <2>7, <2>8, <2>9 DEF LimiterInv
<1>6. Waiting = {} /\ Served = {} BY <1>2 DEF Waiting, Served
<1>7. limiter.tokens = limiter.burst /\ limiter.burst \in Nat
    BY <1>5 DEF Init, NewRequestRateLimiter, LimiterInv
<1>8. DebtInv BY <1>6, <1>7 DEF DebtInv
<1>9. RateInv
    <2>1. Cardinality(Served) = 0 BY <1>6, FS_EmptySet
    <2> QED BY <1>7, <2>1, TimingAssumption DEF RateInv, Init, InBucket
<1> QED BY <1>1, <1>3, <1>5, <1>8, <1>9 DEF TimingInv

-----------------------------------------------------------------------------
(* A step of warmup c alone keeps the types and the contexts of all, if it *)
(* keeps its own.                                                          *)
LEMMA BecomesKeeps ==
    ASSUME TimingInv, NEW c \in Warmups, NEW u \in WarmupState, Becomes(c, u),
           granted' \in Nat, ContextOK(u)
    PROVE  Types' /\ \A d \in Warmups : ContextOK(w[d])'
<1>1. /\ w' = [w EXCEPT ![c] = u] /\ now' = now
      /\ quarterRps' = quarterRps /\ before' = before
    BY DEF Becomes
<1>2. Types' BY <1>1 DEF Types, TimingInv
<1>3. ASSUME NEW d \in Warmups PROVE ContextOK(w[d])'
    <2>1. w'[d] = IF d = c THEN u ELSE w[d] BY <1>1 DEF Types, TimingInv
    <2>2. ContextOK(w[d]) BY DEF TimingInv
    <2> QED BY <1>1, <2>1, <2>2 DEF ContextOK
<1> QED BY <1>2, <1>3

(* A step of a warmup that neither waits nor begins to leaves the limiter  *)
(* and those who wait alone.                                               *)
LEMMA LimiterKept ==
    ASSUME TimingInv, NEW c \in Warmups, NEW u \in WarmupState, Becomes(c, u),
           w[c].pc # "wait", u.pc # "wait", UNCHANGED <<limiter, granted>>
    PROVE  LimiterInv' /\ DebtInv' /\ RateInv'
<1>1. /\ w' = [w EXCEPT ![c] = u] /\ now' = now
      /\ quarterRps' = quarterRps /\ before' = before
    BY DEF Becomes
<1>2. \A d \in Warmups : d # c => w'[d] = w[d]
    BY <1>1 DEF TimingInv, Types
<1>3. w'[c].pc # "wait" BY <1>1 DEF TimingInv, Types
<1>4. Waiting' = Waiting /\ \A d \in Waiting : w'[d] = w[d]
    BY <1>2, <1>3 DEF Waiting
<1>5. Served' = Served BY <1>1, <1>4 DEF Served
<1>6. LimiterInv' BY <1>1 DEF TimingInv, LimiterInv
<1>7. DebtInv' BY <1>1, <1>4 DEF TimingInv, DebtInv
<1>8. RateInv' BY <1>1, <1>5 DEF TimingInv, RateInv, InBucket
<1> QED BY <1>6, <1>7, <1>8

LEMMA QuietStep ==
    ASSUME TimingInv, NEW c \in Warmups, NEW u \in WarmupState, Becomes(c, u),
           w[c].pc # "wait", u.pc # "wait", UNCHANGED <<limiter, granted>>,
           ContextOK(u)
    PROVE  TimingInv'
<1>1. granted' \in Nat BY DEF TimingInv, Types
<1> QED BY <1>1, BecomesKeeps, LimiterKept DEF TimingInv

(* The steps of a warmup other than its waits for tokens. *)
LEMMA WarmupSteps ==
    ASSUME TimingInv, NEW c \in Warmups,
           \/ Start(c) \/ StepBegin(c) \/ Return(c) \/ StepEnd(c) \/ Unlimited(c)
           \/ WaitRefused(c) \/ SendReturns(c) \/ Release(c)
    PROVE  TimingInv'
<1>1. /\ w[c] \in WarmupState /\ ContextOK(w[c])
      /\ now \in Nat /\ now \in 0 .. Horizon
    BY TimingAssumption DEF TimingInv, Types
<1>2. CASE Start(c)
    <2>1. PICK u : u = [w[c] EXCEPT !.pc = "steps", !.started = now,
                                    !.deadline = Deadline(w[c].plan)]
        OBVIOUS
    <2>2. w[c].plan \in Plans BY <1>1 DEF WarmupState
    <2>3. u \in WarmupState
        BY <1>1, <2>1, <2>2, DeadlineBounds DEF WarmupState
    <2>4. /\ u.pc = "steps" /\ u.started = now /\ u.plan = w[c].plan
          /\ u.deadline = Deadline(w[c].plan)
        BY <1>1, <2>1 DEF WarmupState
    <2>5. ContextOK(u) BY <1>1, <2>2, <2>4, DeadlineBounds DEF ContextOK
    <2> QED BY <1>2, <2>1, <2>3, <2>4, <2>5, QuietStep DEF Start
<1>3. CASE StepBegin(c)
    <2>1. PICK u : u = [w[c] EXCEPT !.pc = "loop",
                                    !.left = w[c].plan.steps[w[c].step].count,
                                    !.stepDeadline = StepDeadline(w[c])]
        OBVIOUS
    <2>2. /\ StepDeadline(w[c]) \in Nat
          /\ StepDeadline(w[c]) <= w[c].deadline
          /\ w[c].plan.steps[w[c].step].count \in Nat
        BY <1>1, <1>3, StepDeadlineBounds DEF StepBegin
    <2>3. u \in WarmupState BY <1>1, <2>1, <2>2 DEF WarmupState
    <2>4. /\ u.pc = "loop" /\ u.started = w[c].started /\ u.plan = w[c].plan
          /\ u.deadline = w[c].deadline /\ u.stepDeadline = StepDeadline(w[c])
        BY <1>1, <2>1 DEF WarmupState
    <2>5. ContextOK(u) BY <1>1, <1>3, <2>2, <2>4 DEF ContextOK, StepBegin
    <2> QED BY <1>3, <2>1, <2>3, <2>4, <2>5, QuietStep DEF StepBegin
<1>4. CASE Return(c)
    <2>0. (now >= w[c].deadline) \in BOOLEAN OBVIOUS
    <2>1. PICK b \in BOOLEAN : b = (now >= w[c].deadline) BY <2>0, Zenon
    <2>2. PICK u : u = [w[c] EXCEPT !.pc = "update", !.timedOut = b] OBVIOUS
    <2>3. u \in WarmupState /\ u.pc = "update"
        BY <1>1, <2>2 DEF WarmupState
    <2>4. ContextOK(u) BY <2>3 DEF ContextOK
    <2>5. Becomes(c, u) BY <1>4, <2>1, <2>2 DEF Return
    <2> QED BY <1>4, <2>3, <2>4, <2>5, QuietStep DEF Return
<1>5. CASE StepEnd(c) \/ WaitRefused(c)
    <2>1. PICK u : u = NextStep(w[c]) OBVIOUS
    <2>2. /\ w[c].pc = "loop" /\ Becomes(c, u) /\ UNCHANGED <<limiter, granted>>
        BY <1>5, <2>1 DEF StepEnd, WaitRefused, WantsToken
    <2>s. w[c].step + 1 \in Nat \ {0} BY <1>1 DEF WarmupState
    <2>3. u \in WarmupState /\ u.pc = "steps" /\ u.deadline = w[c].deadline
          /\ u.started = w[c].started /\ u.plan = w[c].plan
        BY <1>1, <2>1, <2>s DEF WarmupState, NextStep
    <2>4. ContextOK(u) BY <1>1, <2>2, <2>3 DEF ContextOK
    <2> QED BY <2>2, <2>3, <2>4, QuietStep
<1>6. CASE Unlimited(c)
    <2>1. PICK u : u = [w[c] EXCEPT !.pc = "send"] OBVIOUS
    <2>2. u \in WarmupState /\ u.pc = "send" /\ u.deadline = w[c].deadline
          /\ u.started = w[c].started /\ u.plan = w[c].plan
          /\ u.stepDeadline = w[c].stepDeadline /\ u.left = w[c].left
        BY <1>1, <2>1 DEF WarmupState
    <2>3. ContextOK(u) BY <1>1, <1>6, <2>2 DEF ContextOK, Unlimited, WantsToken
    <2> QED BY <1>6, <2>1, <2>2, <2>3, QuietStep DEF Unlimited, WantsToken
<1>7. CASE SendReturns(c)
    <2>1. PICK u : u = [w[c] EXCEPT !.pc = "loop", !.left = @ - 1] OBVIOUS
    <2>2. w[c].left > 0 /\ w[c].left \in Nat
        BY <1>1, <1>7 DEF ContextOK, SendReturns, WarmupState
    <2>3. w[c].left - 1 \in Nat BY <2>2
    <2>4. u \in WarmupState /\ u.pc = "loop" /\ u.deadline = w[c].deadline
          /\ u.started = w[c].started /\ u.plan = w[c].plan
          /\ u.stepDeadline = w[c].stepDeadline
        BY <1>1, <2>1, <2>3 DEF WarmupState
    <2>5. ContextOK(u) BY <1>1, <1>7, <2>4 DEF ContextOK, SendReturns
    <2> QED BY <1>7, <2>1, <2>4, <2>5, QuietStep DEF SendReturns
<1>8. CASE Release(c)
    <2>1. PICK u : u = [w[c] EXCEPT !.pc = "released"] OBVIOUS
    <2>2. u \in WarmupState /\ u.pc = "released" BY <1>1, <2>1 DEF WarmupState
    <2>3. ContextOK(u) BY <2>2 DEF ContextOK
    <2> QED BY <1>8, <2>1, <2>2, <2>3, QuietStep DEF Release
<1> QED BY <1>2, <1>3, <1>4, <1>5, <1>6, <1>7, <1>8

-----------------------------------------------------------------------------
(* A reservation: the debt grows by the token that c now waits for, or one *)
(* goes from the bucket to c.                                              *)
LEMMA ReserveStep ==
    ASSUME TimingInv, NEW c \in Warmups, WaitReserve(c)
    PROVE  TimingInv'
<1> DEFINE t == limiter.tokens
<1>1. /\ w[c] \in WarmupState /\ ContextOK(w[c]) /\ w \in [Warmups -> WarmupState]
      /\ now \in Nat /\ granted \in Nat /\ before \in [0 .. Horizon -> Nat]
      /\ now <= Horizon /\ Horizon \in Nat
      /\ limiter \in [limited : BOOLEAN, burst : Nat, tokens : Int]
      /\ t \in Int /\ limiter.burst \in Nat
    BY TimingAssumption DEF TimingInv, Types, LimiterInv
<1>2. Delay(limiter) \in Nat /\ now + Delay(limiter) \in Nat
    BY <1>1 DEF Delay
<1>3. PICK u : u = [w[c] EXCEPT !.pc = "wait", !.due = now + Delay(limiter)]
    OBVIOUS
<1>4. /\ u \in WarmupState /\ u.pc = "wait" /\ u.due = now + Delay(limiter)
      /\ u.deadline = w[c].deadline /\ u.started = w[c].started
      /\ u.plan = w[c].plan /\ u.stepDeadline = w[c].stepDeadline
      /\ u.left = w[c].left
    BY <1>1, <1>2, <1>3 DEF WarmupState
<1>5. ContextOK(u)
    <2>1. /\ w[c].pc = "loop" /\ w[c].left > 0
          /\ ~(now + Delay(limiter) > w[c].stepDeadline)
        BY DEF WaitReserve, WantsToken, NoToken
    <2>2. now + Delay(limiter) <= w[c].stepDeadline
        BY <1>1, <1>2, <2>1 DEF WarmupState
    <2> QED BY <1>1, <1>4, <2>1, <2>2 DEF ContextOK
<1>6. /\ Becomes(c, u) /\ granted' = granted /\ limiter.limited
      /\ limiter' = [limiter EXCEPT !.tokens = t - 1]
    BY <1>3 DEF WaitReserve, Reserve
<1>7. /\ w' = [w EXCEPT ![c] = u] /\ now' = now
      /\ quarterRps' = quarterRps /\ before' = before
    BY <1>6 DEF Becomes
<1>8. Types' /\ \A d \in Warmups : ContextOK(w[d])'
    BY <1>1, <1>4, <1>5, <1>6, BecomesKeeps
<1>9. /\ limiter'.tokens = t - 1 /\ limiter'.burst = limiter.burst
      /\ limiter'.limited = limiter.limited
      /\ limiter' \in [limited : BOOLEAN, burst : Nat, tokens : Int]
    <2>1. t - 1 \in Int BY <1>1
    <2> HIDE DEF t
    <2> QED BY <1>1, <1>6, <2>1
<1>10. LimiterInv'
    BY <1>1, <1>7, <1>9 DEF TimingInv, LimiterInv
<1>11. /\ c \notin Waiting
       /\ Waiting' = Waiting \cup {c}
       /\ w'[c] = u
       /\ \A d \in Waiting : w'[d] = w[d] /\ w[d].due \in Nat
    <2>1. w[c].pc # "wait" BY DEF WaitReserve, WantsToken
    <2>2. c \notin Waiting BY <2>1 DEF Waiting
    <2>3. w'[c] = u /\ \A d \in Warmups \ {c} : w'[d] = w[d] BY <1>1, <1>7
    <2>4. Waiting' = Waiting \cup {c} BY <1>4, <2>3 DEF Waiting
    <2>5. \A d \in Waiting : w'[d] = w[d] BY <2>2, <2>3 DEF Waiting
    <2>6. \A d \in Waiting : w[d].due \in Nat BY <1>1 DEF Waiting, WarmupState
    <2> QED BY <2>2, <2>3, <2>4, <2>5, <2>6
<1>12. DebtInv'
    <2>1. ASSUME NEW d \in Waiting'
          PROVE  w'[d].due <= now \/ w'[d].due - now <= -(t - 1)
        <3>1. CASE d = c
            BY <1>1, <1>4, <1>11, <3>1 DEF Delay
        <3>2. CASE d # c
            <4>1. d \in Waiting /\ w'[d].due = w[d].due /\ w[d].due \in Nat
                BY <1>11, <3>2
            <4>2. w[d].due <= now \/ w[d].due - now <= -t
                BY <4>1 DEF TimingInv, DebtInv
            <4> QED BY <1>1, <4>1, <4>2
        <3> QED BY <3>1, <3>2
    <2>2. ASSUME NEW n \in 1 .. -(t - 1)
          PROVE  \E d \in Waiting' : w'[d].due = now + n
        <3>1. CASE n = 1 - t BY <1>1, <1>4, <1>11, <2>2, <3>1 DEF Delay
        <3>2. CASE n # 1 - t
            <4>1. n \in 1 .. -t BY <1>1, <2>2, <3>2
            <4> QED BY <1>11, <4>1 DEF TimingInv, DebtInv
        <3> QED BY <3>1, <3>2
    <2>3. ASSUME NEW d \in Waiting', NEW e \in Waiting', w'[d].due > now,
                 w'[d].due = w'[e].due
          PROVE  d = e
        <3>1. CASE d # c /\ e # c
            BY <1>11, <2>3, <3>1 DEF TimingInv, DebtInv
        <3>2. ASSUME NEW x \in Waiting, w[x].due = u.due, u.due > now PROVE FALSE
            <4>1. w[x].due \in Nat /\ (w[x].due <= now \/ w[x].due - now <= -t)
                BY <1>11, <3>2 DEF TimingInv, DebtInv
            <4> QED BY <1>1, <1>4, <3>2, <4>1 DEF Delay
        <3> QED BY <1>11, <2>3, <3>1, <3>2
    <2> QED BY <1>7, <1>9, <2>1, <2>2, <2>3 DEF DebtInv
<1>13. RateInv'
    <2>1. ASSUME NEW s \in 0 .. now
          PROVE  granted - before[s] + Cardinality(Served') + InBucket'
                     <= limiter.burst + (now - s)
        <3>1. before[s] \in Nat BY <1>1
        <3>2. granted - before[s] + Cardinality(Served) + InBucket
                  <= limiter.burst + (now - s)
            BY <1>6 DEF TimingInv, RateInv
        <3>3. Cardinality(Served) \in Nat /\ IsFiniteSet(Served) /\ c \notin Served
            BY <1>11, WaitingFinite DEF Served
        <3>4. CASE t >= 1
            <4>1. Served' = Served \cup {c}
                BY <1>1, <1>4, <1>7, <1>11, <3>4 DEF Served, Delay
            <4>2. Cardinality(Served') = Cardinality(Served) + 1
                BY <3>3, <4>1, FS_AddElement
            <4>3. InBucket' = InBucket - 1 /\ InBucket \in Int
                BY <1>1, <1>9, <3>4 DEF InBucket
            <4>4. granted - before[s] \in Int BY <1>1, <3>1
            <4>5. ASSUME NEW g \in Int, NEW n \in Int, NEW b \in Int
                  PROVE  g + (n + 1) + (b - 1) = g + n + b
                OBVIOUS
            <4>6. granted - before[s] + (Cardinality(Served) + 1) + (InBucket - 1)
                      = granted - before[s] + Cardinality(Served) + InBucket
                BY ONLY <3>3, <4>3, <4>4, <4>5
            <4> QED BY ONLY <3>2, <4>2, <4>3, <4>6
        <3>5. CASE ~(t >= 1)
            <4>1. Served' = Served
                BY <1>1, <1>4, <1>7, <1>11, <3>5 DEF Served, Delay
            <4>2. InBucket' = InBucket BY <1>1, <1>9, <3>5 DEF InBucket
            <4> QED BY <3>2, <4>1, <4>2
        <3> QED BY <3>4, <3>5
    <2> QED BY <1>6, <1>7, <1>9, <2>1 DEF RateInv
<1> QED BY <1>8, <1>10, <1>12, <1>13 DEF TimingInv

(* A granted token was accounted for when it came due. *)
LEMMA GrantStep ==
    ASSUME TimingInv, NEW c \in Warmups, WaitGranted(c)
    PROVE  TimingInv'
<1>1. /\ w[c] \in WarmupState /\ ContextOK(w[c]) /\ w \in [Warmups -> WarmupState]
      /\ now \in Nat /\ granted \in Nat /\ before \in [0 .. Horizon -> Nat]
      /\ now <= Horizon /\ Horizon \in Nat
      /\ limiter.tokens \in Int /\ limiter.burst \in Nat
    BY TimingAssumption DEF TimingInv, Types, LimiterInv
<1>2. PICK u : u = [w[c] EXCEPT !.pc = "send"] OBVIOUS
<1>3. /\ u \in WarmupState /\ u.pc = "send" /\ u.deadline = w[c].deadline
      /\ u.started = w[c].started /\ u.plan = w[c].plan
      /\ u.stepDeadline = w[c].stepDeadline /\ u.left = w[c].left
    BY <1>1, <1>2 DEF WarmupState
<1>4. /\ w[c].pc = "wait" /\ w[c].due <= now /\ Becomes(c, u)
      /\ granted' = granted + 1 /\ limiter' = limiter
    BY <1>1, <1>2 DEF WaitGranted, WarmupState
<1>5. ContextOK(u) BY <1>1, <1>3, <1>4 DEF ContextOK
<1>6. /\ w' = [w EXCEPT ![c] = u] /\ now' = now
      /\ quarterRps' = quarterRps /\ before' = before
    BY <1>4 DEF Becomes
<1>7. Types' /\ \A d \in Warmups : ContextOK(w[d])'
    BY <1>1, <1>3, <1>4, <1>5, BecomesKeeps
<1>8. LimiterInv' BY <1>4, <1>6 DEF TimingInv, LimiterInv
<1>9. /\ Waiting' = Waiting \ {c}
      /\ c \in Waiting
      /\ \A d \in Waiting' : w'[d] = w[d]
    BY <1>1, <1>3, <1>4, <1>6 DEF Waiting
<1>10. DebtInv'
    <2>1. ASSUME NEW n \in 1 .. -limiter.tokens
          PROVE  \E d \in Waiting' : w'[d].due = now + n
        <3>1. PICK d \in Waiting : w[d].due = now + n BY DEF TimingInv, DebtInv
        <3>2. d # c BY <1>1, <1>4, <3>1
        <3> QED BY <1>9, <3>1, <3>2
    <2> QED BY <1>4, <1>6, <1>9, <2>1 DEF TimingInv, DebtInv
<1>11. RateInv'
    <2>1. Served' = Served \ {c} /\ c \in Served
        BY <1>4, <1>6, <1>9 DEF Served
    <2>2. /\ Cardinality(Served') = Cardinality(Served) - 1
          /\ Cardinality(Served) \in Nat
        BY <2>1, WaitingFinite, FS_RemoveElement
    <2>3. InBucket' = InBucket /\ InBucket \in Int BY <1>1, <1>4 DEF InBucket
    <2>4. ASSUME limiter.limited, NEW s \in 0 .. now
          PROVE  (granted + 1) - before[s] + Cardinality(Served') + InBucket'
                     <= limiter.burst + (now - s)
        <3>1. before[s] \in Nat BY <1>1
        <3>2. granted - before[s] + Cardinality(Served) + InBucket
                  <= limiter.burst + (now - s)
            BY <2>4 DEF TimingInv, RateInv
        <3>i. /\ granted \in Int /\ before[s] \in Int
              /\ Cardinality(Served) \in Int /\ InBucket \in Int
            BY <1>1, <2>2, <2>3, <3>1
        <3>3. ASSUME NEW g \in Int, NEW a \in Int, NEW n \in Int, NEW b \in Int
              PROVE  (g + 1) - a + (n - 1) + b = g - a + n + b
            OBVIOUS
        <3>4. (granted + 1) - before[s] + (Cardinality(Served) - 1) + InBucket
                  = granted - before[s] + Cardinality(Served) + InBucket
            BY ONLY <3>i, <3>3
        <3> QED BY ONLY <2>2, <2>3, <3>2, <3>4
    <2> SUFFICES ASSUME limiter'.limited, NEW s \in 0 .. now'
                 PROVE  granted' - before'[s] + Cardinality(Served') + InBucket'
                            <= limiter'.burst + (now' - s)
        BY DEF RateInv
    <2> QED BY <1>4, <1>6, <2>4
<1> QED BY <1>7, <1>8, <1>10, <1>11 DEF TimingInv

(* Time passes only when every warmup waits, so that no token is late: at  *)
(* most one comes due, or one is added to the bucket.                      *)
LEMMA TickStep ==
    ASSUME TimingInv, Tick
    PROVE  TimingInv'
<1> DEFINE t == limiter.tokens
<1>1. /\ w \in [Warmups -> WarmupState]
      /\ now \in Nat /\ granted \in Nat /\ before \in [0 .. Horizon -> Nat]
      /\ now < Horizon /\ Horizon \in Nat
      /\ limiter \in [limited : BOOLEAN, burst : Nat, tokens : Int]
      /\ t \in Int /\ limiter.burst \in Nat /\ t <= limiter.burst
    BY TimingAssumption DEF TimingInv, Types, LimiterInv, Tick
<1>2. /\ now' = now + 1 /\ w' = w /\ granted' = granted /\ quarterRps' = quarterRps
      /\ before' = [before EXCEPT ![now + 1] = granted]
      /\ \A c \in Warmups : Blocked(c)
    BY DEF Tick
<1>3. PICK t2 \in Int : /\ t2 = Least(limiter.burst, t + 1)
                        /\ limiter' = [limiter EXCEPT !.tokens = t2]
    <2>1. Least(limiter.burst, t + 1) \in Int BY <1>1 DEF Least
    <2>2. limiter' = [limiter EXCEPT !.tokens = Least(limiter.burst, t + 1)]
        BY DEF Tick, Refill
    <2> QED BY <2>1, <2>2
<1>4. /\ t2 <= limiter.burst /\ t2 <= t + 1 /\ (t < 0 => t2 = t + 1)
      /\ (t >= 0 => t2 >= 0)
    BY <1>1, <1>3 DEF Least
<1>5. /\ limiter'.tokens = t2 /\ limiter'.burst = limiter.burst
      /\ limiter'.limited = limiter.limited
      /\ limiter' \in [limited : BOOLEAN, burst : Nat, tokens : Int]
    <2> HIDE DEF t
    <2> QED BY <1>1, <1>3
<1>6. Types'
    <2>1. now + 1 \in 0 .. Horizon BY <1>1
    <2> QED BY <1>1, <1>2, <2>1 DEF TimingInv, Types
<1>7. ASSUME NEW c \in Warmups PROVE ContextOK(w[c])'
    <2>1. ContextOK(w[c]) /\ Blocked(c) /\ w[c] \in WarmupState
        BY <1>1, <1>2 DEF TimingInv
    <2>2. /\ w[c].deadline \in Nat /\ w[c].stepDeadline \in Nat /\ w[c].due \in Nat
        BY <2>1 DEF WarmupState
    <2>3. w'[c] = w[c] /\ now' = now + 1 BY <1>2
    <2>4. w[c].pc \notin {"idle", "update", "released"} => now < w[c].deadline
        <3>1. CASE w[c].pc = "wait"
            BY <1>1, <2>1, <2>2, <3>1 DEF ContextOK, Blocked
        <3>2. CASE w[c].pc = "send"
            BY <1>1, <2>1, <2>2, <3>2 DEF ContextOK, Blocked
        <3> QED BY <2>1, <3>1, <3>2 DEF Blocked
    <2>5. now < w[c].deadline => now + 1 <= w[c].deadline BY <1>1, <2>2
    <2> QED BY <2>1, <2>3, <2>4, <2>5 DEF ContextOK
<1>8. LimiterInv' BY <1>2, <1>4, <1>5 DEF TimingInv, LimiterInv
<1>9. Waiting' = Waiting BY <1>2 DEF Waiting
<1>10. ASSUME NEW c \in Waiting
       PROVE  w[c].due \in Nat /\ w[c].due > now /\ w[c].due - now <= -t
    <2>1. c \in Warmups /\ w[c].pc = "wait" BY DEF Waiting
    <2>2. w[c].due \in Nat BY <1>1, <2>1 DEF WarmupState
    <2>3. now < w[c].due BY <1>2, <2>1 DEF Blocked
    <2>4. w[c].due <= now \/ w[c].due - now <= -t BY DEF TimingInv, DebtInv
    <2> QED BY <1>1, <2>2, <2>3, <2>4
<1>11. DebtInv'
    <2>1. ASSUME NEW c \in Waiting
          PROVE  w[c].due <= now + 1 \/ w[c].due - (now + 1) <= -t2
        <3>1. w[c].due \in Int /\ w[c].due - now <= -t BY <1>10
        <3>2. now \in Int /\ t \in Int /\ t2 \in Int /\ t2 <= t + 1
            BY <1>1, <1>4
        <3>3. ASSUME NEW d \in Int, NEW n \in Int, NEW a \in Int, NEW b \in Int,
                     d - n <= -a, b <= a + 1
              PROVE  d - (n + 1) <= -b
            BY ONLY <3>3
        <3> HIDE DEF t
        <3> QED BY ONLY <3>1, <3>2, <3>3
    <2>2. ASSUME NEW n \in 1 .. -t2
          PROVE  \E c \in Waiting : w[c].due = (now + 1) + n
        <3>1. n + 1 \in 1 .. -t BY <1>1, <1>4
        <3>2. PICK c \in Waiting : w[c].due = now + (n + 1)
            BY <3>1 DEF TimingInv, DebtInv
        <3> QED BY <1>1, <3>2
    <2>3. ASSUME NEW c \in Waiting, NEW d \in Waiting, w[c].due > now + 1,
                 w[c].due = w[d].due
          PROVE  c = d
        BY <1>10, <2>3 DEF TimingInv, DebtInv
    <2> QED BY <1>2, <1>5, <1>9, <2>1, <2>2, <2>3 DEF DebtInv
<1>12. RateInv'
    <2>0. Served = {} BY <1>1, <1>10 DEF Served
    <2>1. Cardinality(Served) = 0 BY <2>0, FS_EmptySet
    <2>2. /\ Cardinality(Served') \in Nat
          /\ InBucket' \in Nat /\ InBucket \in Nat
          /\ Cardinality(Served') + InBucket' <= InBucket + 1
          /\ limiter.limited => Cardinality(Served') + InBucket' <= limiter.burst
        <3>1. CASE t >= 0
            <4>1. Waiting = {} BY <1>1, <1>10, <3>1
            <4>2. Served' = {} BY <1>9, <4>1 DEF Served
            <4>3. Cardinality(Served') = 0 BY <4>2, FS_EmptySet
            <4> QED BY <1>1, <1>4, <1>5, <3>1, <4>3 DEF InBucket
        <3>2. CASE ~(t >= 0)
            <4>1. InBucket = 0 /\ InBucket' = 0
                BY <1>1, <1>4, <1>5, <3>2 DEF InBucket
            <4>2. \A c, d \in Served' : c = d
                <5>1. ASSUME NEW c \in Served' PROVE c \in Waiting /\ w[c].due = now + 1
                    <6>1. c \in Waiting /\ w[c].due <= now + 1
                        BY <1>2, <1>9, <5>1 DEF Served
                    <6> QED BY <1>1, <1>10, <6>1
                <5> QED BY <1>1, <1>10, <5>1 DEF TimingInv, DebtInv
            <4>3. Served' = {} \/ \E c : Served' = {} \cup {c} BY <4>2
            <4>4. /\ Cardinality({}) = 0 /\ IsFiniteSet({})
                BY FS_EmptySet
            <4>5. Cardinality(Served') \in {0, 1}
                <5>1. ASSUME NEW c PROVE Cardinality({} \cup {c}) = 1
                    BY <4>4, FS_AddElement
                <5> QED BY <4>3, <4>4, <5>1
            <4>6. limiter.limited => limiter.burst > 0 BY DEF TimingInv, LimiterInv
            <4>7. limiter.burst > 0 =>
                      Cardinality(Served') + InBucket' <= limiter.burst
                BY <1>1, <4>1, <4>5
            <4>8. Cardinality(Served') + InBucket' <= InBucket + 1
                BY <4>1, <4>5
            <4> QED BY <4>1, <4>5, <4>6, <4>7, <4>8
        <3> QED BY <3>1, <3>2
    <2> SUFFICES ASSUME limiter.limited, NEW s \in 0 .. now + 1
                 PROVE  granted - before'[s] + Cardinality(Served') + InBucket'
                            <= limiter.burst + ((now + 1) - s)
        BY <1>2, <1>5 DEF RateInv
    <2>3. CASE s = now + 1
        <3>1. before'[s] = granted BY <1>1, <1>2, <2>3
        <3>2. granted - before'[s] = 0 /\ (now + 1) - s = 0 BY <1>1, <2>3, <3>1
        <3>3. Cardinality(Served') + InBucket' <= limiter.burst BY <2>2
        <3> QED BY <1>1, <2>2, <3>2, <3>3
    <2>4. CASE s \in 0 .. now
        <3>1. before'[s] = before[s] /\ before[s] \in Nat BY <1>1, <1>2, <2>4
        <3>2. granted - before[s] + Cardinality(Served) + InBucket
                  <= limiter.burst + (now - s)
            BY <2>4 DEF TimingInv, RateInv
        <3>3. granted - before[s] + InBucket <= limiter.burst + (now - s)
            BY <1>1, <2>1, <2>2, <3>1, <3>2
        <3>4. Cardinality(Served') + InBucket' <= InBucket + 1 BY <2>2
        <3>5. s \in Nat /\ granted \in Nat /\ now \in Nat /\ limiter.burst \in Nat
            BY <1>1
        <3>6. ASSUME NEW g \in Nat, NEW b \in Nat, NEW x \in Nat, NEW y \in Nat,
                     NEW z \in Nat, NEW m \in Nat, NEW e \in Nat,
                     g - b + x <= m + (e - s), y + z <= x + 1
              PROVE  g - b + y + z <= m + ((e + 1) - s)
            BY <3>5, <3>6
        <3> QED BY <2>2, <3>1, <3>3, <3>4, <3>5, <3>6
    <2> QED BY <1>1, <2>3, <2>4
<1> QED BY <1>6, <1>7, <1>8, <1>11, <1>12 DEF TimingInv

LEMMA TimingStep == TimingInv /\ [Next]_vars => TimingInv'
<1> SUFFICES ASSUME TimingInv, [Next]_vars PROVE TimingInv' OBVIOUS
<1>1. ASSUME NEW c \in Warmups,
             Start(c) \/ Advance(c) \/ SendReturns(c) \/ Release(c)
      PROVE  TimingInv'
    BY <1>1, WarmupSteps, ReserveStep, GrantStep DEF Advance
<1>2. CASE UNCHANGED vars
    BY <1>2 DEF vars, TimingInv, Types, ContextOK, LimiterInv, DebtInv, RateInv,
       Waiting, Served, InBucket
<1> QED BY <1>1, <1>2, TickStep DEF Next

-----------------------------------------------------------------------------
(* Every missing token has a warmup of its own that waits for it. *)
LEMMA DebtBounded ==
    ASSUME TimingInv
    PROVE  -limiter.tokens <= Cardinality(Waiting)
<1> DEFINE t == limiter.tokens
           f == [n \in 1 .. -t |-> CHOOSE c \in Waiting : w[c].due = now + n]
<1>1. t \in Int /\ now \in Nat
    BY TimingAssumption DEF TimingInv, LimiterInv, Types
<1>2. CASE t >= 0
    <2>1. Cardinality(Waiting) \in Nat BY WaitingFinite
    <2> QED BY <1>1, <1>2, <2>1
<1>3. CASE t < 0
    <2>1. \A n \in 1 .. -t : f[n] \in Waiting /\ w[f[n]].due = now + n
        BY DEF TimingInv, DebtInv
    <2>2. f \in Injection(1 .. -t, Waiting)
        <3>1. f \in [1 .. -t -> Waiting] BY <2>1
        <3>2. ASSUME NEW m \in 1 .. -t, NEW n \in 1 .. -t, f[m] = f[n] PROVE m = n
            <4>1. w[f[m]].due = now + m /\ w[f[n]].due = now + n BY <2>1
            <4>2. now + m = now + n BY <3>2, <4>1
            <4> QED BY <1>1, <4>2
        <3> HIDE DEF f
        <3> QED BY <3>1, <3>2 DEF Injection, IsInjective
    <2>3. Cardinality(1 .. -t) = -t
        BY <1>1, <1>3, FS_Interval
    <2>4. Cardinality(1 .. -t) <= Cardinality(Waiting)
        BY <2>2, WaitingFinite, FS_Injection DEF ExistsInjection
    <2> QED BY <2>3, <2>4
<1> QED BY <1>1, <1>2, <1>3

(* Every variable keeps to its type; the tokens of the bucket never fall   *)
(* further than one for each warmup.                                       *)
THEOREM TimingTypes == Spec => []TypeOK
<1>1. ASSUME TimingInv PROVE TypeOK
    <2>1. limiter.tokens \in Int /\ limiter.burst \in Nat /\ limiter.tokens <= limiter.burst
        BY <1>1 DEF TimingInv, LimiterInv
    <2>2. limiter.tokens >= -Cardinality(Warmups)
        BY <1>1, <2>1, DebtBounded, WaitingFinite
    <2>3. limiter.tokens \in -Cardinality(Warmups) .. limiter.burst
        BY <2>1, <2>2, WaitingFinite
    <2> QED BY <1>1, <2>3 DEF TypeOK, TimingInv, Types, WarmupState
<1> QED BY <1>1, TimingInit, TimingStep, PTL DEF Spec

(* The request rate limit holds over every span of time for all warmups of *)
(* the process together, however many they are.                            *)
THEOREM RateAlwaysBounded == Spec => []RateBounded
<1>1. ASSUME TimingInv PROVE RateBounded
    <2> SUFFICES ASSUME limiter.limited, NEW t \in 0 .. now
                 PROVE  granted - before[t] <= OneSecond(quarterRps) + (now - t)
        BY DEF RateBounded
    <2>1. /\ limiter.burst \in Nat /\ limiter.burst <= OneSecond(quarterRps)
          /\ limiter.tokens \in Int
        BY <1>1 DEF TimingInv, LimiterInv
    <2>2. /\ now \in Nat /\ granted \in Nat /\ before[t] \in Nat
          /\ quarterRps \in Int
        BY <1>1, TimingAssumption, PlansAssumption DEF TimingInv, Types
    <2>3. OneSecond(quarterRps) \in Int BY <2>2, MaxBurstAssumption DEF OneSecond, Round, Least
    <2>4. InBucket \in Nat BY <2>1 DEF InBucket
    <2>5. granted - before[t] + Cardinality(Served) + InBucket
              <= limiter.burst + (now - t)
        BY <1>1 DEF TimingInv, RateInv
    <2> QED BY <2>1, <2>2, <2>3, <2>4, <2>5, WaitingFinite
<1> QED BY <1>1, TimingInit, TimingStep, PTL DEF Spec

(* A warmup waits for a token no longer than one for each waiting warmup   *)
(* takes: no warmup, however large, keeps the others from the limiter.     *)
THEOREM ShareAlwaysFair == Spec => []FairShare
<1>1. ASSUME TimingInv PROVE FairShare
    <2> SUFFICES ASSUME NEW c \in Warmups, w[c].pc = "wait"
                 PROVE  w[c].due - now <= Cardinality(Waiting)
        BY DEF FairShare, Waiting
    <2>1. /\ now \in Nat /\ limiter.tokens \in Int /\ w[c].due \in Nat
        BY <1>1, TimingAssumption DEF TimingInv, Types, LimiterInv, WarmupState
    <2>2. w[c].due <= now \/ w[c].due - now <= -limiter.tokens
        BY <1>1 DEF TimingInv, DebtInv, Waiting
    <2> QED BY <1>1, <2>1, <2>2, DebtBounded, WaitingFinite
<1> QED BY <1>1, TimingInit, TimingStep, PTL DEF Spec

(* Whatever the WarmupConfig and however slow the pod and the limiter, no  *)
(* executor runs longer than the annotation's timeout and the grace        *)
(* period; a Reconcile that keeps its slot longer is in the status update. *)
THEOREM OnlyUpdateEverOutlastsTimeout == Spec => []OnlyUpdateOutlastsTimeout
<1>1. ASSUME TimingInv PROVE OnlyUpdateOutlastsTimeout
    <2> SUFFICES ASSUME NEW c \in Warmups, HoldsSlot(c), w[c].pc # "update"
                 PROVE  ~(now > w[c].started + w[c].plan.timeout + Grace)
        BY DEF OnlyUpdateOutlastsTimeout
    <2>1. /\ now <= w[c].deadline
          /\ w[c].deadline <= w[c].started + w[c].plan.timeout + Grace
        BY <1>1 DEF TimingInv, ContextOK, HoldsSlot
    <2>2. /\ now \in Nat /\ w[c].deadline \in Nat /\ w[c].started \in Nat
          /\ w[c].plan \in Plans
        BY <1>1, TimingAssumption DEF TimingInv, Types, WarmupState
    <2>3. w[c].plan.timeout \in Nat /\ Grace \in Nat
        BY <2>2, TimingAssumption, PlansAssumption
    <2> QED BY <2>1, <2>2, <2>3
<1> QED BY <1>1, TimingInit, TimingStep, PTL DEF Spec

(* The limiter makes a warmup give up only when its step has less time     *)
(* left than one token for each warmup takes.                              *)
THEOREM RefusalsNearDeadline == Spec => RefusedOnlyNearDeadline
<1> DEFINE A == \A c \in Warmups : WaitRefused(c) =>
                   w[c].stepDeadline - now < Cardinality(Warmups)
<1>1. ASSUME TimingInv PROVE A
    <2> SUFFICES ASSUME NEW c \in Warmups, WaitRefused(c)
                 PROVE  w[c].stepDeadline - now < Cardinality(Warmups)
        OBVIOUS
    <2>1. /\ now \in Nat /\ limiter.tokens \in Int /\ w[c].stepDeadline \in Nat
        BY <1>1, TimingAssumption DEF TimingInv, Types, LimiterInv, WarmupState
    <2>2. /\ w[c].pc # "wait" /\ now < w[c].stepDeadline
          /\ limiter.burst < 1 \/ now + Delay(limiter) > w[c].stepDeadline
        BY DEF WaitRefused, WantsToken, NoToken
    <2>z. limiter.burst \in Nat /\ limiter.burst > 0
        BY <1>1 DEF TimingInv, LimiterInv, WaitRefused
    <2>3. w[c].stepDeadline - now < 1 + -limiter.tokens
        BY <2>1, <2>2, <2>z DEF Delay
    <2>4. Cardinality(Waiting) + 1 <= Cardinality(Warmups)
        <3>1. Waiting \subseteq Warmups \ {c} BY <2>2 DEF Waiting
        <3>2. /\ IsFiniteSet(Warmups \ {c})
              /\ Cardinality(Warmups \ {c}) = Cardinality(Warmups) - 1
            BY PlansAssumption, FS_RemoveElement
        <3>3. Cardinality(Waiting) <= Cardinality(Warmups \ {c})
            BY <3>1, <3>2, FS_Subset
        <3> QED BY <3>2, <3>3, WaitingFinite
    <2> QED BY <1>1, <2>1, <2>3, <2>4, DebtBounded, WaitingFinite
<1>2. TimingInv /\ [Next]_vars => [A]_vars BY <1>1
<1>3. Spec => [][A]_vars BY <1>2, TimingInit, TimingStep, PTL DEF Spec
<1> QED BY <1>3 DEF RefusedOnlyNearDeadline
=============================================================================
