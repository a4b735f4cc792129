------------------------- MODULE RequestRateLimiter -------------------------
(***************************************************************************)
(* RequestRateLimiter (pkg/warmup/rate_limiter.go): the token bucket that  *)
(* all warmups of a process draw from.  The unit of time is the time one   *)
(* token takes, 1/rps seconds, so that a tick adds one token.  The rate, a *)
(* float in the code, is given in quarters of a request per second.        *)
(*                                                                         *)
(* The bucket itself is golang.org/x/time/rate: Wait reserves a token and  *)
(* sleeps until it is there; tokens is negative while reservations are     *)
(* outstanding.  A reservation that comes due after the deadline of the    *)
(* context is not made at all, nor is one of a bucket that holds no token. *)
(***************************************************************************)
EXTENDS Integers

CONSTANTS
    MaxBurst,           \* maxBurst
    MaxInt              \* the largest int

ASSUME MaxBurstAssumption ==
    MaxBurst \in Nat \ {0} /\ MaxInt \in Nat /\ MaxBurst <= MaxInt

Least(a, b) == IF a < b THEN a ELSE b
Greatest(a, b) == IF a > b THEN a ELSE b

(* math.Round(rps) of a rate in quarters: halves away from zero. *)
Round(quarterRps) == (quarterRps + 2) \div 4

(* int(x): what an int cannot hold becomes the largest or the least one,   *)
(* depending on the architecture.                                          *)
ToInt(x) == IF x <= MaxInt THEN {x} ELSE {MaxInt, -MaxInt - 1}

(* Mutations: no cap; no least size. *)
BurstUncapped(quarterRps) == {Greatest(1, b) : b \in ToInt(Round(quarterRps))}
BurstNoMinimum(quarterRps) == {Least(b, MaxBurst) : b \in ToInt(Round(quarterRps))}

(* max(1, min(int(math.Round(rps)), maxBurst)): the sizes it may have. *)
Burst(quarterRps) ==
    {Greatest(1, Least(b, MaxBurst)) : b \in ToInt(Round(quarterRps))}

(* Full at first; limited = FALSE stands for the nil limiter. *)
NewRequestRateLimiter(quarterRps) ==
    {[limited |-> quarterRps > 0, burst |-> b, tokens |-> b] :
        b \in IF quarterRps <= 0 THEN {0} ELSE Burst(quarterRps)}

-----------------------------------------------------------------------------
(* What a tick of time adds. *)
Refill(l) == [l EXCEPT !.tokens = Least(l.burst, l.tokens + 1)]

(* Mutation: the tokens of all remaining requests at once. *)
ReserveAll(l, left) == [l EXCEPT !.tokens = l.tokens - left]

(* The reservation of a call of Wait, with left requests still to send. *)
Reserve(l, left) == [l EXCEPT !.tokens = l.tokens - 1]

(* How long a reservation made now has to wait. *)
Delay(l) == IF l.tokens >= 1 THEN 0 ELSE 1 - l.tokens
=============================================================================
