--------------------------- MODULE MCWarmupTiming ---------------------------
(***************************************************************************)
(* Instances of WarmupTiming for TLC, with short times.  After LastStart   *)
(* no warmup starts and at Horizon the clock stops, which is not a         *)
(* deadlock.                                                               *)
(***************************************************************************)
EXTENDS WarmupTiming

CONSTANTS u1, u2

Endpoint(n, t) ==
    [scenario |-> FALSE, timeout |-> t, specTimeout |-> 0,
     steps |-> <<[count |-> n, timeout |-> 0]>>]

Scenario(t, st, steps) ==
    [scenario |-> TRUE, timeout |-> t, specTimeout |-> st, steps |-> steps]

Step(n, t) == [count |-> n, timeout |-> t]

(* A small warmup, one too large for its timeout, scenarios whose own      *)
(* timeout is the shorter one, the longer one and not given.               *)
MixedPlans ==
    {Endpoint(2, 3), Endpoint(6, 3),
     Scenario(2, 2, <<Step(2, 1), Step(2, 3)>>),
     Scenario(2, 9, <<Step(3, 0), Step(1, 0)>>),
     Scenario(3, 0, <<Step(1, 6), Step(2, 6)>>)}

(* Unlimited, below a half, two, and more than an int of MaxInt = 4 holds. *)
ManyRates == {0, 1, 8, 20}

LongScenario == {Scenario(2, 9, <<Step(3, 0), Step(1, 0)>>)}

OneRate == {4}
=============================================================================
