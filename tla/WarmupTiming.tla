---------------------------- MODULE WarmupTiming ----------------------------
(***************************************************************************)
(* The warmups of one process in time: the nested contexts of Reconcile,   *)
(* Execute, ExecuteScenario and executeStep, and the rate limiter they     *)
(* share.  What the requests do and how they are counted is in             *)
(* WarmupExecutor and ScenarioExecutor.                                    *)
(*                                                                         *)
(* A plan is what a pod asks for: [scenario (or a single endpoint),        *)
(* timeout (of the annotation), specTimeout, steps], a step [count,        *)
(* timeout] of one request, sent count times; a warmup of a single         *)
(* endpoint has one step.  The duration 0 stands for one that is not       *)
(* given, cannot be parsed or is not positive.                             *)
(*                                                                         *)
(* Time passes only while a warmup waits for a token or for an answer; a   *)
(* context that is done ends both at once.                                 *)
(***************************************************************************)
EXTENDS RequestRateLimiter, Sequences, FiniteSets

CONSTANTS
    Warmups,        \* running at the same time, as the semaphore allows
    Plans,          \* what the pods may ask for
    QuarterRates,   \* --max-warmup-rps, times four
    Grace,          \* 5 * time.Second
    DefaultScenarioTimeout, MaxScenarioTimeout, DefaultStepTimeout,
    LastStart,      \* bound: no warmup starts later
    Horizon         \* bound: the time at which the clock stops

ASSUME PlansAssumption ==
    /\ Plans \subseteq [scenario : BOOLEAN, timeout : Nat \ {0}, specTimeout : Nat,
                        steps : Seq([count : Nat, timeout : Nat])]
    /\ QuarterRates \subseteq Int
    /\ IsFiniteSet(Warmups)

ASSUME TimingAssumption ==
    /\ Grace \in Nat
    /\ DefaultScenarioTimeout \in Nat \ {0}
    /\ MaxScenarioTimeout \in Nat \ {0}
    /\ DefaultStepTimeout \in Nat \ {0}
    /\ LastStart \in Nat
    /\ Horizon \in Nat
    /\ \A p \in Plans : LastStart + p.timeout + Grace < Horizon

VARIABLES
    now,
    quarterRps,     \* the process's rate
    limiter,
    w,              \* the warmups
    granted,        \* history: tokens granted so far
    before          \* history: tokens granted before each time

vars == <<now, quarterRps, limiter, w, granted, before>>

-----------------------------------------------------------------------------
OrDefault(d, default) == IF d > 0 THEN d ELSE default

overallTimeout(p) ==
    Least(OrDefault(p.specTimeout, DefaultScenarioTimeout), MaxScenarioTimeout)

(* context.WithTimeout(ctx, contextTimeout) in Reconcile. *)
ReconcileDeadline(p) == now + p.timeout + Grace

(* Mutation: derived from the background context. *)
DeadlineDetached(p) == now + (IF p.scenario THEN overallTimeout(p) ELSE p.timeout)

(* The executor's own context, inside Reconcile's. *)
Deadline(p) ==
    Least(ReconcileDeadline(p),
          now + (IF p.scenario THEN overallTimeout(p) ELSE p.timeout))

(* The context of a step, inside the scenario's. *)
StepDeadline(u) ==
    IF ~u.plan.scenario THEN u.deadline
    ELSE Least(u.deadline, now + OrDefault(u.plan.steps[u.step].timeout,
                                           DefaultStepTimeout))

-----------------------------------------------------------------------------
Init ==
    /\ now = 0
    /\ quarterRps \in QuarterRates
    /\ limiter \in NewRequestRateLimiter(quarterRps)
    /\ w \in [Warmups ->
                 {[plan |-> p, pc |-> "idle", started |-> 0, deadline |-> 0,
                   step |-> 1, stepDeadline |-> 0, left |-> 0, due |-> 0,
                   timedOut |-> FALSE] : p \in Plans}]
    /\ granted = 0
    /\ before = [t \in 0 .. Horizon |-> 0]

(* A warmup takes a step of its own: it becomes u. *)
Becomes(c, u) == w' = [w EXCEPT ![c] = u] /\ UNCHANGED <<now, quarterRps, before>>

(* Reconcile has its slot and calls the executor. *)
Start(c) ==
    /\ w[c].pc = "idle"
    /\ now <= LastStart
    /\ Becomes(c, [w[c] EXCEPT !.pc = "steps", !.started = now,
                               !.deadline = Deadline(w[c].plan)])
    /\ UNCHANGED <<limiter, granted>>

(* The head of the loop over the steps. *)
StepBegin(c) ==
    /\ w[c].pc = "steps"
    /\ w[c].step <= Len(w[c].plan.steps)
    /\ now < w[c].deadline
    /\ Becomes(c, [w[c] EXCEPT !.pc = "loop",
                               !.left = w[c].plan.steps[w[c].step].count,
                               !.stepDeadline = StepDeadline(w[c])])
    /\ UNCHANGED <<limiter, granted>>

(* The executor returns; Reconcile goes on to the status update. *)
Return(c) ==
    /\ w[c].pc = "steps"
    /\ w[c].step > Len(w[c].plan.steps) \/ now >= w[c].deadline
    /\ Becomes(c, [w[c] EXCEPT !.pc = "update",
                               !.timedOut = now >= w[c].deadline])
    /\ UNCHANGED <<limiter, granted>>

(* The status update, under the context of the process, is answered;       *)
(* Reconcile returns and its slot is free.                                 *)
Release(c) ==
    /\ w[c].pc = "update"
    /\ Becomes(c, [w[c] EXCEPT !.pc = "released"])
    /\ UNCHANGED <<limiter, granted>>

NextStep(u) == [u EXCEPT !.pc = "steps", !.step = u.step + 1]

(* All requests sent, or the step's context done. *)
StepEnd(c) ==
    /\ w[c].pc = "loop"
    /\ w[c].left = 0 \/ now >= w[c].stepDeadline
    /\ Becomes(c, NextStep(w[c]))
    /\ UNCHANGED <<limiter, granted>>

(* Another request is due: it needs a token. *)
WantsToken(c) == w[c].pc = "loop" /\ w[c].left > 0 /\ now < w[c].stepDeadline

(* Wait on the nil limiter. *)
Unlimited(c) ==
    /\ WantsToken(c)
    /\ ~limiter.limited
    /\ Becomes(c, [w[c] EXCEPT !.pc = "send"])
    /\ UNCHANGED <<limiter, granted>>

(* There can be no token, or it would come too late. *)
NoToken(c) == limiter.burst < 1 \/ now + Delay(limiter) > w[c].stepDeadline

(* Wait reserves a token. *)
WaitReserve(c) ==
    /\ WantsToken(c)
    /\ limiter.limited
    /\ ~NoToken(c)
    /\ limiter' = Reserve(limiter, w[c].left)
    /\ Becomes(c, [w[c] EXCEPT !.pc = "wait", !.due = now + Delay(limiter)])
    /\ UNCHANGED granted

(* Wait fails: the requests left count as failed, the step is over. *)
WaitRefused(c) ==
    /\ WantsToken(c)
    /\ limiter.limited
    /\ NoToken(c)
    /\ Becomes(c, NextStep(w[c]))
    /\ UNCHANGED <<limiter, granted>>

(* Wait returns: the token is there. *)
WaitGranted(c) ==
    /\ w[c].pc = "wait"
    /\ now >= w[c].due
    /\ granted' = granted + 1
    /\ Becomes(c, [w[c] EXCEPT !.pc = "send"])
    /\ UNCHANGED limiter

(* Mutation: the request does not carry the context. *)
SendReturnsNoContext(c) ==
    /\ w[c].pc = "send"
    /\ now < w[c].stepDeadline
    /\ Becomes(c, [w[c] EXCEPT !.pc = "loop", !.left = @ - 1])
    /\ UNCHANGED <<limiter, granted>>

(* Send returns, with an answer, or with an error at the latest when the   *)
(* context is done.                                                        *)
SendReturns(c) ==
    /\ w[c].pc = "send"
    /\ Becomes(c, [w[c] EXCEPT !.pc = "loop", !.left = @ - 1])
    /\ UNCHANGED <<limiter, granted>>

(* Nothing to do for c before time passes. *)
Blocked(c) ==
    \/ w[c].pc \in {"idle", "update", "released"}
    \/ w[c].pc = "wait" /\ now < w[c].due
    \/ w[c].pc = "send" /\ now < w[c].stepDeadline

Tick ==
    /\ now < Horizon
    /\ \A c \in Warmups : Blocked(c)
    /\ now' = now + 1
    /\ limiter' = Refill(limiter)
    /\ before' = [before EXCEPT ![now + 1] = granted]
    /\ UNCHANGED <<quarterRps, w, granted>>

Advance(c) ==
    \/ StepBegin(c) \/ Return(c) \/ StepEnd(c) \/ Unlimited(c)
    \/ WaitReserve(c) \/ WaitRefused(c) \/ WaitGranted(c)

Next ==
    \/ \E c \in Warmups : Start(c) \/ Advance(c) \/ SendReturns(c) \/ Release(c)
    \/ Tick

Spec == Init /\ [][Next]_vars

(* Goroutines run and time passes; a Send returns when its context is      *)
(* done.  No answer is relied on, that of the API server included.         *)
FairSpec ==
    /\ Spec
    /\ WF_vars(Tick)
    /\ \A c \in Warmups : WF_vars(Advance(c))
    /\ \A c \in Warmups : WF_vars(now >= w[c].stepDeadline /\ SendReturns(c))

-----------------------------------------------------------------------------
(* Properties *)

HoldsSlot(c) == w[c].pc \notin {"idle", "released"}

(* The executor has been called and has not returned. *)
Running(c) == HoldsSlot(c) /\ w[c].pc # "update"

(* Every variable keeps to its type. *)
TypeOK ==
    /\ now \in 0 .. Horizon
    /\ quarterRps \in QuarterRates
    /\ limiter.tokens \in -Cardinality(Warmups) .. limiter.burst
    /\ w \in [Warmups -> [plan : Plans,
                          pc : {"idle", "steps", "loop", "wait", "send", "update",
                                "released"},
                          started : Nat, deadline : Nat, step : Nat \ {0},
                          stepDeadline : Nat, left : Nat, due : Nat,
                          timedOut : BOOLEAN]]
    /\ granted \in Nat
    /\ before \in [0 .. Horizon -> Nat]

(* In any span of time the warmups together send no more than the rate     *)
(* gives in that span and one second's worth of requests, of which there   *)
(* is at least one and there are at most maxBurst, however many warmups    *)
(* there are and whenever they start.                                      *)
OneSecond(r) == IF r < 4 THEN 1 ELSE Least(Round(r), MaxBurst)

RateBounded ==
    limiter.limited =>
        \A t \in 0 .. now :
            granted - before[t] <= OneSecond(quarterRps) + (now - t)

(* A warmup of whatever size leaves the others their share: for each of    *)
(* its requests a warmup waits at most as long as one token for each       *)
(* warmup takes, itself included.                                          *)
FairShare ==
    \A c \in Warmups :
        w[c].pc = "wait" =>
            w[c].due - now <= Cardinality({d \in Warmups : w[d].pc = "wait"})

(* The limiter refuses a warmup only when less time is left to it than a   *)
(* token for each warmup takes: others cannot make it give up early.       *)
RefusedOnlyNearDeadline ==
    [][\A c \in Warmups : WaitRefused(c) =>
          w[c].stepDeadline - now < Cardinality(Warmups)]_vars

(* Whatever a WarmupConfig says and however slow the pod and the limiter   *)
(* are, the executor has returned by the end of the annotation's timeout   *)
(* and the grace period: a slot that is held longer is held by the status  *)
(* update, which has no such deadline.                                     *)
OnlyUpdateOutlastsTimeout ==
    \A c \in Warmups :
        HoldsSlot(c) /\ now > w[c].started + w[c].plan.timeout + Grace =>
            w[c].pc = "update"

(* Every executor that is called returns, if no pod ever answers too. *)
WarmupsReturn ==
    \A c \in Warmups : Running(c) ~> ~Running(c)

-----------------------------------------------------------------------------
(* What the documents say; the code does otherwise. *)

(* docs/USAGE.md calls the timeout of a WarmupConfig the "overall budget   *)
(* across all steps", and types.go gives it a default of "120s"; a         *)
(* scenario that runs out of time has had the annotation's timeout and the *)
(* grace period, if that is less.                                          *)
ScenarioGetsItsTimeout ==
    \A c \in Warmups :
        w[c].timedOut /\ w[c].plan.scenario =>
            w[c].deadline - w[c].started = overallTimeout(w[c].plan)
=============================================================================
