-------------------------------- MODULE Budget --------------------------------
(***************************************************************************)
(* The scheduler's arithmetic (internal/scheduler/budget.go): how often a  *)
(* tier may be polled for its projected cost to stay under the secondary   *)
(* ceiling, and how far budget pressure stretches that.  A listing costs   *)
(* one point, so n repositories polled every i ticks cost n * Window / i   *)
(* points a minute, a minute being Window ticks.                           *)
(*                                                                         *)
(* A demotion is an episode of pressure: since counts ticks from its       *)
(* onset, left the ticks to the reset it holds until, and stage is where   *)
(* escalation froze once pressure had cleared.  since stops where no        *)
(* tier's shift can grow any more.                                         *)
(***************************************************************************)
EXTENDS Integers

CONSTANTS
    Fast, Medium, Slow,     \* the tiers' target intervals, in ticks
    Window,                 \* ticks in the minute the ceiling is counted over
    Ceiling,                \* the secondary limit, in points a minute
    Dwell,                  \* ticks from one stage to the next
    MaxDemoteSteps,         \* the clamp on the shift
    Width                   \* bits of an interval, its sign included

ASSUME BudgetAssumption ==
    /\ {Fast, Medium, Slow, Window, Ceiling, Dwell, Width} \subseteq Nat \ {0}
    /\ Fast <= Medium /\ Medium <= Slow
    /\ MaxDemoteSteps \in Nat
    /\ Slow * 2^MaxDemoteSteps < 2^(Width - 1)

Tier == {"fast", "medium", "slow"}

Larger(a, b)  == IF a >= b THEN a ELSE b
Lesser(a, b)  == IF a <= b THEN a ELSE b

\* The least integer that is at least a / b.
CeilDiv(a, b) == (a + b - 1) \div b

\* projectedPointsPerMin for k repositories at interval i and j at interval
\* l, against the ceiling, with the divisions multiplied out.
Affordable(k, i, j, l) == Window * (k * l + j * i) <= Ceiling * i * l

\* budgetedInterval and wholeSetInterval: the target, or the least interval
\* at which n repositories stay under the ceiling.
WholeSetInterval(n) == Larger(Slow, CeilDiv(Window * n, Ceiling))

\* mediumSetInterval: the target stretched to the headroom that the rest of
\* the poll set leaves, and never past the slow tier's.
MediumSetInterval(m, total, slowBase) ==
    LET rest     == Larger(total - m, 0)
        headroom == Ceiling * slowBase - Window * rest      \* times slowBase
    IN  IF m = 0 THEN Medium
        ELSE IF headroom <= 0 THEN slowBase
        ELSE Lesser(slowBase, Larger(Medium, CeilDiv(Window * m * slowBase, headroom)))

\* demoteSteps: the slow tier doubles from stage one, the medium tier from
\* stage two, the fast tier from stage three.
DemoteSteps(t, stage) ==
    Lesser(MaxDemoteSteps,
           Larger(0, CASE t = "slow"   -> stage
                       [] t = "medium" -> stage - 1
                       [] t = "fast"   -> stage - 2))

\* A signed integer of Width bits.
Wrapped(x) ==
    LET y == x % 2^Width IN IF y < 2^(Width - 1) THEN y ELSE y - 2^Width

\* intervalForLocked, from a tier's base: base << demoteSteps.
Stretched(t, base, stage) == Wrapped(base * 2^DemoteSteps(t, stage))

-----------------------------------------------------------------------------
LastTick == Dwell * (MaxDemoteSteps + 1)

NoEpisode == [active |-> FALSE, since |-> 0, left |-> 0, frozen |-> FALSE, stage |-> 0]
Onset(resetIn) ==
    [active |-> TRUE, since |-> 0, left |-> resetIn, frozen |-> FALSE, stage |-> 0]

\* stageAtLocked.
StageAt(d) ==
    IF ~d.active THEN 0
    ELSE IF d.frozen THEN d.stage
    ELSE (d.since \div Dwell) + 1

\* (mutant: every Readout under pressure is an onset)
ObservedAnew(d, pressure, resetIn) ==
    LET held == IF d.left = 0 THEN NoEpisode ELSE d
    IN  IF pressure THEN Onset(resetIn)
        ELSE IF held.active /\ ~held.frozen
             THEN [held EXCEPT !.frozen = TRUE, !.stage = StageAt(held), !.since = 0]
        ELSE held

\* observePressureLocked: an episode ends once its reset has come; pressure
\* begins one where there is none; pressure gone freezes its stage.
Observed(d, pressure, resetIn) ==
    LET held == IF d.left = 0 THEN NoEpisode ELSE d
    IN  IF pressure THEN (IF held.active THEN held ELSE Onset(resetIn))
        ELSE IF held.active /\ ~held.frozen
             THEN [held EXCEPT !.frozen = TRUE, !.stage = StageAt(held), !.since = 0]
        ELSE held

\* A tick passes over an episode.
Elapsed(d) ==
    [d EXCEPT !.since = IF d.active /\ ~d.frozen THEN Lesser(@ + 1, LastTick) ELSE @,
              !.left = IF @ > 0 THEN @ - 1 ELSE 0]
===============================================================================
