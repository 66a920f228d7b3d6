------------------------------- MODULE Governor -------------------------------
(***************************************************************************)
(* The lower half of the transport chain: the rate governor                *)
(* (internal/governor) over the wire-concurrency limiter                   *)
(* (internal/limiter).  Several goroutines call RoundTrip at once.  A      *)
(* write first claims its slot on the one global throttle under the        *)
(* governor's lock (paceWrite), waits for it outside the lock, then takes  *)
(* a limiter slot, goes on the wire, and on its way back is observed: the  *)
(* rate-limit headers move the ramp, the holds and the Budget Readout.  A  *)
(* read is never paced.                                                    *)
(*                                                                         *)
(* Time is the injected clock's, in ticks.  The instant 0 is Go's zero     *)
(* time, "no instant"; now starts at 1.  GitHub itself is external: what   *)
(* it may answer is the constant Answer, and its primary window resets at  *)
(* every multiple of Window.                                               *)
(***************************************************************************)
EXTENDS Integers, Sequences, FiniteSets

CONSTANTS
    Reader, Writer,         \* callers, by what they issue
    Bound,                  \* limiter.Bound: requests on the wire at once
    Floor, Start, Ceiling,  \* rampFloor, documentedSafeRate, rampCeiling
    Step,                   \* rampStep
    CleanBeforeRamp,        \* clean responses before one increase
    Interval,               \* Interval[r]: ticks between writes at rate r
    Pool, WritePoints,      \* secondaryPool and the price of a write
    ReadWindow,             \* ticks a read depresses the write ceiling
    Answer,                 \* what the server may answer
    Window,                 \* ticks of the server's primary window
    MaxRequests,            \* bound: requests issued in all
    Horizon                 \* bound: the last instant modelled

Caller == Reader \cup Writer
None   == 0                                           \* the zero time
Absent == -1                                          \* a missing header
Status == {"2xx", "304", "403", "429", "other"}

ASSUME CallersAssumption == Reader \cap Writer = {} /\ IsFiniteSet(Caller)

ASSUME RateAssumption ==
    /\ Floor \in Nat /\ Start \in Nat /\ Ceiling \in Nat /\ Step \in Nat
    /\ Floor <= Start /\ Start <= Ceiling
    /\ CleanBeforeRamp \in Nat \ {0}

\* A faster rate never asks for a longer gap, and no rate for an empty one.
ASSUME IntervalAssumption ==
    /\ Interval \in [Floor..Ceiling -> Nat \ {0}]
    /\ \A r, q \in Floor..Ceiling : r <= q => Interval[q] <= Interval[r]

ASSUME AnswerAssumption ==
    Answer \subseteq [status : Status, retryAfter : {Absent} \cup Nat,
                      authShape : BOOLEAN, remaining : {Absent} \cup Nat,
                      dated : BOOLEAN]

ASSUME BoundAssumption ==
    /\ Bound \in Nat \ {0} /\ Pool \in Nat /\ WritePoints \in Nat \ {0}
    /\ ReadWindow \in Nat /\ Window \in Nat \ {0}
    /\ MaxRequests \in Nat /\ Horizon \in Nat \ {0}

VARIABLES
    now,            \* the clock
    writeRate,      \* the AIMD ramp target
    cleanStreak,    \* clean responses toward the next increase
    nextWrite,      \* the earliest instant of the next write
    readEvents,     \* instants of the reads in the window
    lastRemaining,  \* x-ratelimit-remaining last seen, -1 before any
    lastReset,      \* x-ratelimit-reset last seen
    inRateLimit,    \* a rate-limit classification not yet recovered from
    limitResume,    \* that hold's own deadline
    sem,            \* limiter slots taken
    stage,          \* where each caller's request is
    slot,           \* the write slot each caller claimed
    hand,           \* the answer each caller carries back, before observe
    dead,           \* callers whose context is done
    issued          \* requests issued so far

\* What the properties remember of the past.
VARIABLES
    claimed,        \* every write slot handed out, in order
    promised,       \* the deadline of the latest rate-limit response
    known           \* known[c]: the holds in force when c claimed its slot

governor == <<writeRate, cleanStreak, readEvents, lastRemaining, lastReset,
              inRateLimit, limitResume, promised>>
pacing   == <<nextWrite, slot, claimed, known>>
vars     == <<now, governor, pacing, sem, stage, hand, dead, issued>>

Stage == {"idle", "pacing", "queued", "wire", "landed"}
OnTheWire == {c \in Caller : stage[c] = "wire"}

NoAnswer == [status |-> "none", reset |-> None]
Landed   == [status : Status, retryAfter : {Absent} \cup Nat,
             authShape : BOOLEAN, remaining : {Absent} \cup Nat, reset : Nat]

-----------------------------------------------------------------------------
LargerOf(a, b)  == IF a >= b THEN a ELSE b
SmallerOf(a, b) == IF a <= b THEN a ELSE b

\* The first window boundary after t: what the server's reset header says.
ResetAfter(t) == (t \div Window + 1) * Window

\* classify: a 429 always; a 403 unless it carries no Retry-After and matches
\* the measured authorization shape.
Limited(a) ==
    \/ a.status = "429"
    \/ a.status = "403" /\ (a.retryAfter # Absent \/ ~a.authShape)

Clean(a) == ~Limited(a) /\ a.status \in {"2xx", "304"}

\* pruneBefore over the read window: the events are in time order, so the
\* old ones lead.
Recent(events) ==
    LET old == {i \in DOMAIN events : events[i] <= now - ReadWindow}
    IN  SubSeq(events, Cardinality(old) + 1, Len(events))

\* dynamicCeilingLocked and effectiveRateLocked: the ramp target under what
\* the reads of the trailing window leave of the shared pool.
DynamicCeiling ==
    LET share == (Pool - Len(Recent(readEvents))) \div WritePoints
    IN  LargerOf(Floor, SmallerOf(Ceiling, share))
EffectiveRate == LargerOf(Floor, SmallerOf(writeRate, DynamicCeiling))

\* The deadline a rate-limit response carries: Retry-After, else the reset
\* last seen (its own header included), else none.
Deadline(a, reset) == IF a.retryAfter # Absent THEN now + a.retryAfter ELSE reset

\* The Budget Readout: exhaustedLocked and resumeInstantLocked.
Exhausted ==
    \/ lastRemaining = 0
    \/ inRateLimit /\ (limitResume = None \/ now < limitResume)
Resume == IF limitResume # None /\ now < limitResume THEN limitResume
                                                    ELSE lastReset

\* The holds paceWrite honours: the rate limit's by its own deadline, the
\* primary exhaustion's only while the last header still says zero.
PrimaryHold == IF lastRemaining = 0 THEN lastReset ELSE None

\* (mutant: a slot comes after the writes before it and after a reset, but a
\* rate limit in between is forgotten)
SlotStartPastReset == LargerOf(LargerOf(now, nextWrite), PrimaryHold)

SlotStart ==
    LargerOf(LargerOf(now, nextWrite), LargerOf(limitResume, PrimaryHold))

-----------------------------------------------------------------------------
Init ==
    /\ now = 1
    /\ writeRate = Start
    /\ cleanStreak = 0
    /\ nextWrite = None
    /\ readEvents = <<>>
    /\ lastRemaining = Absent
    /\ lastReset = None
    /\ inRateLimit = FALSE
    /\ limitResume = None
    /\ sem = 0
    /\ stage = [c \in Caller |-> "idle"]
    /\ slot = [c \in Caller |-> None]
    /\ hand = [c \in Caller |-> NoAnswer]
    /\ dead = {}
    /\ issued = 0
    /\ claimed = <<>>
    /\ promised = None
    /\ known = [c \in Caller |-> None]

\* A read goes straight to the limiter (R4).
Read(c) ==
    /\ c \in Reader
    /\ stage[c] = "idle"
    /\ issued < MaxRequests
    /\ issued' = issued + 1
    /\ stage' = [stage EXCEPT ![c] = "queued"]
    /\ UNCHANGED <<now, governor, pacing, sem, hand, dead>>

\* (mutant: the next slot is counted from the claim, not from the slot)
PaceFromNow(c) ==
    /\ c \in Writer
    /\ stage[c] = "idle"
    /\ issued < MaxRequests
    /\ SlotStart <= Horizon
    /\ issued' = issued + 1
    /\ slot' = [slot EXCEPT ![c] = SlotStart]
    /\ nextWrite' = now + Interval[EffectiveRate]
    /\ claimed' = Append(claimed, SlotStart)
    /\ known' = [known EXCEPT ![c] = LargerOf(promised, PrimaryHold)]
    /\ stage' = [stage EXCEPT ![c] = "pacing"]
    /\ UNCHANGED <<now, governor, sem, hand, dead>>

\* paceWrite under the lock: the write claims the earliest slot no hold and
\* no earlier write forbids, and moves the next one an interval past it.
PaceWrite(c) ==
    /\ c \in Writer
    /\ stage[c] = "idle"
    /\ issued < MaxRequests
    /\ SlotStart <= Horizon
    /\ issued' = issued + 1
    /\ slot' = [slot EXCEPT ![c] = SlotStart]
    /\ nextWrite' = SlotStart + Interval[EffectiveRate]
    /\ claimed' = Append(claimed, SlotStart)
    /\ known' = [known EXCEPT ![c] = LargerOf(promised, PrimaryHold)]
    /\ stage' = [stage EXCEPT ![c] = "pacing"]
    /\ UNCHANGED <<now, governor, sem, hand, dead>>

\* (mutant: a due write waits for the Readout to recover as well)
ReleaseWhenRecovered(c) ==
    /\ stage[c] = "pacing"
    /\ (now >= slot[c] /\ ~Exhausted) \/ c \in dead
    /\ stage' = [stage EXCEPT ![c] = "queued"]
    /\ slot' = [slot EXCEPT ![c] = None]
    /\ known' = [known EXCEPT ![c] = None]
    /\ UNCHANGED <<now, governor, nextWrite, claimed, sem, hand, dead, issued>>

\* The wait outside the lock ends: the timer fires, or the context is done.
\* Either way the request goes on to the layer below, and nothing looks at
\* the holds again.
Release(c) ==
    /\ stage[c] = "pacing"
    /\ now >= slot[c] \/ c \in dead
    /\ stage' = [stage EXCEPT ![c] = "queued"]
    /\ slot' = [slot EXCEPT ![c] = None]
    /\ known' = [known EXCEPT ![c] = None]
    /\ UNCHANGED <<now, governor, nextWrite, claimed, sem, hand, dead, issued>>

\* limiter.RoundTrip: a slot is free.
Acquire(c) ==
    /\ stage[c] = "queued"
    /\ sem < Bound
    /\ sem' = sem + 1
    /\ stage' = [stage EXCEPT ![c] = "wire"]
    /\ UNCHANGED <<now, governor, pacing, hand, dead, issued>>

\* limiter.RoundTrip: the context is done first, and no slot was taken.
GiveUp(c) ==
    /\ stage[c] = "queued"
    /\ c \in dead
    /\ stage' = [stage EXCEPT ![c] = "idle"]
    /\ dead' = dead \ {c}
    /\ UNCHANGED <<now, governor, pacing, sem, hand, issued>>

\* The response lands: the limiter's deferred release runs, and the answer,
\* with the headers it was given when the server wrote it, is on its way up.
Land(c, a) ==
    /\ stage[c] = "wire"
    /\ c \notin dead
    /\ a.status = "304" => c \in Reader
    /\ sem' = sem - 1
    /\ stage' = [stage EXCEPT ![c] = "landed"]
    /\ hand' = [hand EXCEPT ![c] =
          [status |-> a.status, retryAfter |-> a.retryAfter,
           authShape |-> a.authShape, remaining |-> a.remaining,
           reset |-> IF a.dated THEN ResetAfter(now) ELSE None]]
    /\ UNCHANGED <<now, governor, pacing, dead, issued>>

\* The network fails, or the context is done while on the wire: the slot is
\* released and the error is returned unobserved.
Fail(c) ==
    /\ stage[c] = "wire"
    /\ sem' = sem - 1
    /\ stage' = [stage EXCEPT ![c] = "idle"]
    /\ dead' = dead \ {c}
    /\ UNCHANGED <<now, governor, pacing, hand, issued>>

-----------------------------------------------------------------------------
\* recordClean's release of a rate-limit hold, gated on the hold's deadline.
Recovered == inRateLimit /\ (limitResume = None \/ now >= limitResume)

ObserveClean ==
    /\ IF cleanStreak + 1 >= CleanBeforeRamp
       THEN /\ writeRate' = SmallerOf(writeRate + Step, Ceiling)
            /\ cleanStreak' = 0
       ELSE /\ cleanStreak' = cleanStreak + 1
            /\ UNCHANGED writeRate
    /\ inRateLimit' = (inRateLimit /\ ~Recovered)
    /\ limitResume' = IF Recovered THEN None ELSE limitResume
    /\ UNCHANGED promised

\* (mutant: the back-off forgets the floor)
BackOffPastFloor(a, reset) ==
    /\ writeRate' = writeRate \div 2
    /\ cleanStreak' = 0
    /\ inRateLimit' = TRUE
    /\ limitResume' = Deadline(a, reset)
    /\ promised' = Deadline(a, reset)

\* backoff and enterRateLimit.
ObserveLimited(a, reset) ==
    /\ writeRate' = LargerOf(writeRate \div 2, Floor)
    /\ cleanStreak' = 0
    /\ inRateLimit' = TRUE
    /\ limitResume' = Deadline(a, reset)
    /\ promised' = Deadline(a, reset)

ObserveOther ==
    /\ cleanStreak' = 0
    /\ UNCHANGED <<writeRate, inRateLimit, limitResume, promised>>

\* observe, under the lock, for an answer that landed earlier.
Observe(c) ==
    LET a     == hand[c]
        reset == IF a.reset # None THEN a.reset ELSE lastReset
    IN  /\ stage[c] = "landed"
        /\ lastRemaining' =
              IF a.remaining # Absent THEN a.remaining ELSE lastRemaining
        /\ lastReset' = reset
        /\ readEvents' = Recent(IF c \in Reader THEN Append(readEvents, now)
                                                ELSE readEvents)
        /\ \/ Limited(a) /\ ObserveLimited(a, reset)
           \/ Clean(a) /\ ObserveClean
           \/ ~Limited(a) /\ ~Clean(a) /\ ObserveOther
        /\ hand' = [hand EXCEPT ![c] = NoAnswer]
        /\ stage' = [stage EXCEPT ![c] = "idle"]
        /\ dead' = dead \ {c}
        /\ UNCHANGED <<now, pacing, sem, issued>>

\* The caller's context is cancelled while it waits: Stop on quit, or a
\* cancelled Purge.  Cancelled on the wire, it is Fail.
Cancel(c) ==
    /\ stage[c] \in {"pacing", "queued"}
    /\ c \notin dead
    /\ dead' = dead \cup {c}
    /\ UNCHANGED <<now, governor, pacing, sem, stage, hand, issued>>

Tick ==
    /\ now < Horizon
    /\ now' = now + 1
    /\ UNCHANGED <<governor, pacing, sem, stage, hand, dead, issued>>

Next ==
    \/ Tick
    \/ \E c \in Caller :
          \/ Read(c) \/ PaceWrite(c) \/ Release(c) \/ Acquire(c)
          \/ GiveUp(c) \/ Fail(c) \/ Observe(c) \/ Cancel(c)
          \/ \E a \in Answer : Land(c, a)

\* Time passes; a due timer fires; a free slot is taken; a request on the
\* wire comes back, with an answer or an error; RoundTrip runs to its end.
Fairness ==
    /\ WF_vars(Tick)
    /\ \A c \in Caller :
          /\ WF_vars(Release(c))
          /\ WF_vars(Acquire(c))
          /\ WF_vars(Fail(c) \/ \E a \in Answer : Land(c, a))
          /\ WF_vars(Observe(c))

Spec == Init /\ [][Next]_vars /\ Fairness

-----------------------------------------------------------------------------
\* The state has the shape the Go types give it, the ramp target stays
\* between R11's floor and cap, and the streak below the ramp's threshold.
TypeOK ==
    /\ now \in Nat \ {0}
    /\ writeRate \in Floor..Ceiling
    /\ cleanStreak \in 0..(CleanBeforeRamp - 1)
    /\ nextWrite \in Nat
    /\ readEvents \in Seq(Nat)
    /\ lastRemaining \in {Absent} \cup Nat
    /\ lastReset \in Nat
    /\ inRateLimit \in BOOLEAN
    /\ limitResume \in Nat
    /\ sem \in Nat
    /\ stage \in [Caller -> Stage]
    /\ slot \in [Caller -> Nat]
    /\ hand \in [Caller -> {NoAnswer} \cup Landed]
    /\ \A c \in Caller : stage[c] = "landed" => hand[c] \in Landed
    /\ dead \subseteq Caller
    /\ issued \in 0..MaxRequests
    /\ claimed \in Seq(Nat)
    /\ promised \in Nat
    /\ known \in [Caller -> Nat]

\* limiter: the slots taken are exactly the requests on the wire, whatever
\* mix of answers, failures and cancellations ended the others, and never
\* more than Bound.  A write waiting out its pacing holds none.
SlotsAccounted ==
    /\ sem = Cardinality(OnTheWire)
    /\ sem <= Bound

\* paceWrite: however concurrent writers, holds, cancellations and changes
\* of rate interleave, no two writes are ever given slots closer than the
\* gap of the fastest rate allowed.
SlotsSpaced ==
    \A i, j \in 1..Len(claimed) :
        i < j => claimed[j] - claimed[i] >= Interval[Ceiling]

\* The two together: the limiter's slots and the pacer's.
SlotsKept == SlotsAccounted /\ SlotsSpaced

\* observe and Readout: until the deadline of the latest rate-limit response
\* has passed, the Readout says exhausted and names that deadline, whatever
\* clean answers to other requests were observed meanwhile.
HoldIsPublished == now < promised => Exhausted /\ Resume = promised

\* paceWrite and Release: a write that leaves its wait alive leaves it after
\* every hold that was in force when it claimed its slot: the deadline of the
\* latest rate-limit response, and the primary reset when nothing was left.
KnownHoldKept ==
    [][\A c \in Writer :
          stage[c] = "pacing" /\ stage'[c] = "queued" /\ c \notin dead
              => now >= known[c]]_vars

\* The two together: a hold is told to whoever asks and kept by whoever knows.
HoldsKept == []HoldIsPublished /\ KnownHoldKept

\* RoundTrip: every request ends.  A write's slot comes, an undated
\* exhaustion holds nobody, a full limiter drains, and cancellation ends a
\* wait instead of prolonging it.
EveryRequestEnds == \A c \in Caller : stage[c] # "idle" ~> stage[c] = "idle"
===============================================================================
