---------------------------- MODULE GovernorProofs ----------------------------
(***************************************************************************)
(* Proofs about the governor over the limiter, for every set of callers,   *)
(* number of limiter slots, ramp, set of answers and length of run.        *)
(***************************************************************************)
EXTENDS Governor, SequenceTheorems, FiniteSetTheorems, TLAPS

(***************************************************************************)
(* What the helpers return.                                                *)
(***************************************************************************)
LEMMA RecentType ==
  ASSUME NEW s \in Seq(Nat), now \in Nat
  PROVE  Recent(s) \in Seq(Nat)
<1> DEFINE old == {i \in DOMAIN s : s[i] <= now - ReadWindow}
           m == Cardinality(old) + 1
<1>1. Len(s) \in Nat /\ DOMAIN s = 1..Len(s)
  BY LenProperties
<1>2. IsFiniteSet(old)
  <2>1. IsFiniteSet(1..Len(s))
    BY <1>1, FS_Interval
  <2> QED BY <1>1, <2>1, FS_Subset
<1>3. m \in Nat /\ m >= 1
  BY <1>2, FS_CardinalityType
<1>4. Recent(s) = SubSeq(s, m, Len(s))
  BY DEF Recent
<1> HIDE DEF m
<1>5. \A i \in m..Len(s) : s[i] \in Nat
  BY <1>1, <1>3, ElementOfSeq
<1> QED BY <1>1, <1>3, <1>4, <1>5, SubSeqProperties

LEMMA RateType ==
  ASSUME TypeOK
  PROVE  EffectiveRate \in Floor..Ceiling
<1> DEFINE n == Len(Recent(readEvents))
<1>1. n \in Nat
  BY RecentType, LenProperties DEF TypeOK
<1> HIDE DEF n
<1>2. (Pool - n) \div WritePoints \in Int
  BY <1>1, BoundAssumption
<1>3. DynamicCeiling \in Floor..Ceiling
  BY <1>2, RateAssumption DEF DynamicCeiling, LargerOf, SmallerOf, n
<1> QED BY <1>3, RateAssumption DEF EffectiveRate, LargerOf, SmallerOf, TypeOK

\* The gap a write leaves behind it is never shorter than the fastest one's.
LEMMA GapType ==
  ASSUME TypeOK
  PROVE  /\ Interval[EffectiveRate] \in Nat \ {0}
         /\ Interval[Ceiling] \in Nat \ {0}
         /\ Interval[EffectiveRate] >= Interval[Ceiling]
<1>1. EffectiveRate \in Floor..Ceiling /\ Ceiling \in Floor..Ceiling
  BY RateType, RateAssumption
<1>2. EffectiveRate <= Ceiling
  BY <1>1, RateAssumption
<1> QED BY <1>1, <1>2, IntervalAssumption

\* A slot never precedes the clock, the throttle or a hold.
LEMMA SlotStartType ==
  ASSUME TypeOK
  PROVE  /\ SlotStart \in Nat /\ PrimaryHold \in Nat
         /\ SlotStart >= now /\ SlotStart >= nextWrite
         /\ SlotStart >= limitResume /\ SlotStart >= PrimaryHold
BY DEF TypeOK, SlotStart, PrimaryHold, LargerOf, None

LEMMA ResetType ==
  ASSUME NEW t \in Nat
  PROVE  ResetAfter(t) \in Nat
<1> DEFINE q == t \div Window
<1>1. q \in Nat /\ Window \in Nat
  BY BoundAssumption
<1> HIDE DEF q
<1>2. (q + 1) * Window \in Nat
  BY <1>1
<1> QED BY <1>2 DEF ResetAfter, q

(***************************************************************************)
(* The shape of the state.                                                 *)
(***************************************************************************)
LEMMA InitType == Init => TypeOK
<1> SUFFICES ASSUME Init PROVE TypeOK
  OBVIOUS
<1>1. writeRate \in Floor..Ceiling /\ cleanStreak \in 0..(CleanBeforeRamp - 1)
  BY RateAssumption DEF Init
<1>2. issued \in 0..MaxRequests
  BY BoundAssumption DEF Init
<1>3. readEvents \in Seq(Nat) /\ claimed \in Seq(Nat)
  BY EmptySeq DEF Init
<1>4. /\ stage \in [Caller -> Stage] /\ slot \in [Caller -> Nat]
      /\ known \in [Caller -> Nat] /\ hand \in [Caller -> {NoAnswer} \cup Landed]
      /\ \A c \in Caller : stage[c] = "landed" => hand[c] \in Landed
  BY DEF Init, Stage, None
<1>5. /\ now \in Nat \ {0} /\ nextWrite \in Nat /\ sem \in Nat
      /\ lastReset \in Nat /\ limitResume \in Nat /\ promised \in Nat
  BY DEF Init, None
<1>6. lastRemaining \in {Absent} \cup Nat
  BY DEF Init
<1>7. inRateLimit \in BOOLEAN /\ dead \subseteq Caller
  BY DEF Init
<1> QED BY <1>1, <1>2, <1>3, <1>4, <1>5, <1>6, <1>7 DEF TypeOK

\* What observe leaves is well typed, whatever the answer.
LEMMA ObserveType ==
  ASSUME TypeOK, NEW c \in Caller, Observe(c), SlotsAccounted
  PROVE  TypeOK'
<1> DEFINE a == hand[c]
           reset == IF a.reset # None THEN a.reset ELSE lastReset
<1>1. a \in Landed
  BY DEF Observe, TypeOK
<1>2. reset \in Nat /\ lastReset' = reset
  BY <1>1 DEF Observe, TypeOK, Landed
<1>3. lastRemaining' \in {Absent} \cup Nat
  BY <1>1 DEF Observe, TypeOK, Landed
<1>4. readEvents' \in Seq(Nat)
  <2>1. Append(readEvents, now) \in Seq(Nat) /\ readEvents \in Seq(Nat) /\ now \in Nat
    BY AppendProperties DEF TypeOK
  <2>2. Recent(Append(readEvents, now)) \in Seq(Nat) /\ Recent(readEvents) \in Seq(Nat)
    BY <2>1, RecentType
  <2> QED BY <2>2 DEF Observe
<1>5. Deadline(a, reset) \in Nat
  BY <1>1, <1>2 DEF Deadline, Landed, Absent, TypeOK
<1> HIDE DEF reset
<1>6. /\ writeRate' \in Floor..Ceiling
      /\ cleanStreak' \in 0..(CleanBeforeRamp - 1)
      /\ inRateLimit' \in BOOLEAN /\ limitResume' \in Nat /\ promised' \in Nat
  <2>1. CASE ObserveLimited(a, reset)
    BY <2>1, <1>5, RateAssumption DEF ObserveLimited, TypeOK, LargerOf
  <2>2. CASE ObserveClean
    BY <2>2, RateAssumption DEF ObserveClean, TypeOK, SmallerOf, None
  <2>3. CASE ObserveOther
    BY <2>3, RateAssumption DEF ObserveOther, TypeOK
  <2> QED BY <2>1, <2>2, <2>3 DEF Observe, reset
<1>7. /\ stage' \in [Caller -> Stage] /\ hand' \in [Caller -> {NoAnswer} \cup Landed]
      /\ \A d \in Caller : stage'[d] = "landed" => hand'[d] \in Landed
  BY DEF Observe, TypeOK, Stage
<1>8. /\ UNCHANGED <<now, nextWrite, slot, claimed, known, sem, issued>>
      /\ dead' \subseteq Caller
  BY DEF Observe, TypeOK, pacing
<1> QED BY <1>2, <1>3, <1>4, <1>6, <1>7, <1>8 DEF TypeOK

LEMMA LandType ==
  ASSUME TypeOK, SlotsAccounted, NEW c \in Caller, NEW a \in Answer, Land(c, a)
  PROVE  TypeOK'
<1> DEFINE h == [status |-> a.status, retryAfter |-> a.retryAfter,
                 authShape |-> a.authShape, remaining |-> a.remaining,
                 reset |-> IF a.dated THEN ResetAfter(now) ELSE None]
<1>1. h \in Landed
  BY AnswerAssumption, ResetType DEF Landed, TypeOK, None
<1>2. hand' = [hand EXCEPT ![c] = h] /\ stage' = [stage EXCEPT ![c] = "landed"]
  BY DEF Land
<1> HIDE DEF h
<1>3. /\ stage' \in [Caller -> Stage] /\ hand' \in [Caller -> {NoAnswer} \cup Landed]
      /\ \A d \in Caller : stage'[d] = "landed" => hand'[d] \in Landed
  BY <1>1, <1>2 DEF TypeOK, Stage
<1>4. sem' \in Nat
  <2>1. c \in OnTheWire /\ IsFiniteSet(OnTheWire)
    BY CallersAssumption, FS_Subset DEF OnTheWire, Land
  <2>2. Cardinality(OnTheWire) # 0 /\ Cardinality(OnTheWire) \in Nat
    BY <2>1, FS_EmptySet, FS_CardinalityType
  <2> QED BY <2>2 DEF Land, SlotsAccounted
<1>5. UNCHANGED <<now, governor, pacing, dead, issued>>
  BY DEF Land
<1> QED BY <1>3, <1>4, <1>5 DEF TypeOK, governor, pacing

\* A request that joins the wire takes one slot, one that leaves it frees one.
LEMMA WireCount ==
  ASSUME NEW c \in Caller
  PROVE  /\ IsFiniteSet(OnTheWire) /\ Cardinality(OnTheWire) \in Nat
         /\ c \in OnTheWire =>
              Cardinality(OnTheWire \ {c}) = Cardinality(OnTheWire) - 1
         /\ c \notin OnTheWire =>
              Cardinality(OnTheWire \cup {c}) = Cardinality(OnTheWire) + 1
<1>1. IsFiniteSet(OnTheWire)
  BY CallersAssumption, FS_Subset DEF OnTheWire
<1> QED BY <1>1, FS_CardinalityType, FS_AddElement, FS_RemoveElement

(***************************************************************************)
(* limiter.RoundTrip: every way of leaving the wire gives its slot back.   *)
(***************************************************************************)
LEMMA SlotsStep ==
  ASSUME TypeOK, SlotsAccounted, [Next]_vars
  PROVE  SlotsAccounted'
<1> DEFINE Enters(c) == /\ c \notin OnTheWire /\ sem < Bound /\ sem' = sem + 1
                        /\ OnTheWire' = OnTheWire \cup {c}
           Leaves(c) == /\ c \in OnTheWire /\ sem' = sem - 1
                        /\ OnTheWire' = OnTheWire \ {c}
           Stays     == sem' = sem /\ OnTheWire' = OnTheWire
<1>1. ASSUME NEW c \in Caller, Acquire(c) PROVE Enters(c)
  BY <1>1 DEF Acquire, OnTheWire, TypeOK
<1>2. ASSUME NEW c \in Caller, Fail(c) \/ \E a \in Answer : Land(c, a)
      PROVE  Leaves(c)
  BY <1>2 DEF Fail, Land, OnTheWire, TypeOK
<1>3. ASSUME NEW c \in Caller,
             Read(c) \/ PaceWrite(c) \/ Release(c) \/ GiveUp(c) \/ Observe(c)
      PROVE  Stays
  BY <1>3 DEF Read, PaceWrite, Release, GiveUp, Observe, OnTheWire, TypeOK
<1>4. ASSUME NEW c \in Caller, Cancel(c) PROVE Stays
  BY <1>4 DEF Cancel, OnTheWire
<1>5. CASE Tick \/ UNCHANGED vars
  <2>1. Stays
    BY <1>5 DEF Tick, vars, OnTheWire
  <2> QED BY <2>1 DEF SlotsAccounted
<1> DEFINE n == Cardinality(OnTheWire)
<1>0. n \in Nat /\ sem = n /\ n <= Bound /\ Bound \in Nat
  BY CallersAssumption, FS_Subset, FS_CardinalityType, BoundAssumption
  DEF SlotsAccounted, OnTheWire
<1>6. ASSUME NEW c \in Caller, Enters(c) PROVE SlotsAccounted'
  <2>1. Cardinality(OnTheWire') = n + 1
    BY <1>6, WireCount
  <2> HIDE DEF n
  <2>2. sem' = Cardinality(OnTheWire') /\ sem' <= Bound
    BY <1>6, <1>0, <2>1
  <2> QED BY <2>2 DEF SlotsAccounted
<1>7. ASSUME NEW c \in Caller, Leaves(c) PROVE SlotsAccounted'
  <2>1. Cardinality(OnTheWire') = n - 1
    BY <1>7, WireCount
  <2> HIDE DEF n
  <2>2. sem' = Cardinality(OnTheWire') /\ sem' <= Bound
    BY <1>7, <1>0, <2>1
  <2> QED BY <2>2 DEF SlotsAccounted
<1>8. ASSUME Stays PROVE SlotsAccounted'
  BY <1>8 DEF SlotsAccounted
<1> HIDE DEF Enters, Leaves, Stays
<1> QED BY <1>1, <1>2, <1>3, <1>4, <1>5, <1>6, <1>7, <1>8 DEF Next

LEMMA TypeStep ==
  ASSUME TypeOK, SlotsAccounted, [Next]_vars
  PROVE  TypeOK'
<1>1. CASE Tick
  BY <1>1 DEF Tick, TypeOK, governor, pacing
<1>2. ASSUME NEW c \in Caller, Read(c) PROVE TypeOK'
  <2>1. issued' \in 0..MaxRequests
    BY <1>2, BoundAssumption DEF Read, TypeOK
  <2> QED BY <1>2, <2>1 DEF Read, TypeOK, governor, pacing, Stage
<1>3. ASSUME NEW c \in Caller, PaceWrite(c) PROVE TypeOK'
  <2>1. issued' \in 0..MaxRequests
    BY <1>3, BoundAssumption DEF PaceWrite, TypeOK
  <2>2. nextWrite' \in Nat
    <3> DEFINE gap == Interval[EffectiveRate]
    <3>1. SlotStart \in Nat /\ gap \in Nat
      BY SlotStartType, GapType
    <3>2. nextWrite' = SlotStart + gap
      BY <1>3 DEF PaceWrite
    <3> HIDE DEF gap
    <3> QED BY <3>1, <3>2
  <2>3. claimed' \in Seq(Nat)
    BY <1>3, SlotStartType, AppendProperties DEF PaceWrite, TypeOK
  <2>4. slot' \in [Caller -> Nat] /\ known' \in [Caller -> Nat]
    <3>1. LargerOf(promised, PrimaryHold) \in Nat
      BY SlotStartType DEF TypeOK, LargerOf
    <3> QED BY <1>3, <3>1, SlotStartType DEF PaceWrite, TypeOK
  <2>5. /\ stage' \in [Caller -> Stage]
        /\ \A d \in Caller : stage'[d] = "landed" => stage[d] = "landed"
        /\ UNCHANGED <<now, governor, sem, hand, dead>>
    BY <1>3 DEF PaceWrite, TypeOK, Stage
  <2> QED BY <2>1, <2>2, <2>3, <2>4, <2>5 DEF TypeOK, governor
<1>4. ASSUME NEW c \in Caller, Release(c) PROVE TypeOK'
  <2>1. slot' \in [Caller -> Nat] /\ known' \in [Caller -> Nat]
    BY <1>4 DEF Release, TypeOK, None
  <2>2. /\ stage' \in [Caller -> Stage]
        /\ \A d \in Caller : stage'[d] = "landed" => stage[d] = "landed"
        /\ UNCHANGED <<now, governor, nextWrite, claimed, sem, hand, dead, issued>>
    BY <1>4 DEF Release, TypeOK, Stage
  <2> QED BY <2>1, <2>2 DEF TypeOK, governor
<1>5. ASSUME NEW c \in Caller, Acquire(c) PROVE TypeOK'
  BY <1>5 DEF Acquire, TypeOK, governor, pacing, Stage
<1>6. ASSUME NEW c \in Caller, GiveUp(c) PROVE TypeOK'
  BY <1>6 DEF GiveUp, TypeOK, governor, pacing, Stage
<1>7. ASSUME NEW c \in Caller, Fail(c) PROVE TypeOK'
  <2>1. c \in OnTheWire
    BY <1>7 DEF Fail, OnTheWire
  <2>2. Cardinality(OnTheWire) # 0 /\ Cardinality(OnTheWire) \in Nat
    BY <2>1, WireCount, FS_EmptySet
  <2>3. sem' \in Nat
    BY <1>7, <2>2 DEF Fail, SlotsAccounted
  <2> QED BY <1>7, <2>3 DEF Fail, TypeOK, governor, pacing, Stage
<1>8. ASSUME NEW c \in Caller, Cancel(c) PROVE TypeOK'
  BY <1>8 DEF Cancel, TypeOK, governor, pacing
<1>9. CASE UNCHANGED vars
  BY <1>9 DEF vars, governor, pacing, TypeOK
<1> QED BY <1>1, <1>2, <1>3, <1>4, <1>5, <1>6, <1>7, <1>8, <1>9, ObserveType, LandType
        DEF Next

LEMMA InitSlots == Init => SlotsAccounted
<1> SUFFICES ASSUME Init PROVE SlotsAccounted
  OBVIOUS
<1>1. OnTheWire = {}
  BY DEF Init, OnTheWire
<1> QED BY <1>1, FS_EmptySet, BoundAssumption DEF Init, SlotsAccounted

LEMMA ShapeAndSlots == Spec => [](TypeOK /\ SlotsAccounted)
<1>1. Init => TypeOK /\ SlotsAccounted
  BY InitType, InitSlots
<1>2. TypeOK /\ SlotsAccounted /\ [Next]_vars => (TypeOK /\ SlotsAccounted)'
  BY TypeStep, SlotsStep
<1> QED BY <1>1, <1>2, PTL DEF Spec

\* Every reachable state has the shape the Go types give it; the ramp target
\* stays between R11's floor and cap, whatever the answers.
THEOREM TypeCorrect == Spec => []TypeOK
BY ShapeAndSlots, PTL

\* limiter.RoundTrip: for any callers and any Bound, the slots taken are
\* exactly the requests on the wire, and never more than Bound.
THEOREM SlotsNeverLeak == Spec => []SlotsAccounted
BY ShapeAndSlots, PTL

(***************************************************************************)
(* paceWrite's throttle.  Inductive: every slot handed out so far is one   *)
(* gap behind nextWrite, so the next one, never before nextWrite, is too.  *)
(***************************************************************************)
Throttled == \A i \in 1..Len(claimed) :
                 claimed[i] + Interval[Ceiling] <= nextWrite

LEMMA ThrottleStep ==
  ASSUME TypeOK, SlotsSpaced, Throttled, [Next]_vars
  PROVE  SlotsSpaced' /\ Throttled'
<1>1. CASE UNCHANGED <<claimed, nextWrite>>
  BY <1>1 DEF SlotsSpaced, Throttled
<1>2. ASSUME NEW c \in Caller, PaceWrite(c)
      PROVE  SlotsSpaced' /\ Throttled'
  <2> DEFINE n == Len(claimed)
             g == Interval[Ceiling]
             gap == Interval[EffectiveRate]
  <2>1. /\ n \in Nat /\ claimed \in Seq(Nat) /\ nextWrite \in Nat
        /\ \A i \in 1..n : claimed[i] \in Nat
    BY LenProperties, ElementOfSeq DEF TypeOK
  <2>2. SlotStart \in Nat /\ SlotStart >= nextWrite
    BY SlotStartType DEF TypeOK
  <2>3. claimed' = Append(claimed, SlotStart) /\ nextWrite' = SlotStart + gap
    BY <1>2 DEF PaceWrite
  <2>4. /\ Len(claimed') = n + 1 /\ claimed'[n + 1] = SlotStart
        /\ \A i \in 1..n : claimed'[i] = claimed[i]
    BY <2>1, <2>2, <2>3, AppendProperties
  <2>5. gap \in Nat /\ g \in Nat /\ gap >= g
    BY GapType
  <2>6. \A i \in 1..n : claimed[i] + g <= nextWrite
    BY DEF Throttled
  <2>7. \A i, j \in 1..n : i < j => claimed[j] - claimed[i] >= g
    BY DEF SlotsSpaced
  <2> HIDE DEF n, g, gap
  <2>8. \A i, j \in 1..(n + 1) : i < j => claimed'[j] - claimed'[i] >= g
    <3> SUFFICES ASSUME NEW i \in 1..(n + 1), NEW j \in 1..(n + 1), i < j
                 PROVE  claimed'[j] - claimed'[i] >= g
      OBVIOUS
    <3>1. i \in 1..n
      BY <2>1
    <3>2. CASE j \in 1..n
      BY <3>1, <3>2, <2>4, <2>7
    <3>3. CASE j = n + 1
      BY <3>1, <3>3, <2>1, <2>2, <2>4, <2>5, <2>6
    <3> QED BY <3>2, <3>3, <2>1
  <2>9. \A i \in 1..(n + 1) : claimed'[i] + g <= nextWrite'
    <3> TAKE i \in 1..(n + 1)
    <3>1. CASE i \in 1..n
      BY <3>1, <2>1, <2>2, <2>3, <2>4, <2>5, <2>6
    <3>2. CASE i = n + 1
      BY <3>2, <2>2, <2>3, <2>4, <2>5
    <3> QED BY <3>1, <3>2, <2>1
  <2> QED BY <2>4, <2>8, <2>9 DEF SlotsSpaced, Throttled, g
<1>3. Tick \/ UNCHANGED vars => UNCHANGED <<claimed, nextWrite>>
  BY DEF Tick, vars, pacing
<1>4. ASSUME NEW c \in Caller,
             \/ Read(c) \/ Release(c) \/ Acquire(c) \/ GiveUp(c)
             \/ Fail(c) \/ Observe(c) \/ Cancel(c) \/ \E a \in Answer : Land(c, a)
      PROVE  UNCHANGED <<claimed, nextWrite>>
  BY <1>4 DEF Read, Release, Acquire, GiveUp, Fail, Observe, Cancel, Land, pacing
<1> QED BY <1>1, <1>2, <1>3, <1>4 DEF Next

\* paceWrite: for any number of writers and any holds, no two writes are ever
\* given slots closer than the gap of the fastest rate allowed.
THEOREM SlotsStaySpaced == Spec => []SlotsSpaced
<1>1. Init => SlotsSpaced /\ Throttled
  <2> SUFFICES ASSUME Init PROVE SlotsSpaced /\ Throttled
    OBVIOUS
  <2>1. Len(claimed) = 0
    BY EmptySeq DEF Init
  <2> QED BY <2>1 DEF SlotsSpaced, Throttled
<1>2. /\ TypeOK /\ SlotsSpaced /\ Throttled /\ [Next]_vars
      => SlotsSpaced' /\ Throttled'
  BY ThrottleStep
<1> QED BY <1>1, <1>2, TypeCorrect, PTL DEF Spec

(***************************************************************************)
(* The published hold.  Inductive: until the promised deadline the hold is *)
(* still in force under that deadline; only recordClean ends it, and its   *)
(* gate is the deadline itself.                                            *)
(***************************************************************************)
Holding == now < promised => inRateLimit /\ limitResume = promised

LEMMA HoldingStep ==
  ASSUME TypeOK, Holding, [Next]_vars
  PROVE  Holding'
<1>1. CASE UNCHANGED <<now, governor>>
  BY <1>1 DEF Holding, governor
<1>2. CASE Tick
  BY <1>2 DEF Holding, Tick, governor, TypeOK
<1>3. ASSUME NEW c \in Caller, Observe(c)
      PROVE  Holding'
  <2> DEFINE a == hand[c]
             reset == IF a.reset # None THEN a.reset ELSE lastReset
  <2>1. now' = now /\ now \in Nat /\ promised \in Nat /\ now # None
    BY <1>3 DEF Observe, TypeOK, None
  <2>2. CASE ObserveLimited(a, reset)
    BY <2>2 DEF ObserveLimited, Holding
  <2>3. CASE ObserveClean
    <3>1. /\ inRateLimit' = (inRateLimit /\ ~Recovered)
          /\ limitResume' = IF Recovered THEN None ELSE limitResume
          /\ promised' = promised
      BY <2>3 DEF ObserveClean
    <3>2. SUFFICES ASSUME now < promised
                   PROVE  inRateLimit' /\ limitResume' = promised
      BY <2>1, <3>1 DEF Holding
    <3>3. inRateLimit /\ limitResume = promised
      BY <3>2 DEF Holding
    <3>4. ~Recovered
      BY <2>1, <3>2, <3>3 DEF Recovered, None
    <3> QED BY <3>1, <3>3, <3>4
  <2>4. CASE ObserveOther
    BY <2>1, <2>4 DEF ObserveOther, Holding
  <2>5. ObserveLimited(a, reset) \/ ObserveClean \/ ObserveOther
    BY <1>3 DEF Observe
  <2> QED BY <2>2, <2>3, <2>4, <2>5
<1>4. ASSUME NEW c \in Caller,
             \/ Read(c) \/ PaceWrite(c) \/ Release(c) \/ Acquire(c) \/ GiveUp(c)
             \/ Fail(c) \/ Cancel(c) \/ \E a \in Answer : Land(c, a)
      PROVE  UNCHANGED <<now, governor>>
  BY <1>4 DEF Read, PaceWrite, Release, Acquire, GiveUp, Fail, Cancel, Land
<1>5. CASE UNCHANGED vars
  BY <1>1, <1>5 DEF vars
<1> QED BY <1>1, <1>2, <1>3, <1>4, <1>5 DEF Next

LEMMA HoldingInv == Spec => []Holding
<1>1. Init => Holding
  BY DEF Init, Holding, None
<1>2. TypeOK /\ Holding /\ [Next]_vars => Holding'
  BY HoldingStep
<1> QED BY <1>1, <1>2, TypeCorrect, PTL DEF Spec

\* observe and Readout: for any answers observed in any order, the Readout
\* says exhausted and names the latest rate-limit deadline until it passes.
THEOREM HoldStaysPublished == Spec => []HoldIsPublished
<1>1. TypeOK /\ Holding => HoldIsPublished
  BY DEF TypeOK, Holding, HoldIsPublished, Exhausted, Resume, None
<1> QED BY <1>1, HoldingInv, TypeCorrect, PTL

(***************************************************************************)
(* The holds known at the claim.  Inductive: a pacing write's slot is at   *)
(* or after every hold it knew of.                                         *)
(***************************************************************************)
SlotHonoursKnown ==
    \A c \in Writer : stage[c] = "pacing" => slot[c] >= known[c]

LEMMA KnownStep ==
  ASSUME TypeOK, Holding, SlotHonoursKnown, [Next]_vars
  PROVE  SlotHonoursKnown'
<1>1. ASSUME NEW c \in Caller, PaceWrite(c)
      PROVE  SlotHonoursKnown'
  <2> DEFINE k == LargerOf(promised, PrimaryHold)
  <2>1. SlotStart >= k
    <3>1. /\ SlotStart \in Nat /\ SlotStart >= now /\ SlotStart >= limitResume
          /\ SlotStart >= PrimaryHold /\ PrimaryHold \in Nat
      BY SlotStartType
    <3>2. SlotStart >= promised
      BY <3>1 DEF Holding, TypeOK
    <3> QED BY <3>1, <3>2 DEF LargerOf
  <2>2. /\ slot' = [slot EXCEPT ![c] = SlotStart]
        /\ known' = [known EXCEPT ![c] = k]
        /\ stage' = [stage EXCEPT ![c] = "pacing"]
    BY <1>1 DEF PaceWrite
  <2> HIDE DEF k
  <2> QED BY <2>1, <2>2 DEF SlotHonoursKnown, TypeOK, Caller
<1>2. ASSUME NEW c \in Caller, Release(c)
      PROVE  SlotHonoursKnown'
  BY <1>2 DEF Release, SlotHonoursKnown, TypeOK, Caller
<1>3. ASSUME NEW c \in Caller,
             \/ Read(c) \/ Acquire(c) \/ GiveUp(c) \/ Fail(c) \/ Observe(c)
             \/ \E a \in Answer : Land(c, a)
      PROVE  SlotHonoursKnown'
  <2>1. /\ UNCHANGED <<slot, known>>
        /\ \A d \in Caller : stage'[d] = "pacing" => stage[d] = "pacing"
    BY <1>3 DEF Read, Acquire, GiveUp, Fail, Observe, Land, pacing, TypeOK
  <2> QED BY <2>1 DEF SlotHonoursKnown, Caller
<1>4. CASE Tick \/ UNCHANGED vars \/ \E c \in Caller : Cancel(c)
  BY <1>4 DEF Tick, Cancel, vars, pacing, SlotHonoursKnown
<1> QED BY <1>1, <1>2, <1>3, <1>4 DEF Next

\* paceWrite and its wait: for any interleaving of writers and answers, a
\* write that leaves its wait alive leaves it after every hold in force when
\* it claimed its slot.
THEOREM WritesKeepKnownHolds == Spec => KnownHoldKept
<1>1. Init => SlotHonoursKnown
  BY DEF Init, SlotHonoursKnown, Caller
<1>2. TypeOK /\ Holding /\ SlotHonoursKnown /\ [Next]_vars => SlotHonoursKnown'
  BY KnownStep
<1>3. TypeOK /\ SlotHonoursKnown /\ [Next]_vars =>
        [\A c \in Writer :
            stage[c] = "pacing" /\ stage'[c] = "queued" /\ c \notin dead
                => now >= known[c]]_vars
  <2> SUFFICES ASSUME TypeOK, SlotHonoursKnown, Next, NEW c \in Writer,
                      stage[c] = "pacing", stage'[c] = "queued", c \notin dead
               PROVE  now >= known[c]
    OBVIOUS
  <2>1. PICK d \in Caller : \/ Read(d) \/ PaceWrite(d) \/ Release(d) \/ Acquire(d)
                            \/ GiveUp(d) \/ Fail(d) \/ Observe(d) \/ Cancel(d)
                            \/ \E a \in Answer : Land(d, a)
    BY DEF Next, Tick
  <2>2. Release(d) /\ d = c
    BY <2>1 DEF Read, PaceWrite, Release, Acquire, GiveUp, Fail, Observe, Cancel,
                Land, TypeOK, Caller
  <2> QED BY <2>2 DEF Release, SlotHonoursKnown, TypeOK, Caller
<1> QED BY <1>1, <1>2, <1>3, TypeCorrect, HoldingInv, PTL DEF Spec, KnownHoldKept

\* limiter.RoundTrip and paceWrite: for any callers, the slots on the wire are
\* accounted for and the slots of writes are an interval apart.
THEOREM SlotsStayKept == Spec => []SlotsKept
<1>1. SlotsAccounted /\ SlotsSpaced => SlotsKept
  BY DEF SlotsKept
<1> QED BY <1>1, SlotsNeverLeak, SlotsStaySpaced, PTL

\* observe, Readout and paceWrite: for any interleaving, a hold is published
\* until its deadline and outwaited by every write that knew of it.
THEOREM HoldsStayKept == Spec => HoldsKept
BY HoldStaysPublished, WritesKeepKnownHolds, PTL DEF HoldsKept

=============================================================================
