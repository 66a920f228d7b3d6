---------------------------- MODULE SchedulerProofs ----------------------------
(***************************************************************************)
(* Proofs about the polling scheduler, for every set of repositories,      *)
(* filters and pages, every ceiling and interval, and any number of events *)
(* from outside.                                                           *)
(*   The provers multiply two unknowns badly, so products that are compared*)
(* are compared by TimesMonotone, and a step that rearranges a product     *)
(* does nothing else.                                                      *)
(***************************************************************************)
EXTENDS Scheduler, FiniteSetTheorems, TLAPS

\* A product grows with its first factor.
LEMMA TimesMonotone ==
  ASSUME NEW a \in Nat, NEW b \in Nat, NEW c \in Nat, a <= b
  PROVE  a * c <= b * c
<1>. PICK d \in Nat : b = a + d
  <2>. b - a \in Nat /\ b = a + (b - a)  OBVIOUS
  <2>. QED OBVIOUS
<1>1. b * c = a * c + d * c  OBVIOUS
<1>2. d * c \in Nat /\ a * c \in Nat  OBVIOUS
<1>. QED BY <1>1, <1>2

\* A rounded-up quotient times its divisor is at least the dividend.
LEMMA CeilDivCovers ==
  ASSUME NEW a \in Nat, NEW b \in Nat \ {0}
  PROVE  CeilDiv(a, b) \in Nat /\ CeilDiv(a, b) * b >= a
<1>. DEFINE x == a + b - 1
            q == x \div b
<1>1. x \in Nat  OBVIOUS
<1>2. q \in Nat /\ x = b * q + (x % b) /\ x % b < b /\ x % b \in Nat  BY <1>1
<1>3. q * b = b * q  BY <1>2
<1>. HIDE DEF q
<1>4. q * b >= a  BY <1>1, <1>2, <1>3
<1>. QED BY <1>2, <1>4 DEF CeilDiv, q

-----------------------------------------------------------------------------
(* budget.go: wholeSetInterval and mediumSetInterval.                      *)

\* The whole set, polled at its interval, projects under the ceiling.
LEMMA WholeSetKeepsCeiling ==
  ASSUME NEW n \in Nat
  PROVE  /\ WholeSetInterval(n) \in Nat \ {0}
         /\ Ceiling * WholeSetInterval(n) >= Window * n
<1>. DEFINE c == CeilDiv(Window * n, Ceiling)
            s == WholeSetInterval(n)
<1>. USE BudgetAssumption
<1>1. Window * n \in Nat  OBVIOUS
<1>2. c \in Nat /\ c * Ceiling >= Window * n  BY <1>1, CeilDivCovers
<1>. HIDE DEF c
<1>3. s \in Nat \ {0} /\ c <= s  BY <1>2 DEF WholeSetInterval, Larger, c
<1>. HIDE DEF s
<1>4. c * Ceiling <= s * Ceiling  BY <1>2, <1>3, TimesMonotone
<1>5. s * Ceiling = Ceiling * s /\ s * Ceiling \in Nat /\ c * Ceiling \in Nat  BY <1>2, <1>3
<1>6. Ceiling * s >= Window * n  BY <1>1, <1>2, <1>4, <1>5
<1>. QED BY <1>3, <1>6 DEF s

\* Of n repositories of which at most m are prioritised, any k of those polled
\* at the medium interval and any j of the others at the slow one project under
\* the secondary ceiling together: the division rounds the right way, the clamp
\* at the slow interval costs nothing, and a poll set smaller than the
\* prioritised one does not open headroom that is not there.
THEOREM ScheduleAffordable ==
  ASSUME NEW m \in Nat, NEW n \in Nat, NEW k \in Nat, NEW j \in Nat,
         k <= m, k + j <= n
  PROVE  Affordable(k, MediumSetInterval(m, n, WholeSetInterval(n)), j, WholeSetInterval(n))
<1>. DEFINE s == WholeSetInterval(n)
            M == MediumSetInterval(m, n, s)
            rest == Larger(n - m, 0)
            headroom == Ceiling * s - Window * rest
<1>. USE BudgetAssumption
<1>1. s \in Nat \ {0} /\ Ceiling * s >= Window * n  BY WholeSetKeepsCeiling
<1>2. rest \in Nat /\ j <= rest + (m - k)  BY DEF Larger
<1>. HIDE DEF s
\* At the slow interval the whole set fits, so nothing else is the dearer.
<1>3. ASSUME M = s  PROVE Affordable(k, M, j, s)
  <2>1. Window * (k + j) <= Ceiling * s
    <3>1. (k + j) * Window <= n * Window  BY TimesMonotone
    <3>2. /\ (k + j) * Window = Window * (k + j) /\ n * Window = Window * n
          /\ {Window * (k + j), Window * n, Ceiling * s} \subseteq Nat  BY <1>1
    <3>. QED BY <1>1, <3>1, <3>2
  <2>2. Window * (k + j) \in Nat /\ Ceiling * s \in Nat  BY <1>1
  <2>3. (Window * (k + j)) * s <= (Ceiling * s) * s  BY <1>1, <2>1, <2>2, TimesMonotone
  <2>4. (Window * (k + j)) * s = Window * (k * s + j * s)  BY <1>1
  <2>. QED BY <1>1, <1>3, <2>3, <2>4 DEF Affordable
<1>4. CASE m = 0
  <2>1. k = 0 /\ M = Medium  BY <1>4 DEF MediumSetInterval
  <2>2. Window * j <= Ceiling * s
    <3>1. j * Window <= n * Window  BY TimesMonotone
    <3>2. /\ j * Window = Window * j /\ n * Window = Window * n
          /\ {Window * j, Window * n, Ceiling * s} \subseteq Nat  BY <1>1
    <3>. QED BY <1>1, <3>1, <3>2
  <2>3. Window * j \in Nat /\ Ceiling * s \in Nat  BY <1>1
  <2>4. (Window * j) * Medium <= (Ceiling * s) * Medium  BY <2>2, <2>3, TimesMonotone
  <2>5. /\ (Window * j) * Medium = Window * (0 * s + j * Medium)
        /\ (Ceiling * s) * Medium = Ceiling * Medium * s  BY <1>1
  <2>. QED BY <2>1, <2>4, <2>5 DEF Affordable, s
<1>5. CASE m # 0 /\ headroom <= 0
  <2>1. M = s  BY <1>5 DEF MediumSetInterval
  <2>. QED BY <1>3, <2>1 DEF s
<1>6. CASE m # 0 /\ headroom > 0
  <2>. DEFINE c == CeilDiv(Window * m * s, headroom)
  <2>1. headroom \in Nat \ {0} /\ Window * m * s \in Nat  BY <1>1, <1>2, <1>6
  <2>2. c \in Nat /\ c * headroom >= Window * m * s  BY <2>1, CeilDivCovers
  <2>. HIDE DEF c
  <2>3. M = Lesser(s, Larger(Medium, c))
    <3>1. m # 0 /\ ~(headroom <= 0)  BY <1>6, <2>1
    <3>. HIDE DEF s
    <3>. QED BY <3>1, Zenon DEF MediumSetInterval, c
  <2>4. M = s \/ (M \in Nat /\ c <= M /\ M <= s)  BY <1>1, <2>2, <2>3 DEF Lesser, Larger
  <2>5. ASSUME M \in Nat, c <= M, M <= s  PROVE Affordable(k, M, j, s)
    <3>. HIDE DEF M, rest
    <3>1. M * headroom >= Window * m * s
      <4>1. c * headroom <= M * headroom  BY <2>1, <2>2, <2>5, TimesMonotone
      <4>2. c * headroom \in Nat /\ M * headroom \in Nat  BY <2>1, <2>2, <2>5
      <4>. QED BY <2>1, <2>2, <4>1, <4>2
    <3>2. M * headroom = Ceiling * M * s - Window * rest * M  BY <1>1, <1>2, <2>5
    <3>3. (m - k) * M <= (m - k) * s
      <4>1. M * (m - k) <= s * (m - k)  BY <1>1, <2>5, TimesMonotone
      <4>. QED BY <1>1, <2>5, <4>1
    <3>4. j * M <= (rest + (m - k)) * M  BY <1>2, <2>5, TimesMonotone
    <3>5. k * s + j * M <= m * s + rest * M
      <4>1. (rest + (m - k)) * M = rest * M + (m - k) * M  BY <1>2, <2>5
      <4>2. (m - k) * s = m * s - k * s  BY <1>1
      <4>3. {j * M, rest * M, k * s, m * s} \subseteq Nat
            /\ (m - k) * M \in Nat  BY <1>1, <1>2, <2>5
      <4>. QED BY <3>3, <3>4, <4>1, <4>2, <4>3
    <3>6. Window * (k * s + j * M) <= Window * (m * s + rest * M)
      <4>1. {k * s + j * M, m * s + rest * M} \subseteq Nat  BY <1>1, <1>2, <2>5
      <4>2. (k * s + j * M) * Window <= (m * s + rest * M) * Window  BY <3>5, <4>1, TimesMonotone
      <4>. QED BY <4>1, <4>2
    <3>7. Window * (m * s + rest * M) = Window * m * s + Window * rest * M  BY <1>1, <1>2, <2>5
    <3>8. {Window * m * s, Window * rest * M, Ceiling * M * s, M * headroom} \subseteq Int
          /\ Window * (k * s + j * M) \in Int  BY <1>1, <1>2, <2>1, <2>5
    <3>. QED BY <3>1, <3>2, <3>6, <3>7, <3>8 DEF Affordable
  <2>. QED BY <1>3, <2>4, <2>5 DEF s
<1>. QED BY <1>1, <1>2, <1>4, <1>5, <1>6 DEF s

-----------------------------------------------------------------------------
(* The polls, the loop and the schedule.                                   *)

\* The polls that are out, and the loop if it still runs.
Outs    == {r \in Repo : Out(r)}
Running == IF at = "returned" THEN 0 ELSE 1

\* What the mutex and the WaitGroup keep: a poll that is out has its flag set,
\* the WaitGroup counts the polls and the loop, and so Updates, closed at zero,
\* has nobody left to send on it.
Held ==
    /\ inFlight \subseteq Repo /\ viewport \subseteq Repo /\ pollSet \subseteq Repo
    /\ poll = [r \in Repo |-> poll[r]]
    /\ Outs \subseteq inFlight
    /\ wg = Cardinality(Outs) + Running
    /\ closed => at = "returned" /\ Outs = {}

\* The polls that are out are finitely many.
LEMMA OutsCounted ==
  /\ IsFiniteSet(Outs) /\ Cardinality(Outs) \in Nat
  /\ Running \in {0, 1}
<1>1. IsFiniteSet(Outs)
  <2>1. Outs \in SUBSET Repo  BY DEF Outs
  <2>. QED BY <2>1, SchedulerAssumption, FS_Subset
<1>2. Cardinality(Outs) \in Nat  BY <1>1, FS_CardinalityType
<1>. QED BY <1>1, <1>2 DEF Running

\* A poll that goes from one stage to another stays counted.
LEMMA StageKeepsHeld ==
  ASSUME Held, NEW r \in Repo, NEW stage, Out(r), stage # NoPoll,
         poll' = [poll EXCEPT ![r] = stage],
         UNCHANGED <<inFlight, viewport, pollSet, wg, at, closed>>
  PROVE  Held'
<1>1. poll' = [x \in Repo |-> IF x = r THEN stage ELSE poll[x]]  BY DEF Held
<1>2. poll' = [x \in Repo |-> poll'[x]]  BY <1>1
<1>3. Outs' = Outs  BY <1>1 DEF Outs, Out
<1>4. Running' = Running  BY DEF Running
<1>. QED BY <1>2, <1>3, <1>4 DEF Held

\* A poll that ends leaves the set, the flags and the count together.
LEMMA EndsKeepsHeld ==
  ASSUME Held, NEW r \in Repo, NEW waking, Out(r), Ends(r, waking),
         UNCHANGED <<viewport, pollSet, at, closed>>
  PROVE  Held'
<1>1. poll' = [x \in Repo |-> IF x = r THEN NoPoll ELSE poll[x]]  BY DEF Held, Ends
<1>2. poll' = [x \in Repo |-> poll'[x]]  BY <1>1
<1>3. Outs' = Outs \ {r} /\ r \in Outs  BY <1>1 DEF Outs, Out
<1>4. Cardinality(Outs') = Cardinality(Outs) - 1
  BY <1>3, OutsCounted, FS_RemoveElement
<1>5. Running' = Running  BY DEF Running
<1>6. wg' = Cardinality(Outs') + Running'
  <2>1. wg = Cardinality(Outs) + Running /\ wg' = wg - 1  BY DEF Held, Ends
  <2>. QED BY <2>1, <1>4, <1>5, OutsCounted
<1>7. Outs' \subseteq inFlight'  BY <1>3 DEF Held, Ends
<1>8. inFlight' \subseteq Repo /\ ~closed'  BY <1>3 DEF Held, Ends
<1>. QED BY <1>2, <1>6, <1>7, <1>8 DEF Held

\* A step of the loop that keeps it running, and touches no poll.
LEMMA LoopKeepsHeld ==
  ASSUME Held, at # "returned", at' # "returned",
         UNCHANGED <<inFlight, viewport, pollSet, poll, wg, closed>>
  PROVE  Held'
<1>1. Outs' = Outs  BY DEF Outs, Out
<1>2. Running' = Running  BY DEF Running
<1>. QED BY <1>1, <1>2 DEF Held

\* What pollDue spawns is of the poll set or the launch repository, and has no
\* poll out.
LEMMA DueNowIsFree ==
  ASSUME Held
  PROVE  DueNow \subseteq Repo /\ DueNow \cap inFlight = {}
<1>1. ScheduleSet \subseteq Repo  BY SchedulerAssumption DEF Held, ScheduleSet
<1>. QED BY <1>1 DEF DueNow

-----------------------------------------------------------------------------
\* At the start only the loop runs.
LEMMA InitHeld == Init => Held
<1>. SUFFICES ASSUME Init  PROVE Held  OBVIOUS
<1>1. Outs = {}  BY DEF Init, Outs, Out
<1>2. Cardinality(Outs) = 0  BY <1>1, FS_EmptySet
<1>. QED BY <1>1, <1>2 DEF Init, Held, Running

\* pollDue sets the flags and counts the goroutines it spawns.
LEMMA PollDueHeld ==
  ASSUME Held, PollDue
  PROVE  Held'
<1>1. DueNow \subseteq Repo /\ DueNow \cap inFlight = {}  BY DueNowIsFree
<1>2. DueNow \cap Outs = {}  BY <1>1 DEF Held
<1>3. poll' = [x \in Repo |-> IF x \in DueNow THEN Spawned ELSE poll[x]]  BY DEF PollDue
<1>4. poll' = [x \in Repo |-> poll'[x]]  BY <1>3
<1>5. Spawned # NoPoll  BY DEF Spawned, NoPoll
<1>. HIDE DEF DueNow
<1>6. Outs' = Outs \cup DueNow  BY <1>1, <1>3, <1>5 DEF Outs, Out
<1>7. IsFiniteSet(DueNow) /\ Cardinality(DueNow) \in Nat
  <2>1. IsFiniteSet(DueNow)  BY <1>1, SchedulerAssumption, FS_Subset
  <2>. QED BY <2>1, FS_CardinalityType
<1>8. Cardinality(Outs') = Cardinality(Outs) + Cardinality(DueNow)
  <2>1. Outs \cap DueNow = {}  BY <1>2
  <2>2. Cardinality(Outs \cup DueNow)
          = Cardinality(Outs) + Cardinality(DueNow) - Cardinality(Outs \cap DueNow)
    BY <1>7, OutsCounted, FS_Union
  <2>3. Cardinality(Outs \cap DueNow) = 0  BY <2>1, FS_EmptySet
  <2>. QED BY <1>6, <1>7, <2>2, <2>3, OutsCounted
<1>9. Running = 1 /\ Running' = 1  BY DEF PollDue, Running
<1>10. wg' = Cardinality(Outs') + Running'
  <2>1. wg = Cardinality(Outs) + 1 /\ wg' = wg + Cardinality(DueNow)
    BY <1>9 DEF Held, PollDue
  <2>. QED BY <2>1, <1>7, <1>8, <1>9, OutsCounted
<1>11. Outs' \subseteq inFlight' /\ inFlight' \subseteq Repo
  BY <1>1, <1>6 DEF Held, PollDue
<1>12. ~closed' /\ viewport' = viewport /\ pollSet' = pollSet
  BY DEF Held, PollDue, inputs, life
<1>. QED BY <1>4, <1>10, <1>11, <1>12 DEF Held

\* The loop leaves the WaitGroup once.
LEMMA LoopReturnsHeld ==
  ASSUME Held, LoopReturns
  PROVE  Held'
<1>1. Outs' = Outs  BY DEF LoopReturns, Outs, Out
<1>2. Running = 1 /\ Running' = 0  BY DEF LoopReturns, Running
<1>3. wg' = Cardinality(Outs') + Running'
  <2>1. wg = Cardinality(Outs) + 1 /\ wg' = wg - 1  BY <1>2 DEF Held, LoopReturns
  <2>. QED BY <2>1, <1>1, <1>2, OutsCounted
<1>. QED BY <1>1, <1>3 DEF Held, LoopReturns, inputs, engine, life

\* A WaitGroup at zero is a loop that has returned and no poll out.
LEMMA CloseUpdatesHeld ==
  ASSUME Held, CloseUpdates
  PROVE  Held'
<1>1. Outs' = Outs /\ Running' = Running
  BY DEF CloseUpdates, Outs, Out, Running, loop
<1>2. Cardinality(Outs) = 0 /\ Running = 0
  <2>1. 0 = Cardinality(Outs) + Running  BY DEF Held, CloseUpdates
  <2>. QED BY <2>1, OutsCounted
<1>3. Outs = {} /\ at = "returned"
  BY <1>2, OutsCounted, FS_EmptySet DEF Running
<1>. QED BY <1>1, <1>3 DEF Held, CloseUpdates, inputs, engine, loop

\* The callers and the clock touch no poll.
LEMMA OthersHeld ==
  ASSUME Held, Outside \/ Tick \/ UNCHANGED vars
  PROVE  Held'
<1>1. UNCHANGED <<inFlight, poll, wg, at, closed>>
      /\ viewport' \subseteq Repo /\ pollSet' \subseteq Repo
  BY DEF Held, Outside, SetViewport, SetFilter, Classify, Change, OtherTraffic,
         PressureRises, Stop, Tick, vars, engine, inputs, loop, life, budget, feed
<1>2. Outs' = Outs /\ Running' = Running  BY <1>1 DEF Outs, Out, Running
<1>. QED BY <1>1, <1>2 DEF Held

\* A poll goes on or ends.
LEMMA PollsHeld ==
  ASSUME Held, NEW r \in Repo, Answer(r) \/ Poll(r)
  PROVE  Held'
<1>. USE DEF engine, inputs, loop, life, budget, feed
<1>1. Out(r)
  <2>1. poll[r] = Spawned \/ poll[r].at = "wire" \/ poll[r].at = "emit"
    BY DEF Answer, Poll, AnswerPage, AnswerLast, AnswerFailed, AnswerUnreadable,
           AnswerLimited, Request, Deliver, Abandon
  <2>. QED BY <2>1 DEF Out, NoPoll, Spawned
<1>2. \A e, p : Emitting(e, p) # NoPoll  BY DEF Emitting, NoPoll
<1>3. \A f : OnWire(f) # NoPoll  BY DEF OnWire, NoPoll
<1>4. CASE Request(r)
  BY <1>1, <1>3, <1>4, StageKeepsHeld DEF Request
<1>5. CASE AnswerPage(r)
  <2>1. CASE Unchanged(r)
    BY <1>1, <1>5, <2>1, EndsKeepsHeld DEF AnswerPage, Unchanged
  <2>2. CASE Record(r)
    BY <1>1, <1>2, <1>5, <2>2, StageKeepsHeld DEF AnswerPage, Record
  <2>. QED BY <1>5, <2>1, <2>2 DEF AnswerPage
<1>6. CASE AnswerLast(r)
  <2>1. CASE Unchanged(r)
    BY <1>1, <1>6, <2>1, EndsKeepsHeld DEF AnswerLast, Unchanged
  <2>2. CASE Record(r)
    BY <1>1, <1>2, <1>6, <2>2, StageKeepsHeld DEF AnswerLast, Record
  <2>. QED BY <1>6, <2>1, <2>2 DEF AnswerLast
<1>7. CASE AnswerFailed(r)
  BY <1>1, <1>2, <1>7, StageKeepsHeld DEF AnswerFailed
<1>8. CASE AnswerUnreadable(r)
  BY <1>1, <1>2, <1>8, StageKeepsHeld DEF AnswerUnreadable
<1>9. CASE AnswerLimited(r)
  BY <1>1, <1>9, EndsKeepsHeld DEF AnswerLimited
<1>10. CASE Deliver(r)
  BY <1>1, <1>10, EndsKeepsHeld DEF Deliver
<1>11. CASE Abandon(r)
  BY <1>1, <1>11, EndsKeepsHeld DEF Abandon
<1>. QED BY <1>4, <1>5, <1>6, <1>7, <1>8, <1>9, <1>10, <1>11 DEF Answer, Poll

\* Every step keeps what the mutex and the WaitGroup keep.
LEMMA NextHeld == Held /\ [Next]_vars => Held'
<1>. SUFFICES ASSUME Held, [Next]_vars  PROVE Held'  OBVIOUS
<1>1. CASE Pause
  BY <1>1, LoopKeepsHeld DEF Pause, engine, inputs, life
<1>2. CASE PollDue
  BY <1>2, PollDueHeld
<1>3. CASE GoToSleep
  BY <1>3, LoopKeepsHeld DEF GoToSleep, engine, inputs, life
<1>4. CASE WakeUp
  BY <1>4, LoopKeepsHeld DEF WakeUp, engine, inputs, life
<1>5. CASE LoopReturns
  BY <1>5, LoopReturnsHeld
<1>6. CASE CloseUpdates
  BY <1>6, CloseUpdatesHeld
<1>7. CASE Outside \/ Tick \/ UNCHANGED vars
  BY <1>7, OthersHeld
<1>8. CASE \E r \in Repo : Answer(r) \/ Poll(r)
  BY <1>8, PollsHeld
<1>. QED BY <1>1, <1>2, <1>3, <1>4, <1>5, <1>6, <1>7, <1>8 DEF Next, Loop

\* engine.go, under its mutex: Held in every state.
LEMMA AlwaysHeld == Spec => []Held
<1>. QED BY InitHeld, NextHeld, PTL DEF Spec

-----------------------------------------------------------------------------
\* A step that spawns a poll is pollDue's, which finds no flag set.
LEMMA SpawnsAreFirst ==
  ASSUME Held, [Next]_vars, NEW r \in Repo, Out(r), poll'[r] = Spawned
  PROVE  poll[r] = Spawned
<1>. USE DEF engine, inputs, loop, life, budget, feed
<1>1. CASE UNCHANGED <<poll>>
  BY <1>1
<1>2. CASE PollDue
  <2>1. r \notin DueNow  BY DueNowIsFree DEF Held, Outs
  <2>. HIDE DEF DueNow
  <2>. QED BY <1>2, <2>1 DEF PollDue
<1>3. CASE \E q \in Repo : Answer(q) \/ Poll(q)
  <2>. PICK q \in Repo : Answer(q) \/ Poll(q)  BY <1>3
  <2>1. PICK stage : poll' = [poll EXCEPT ![q] = stage] /\ stage # Spawned
    <3>1. NoPoll # Spawned /\ (\A e, p : Emitting(e, p) # Spawned)
          /\ \A f : OnWire(f) # Spawned
      BY DEF NoPoll, Spawned, Emitting, OnWire
    <3>. QED BY <3>1 DEF Answer, Poll, AnswerPage, AnswerLast, AnswerFailed,
         AnswerUnreadable, AnswerLimited, Request, Deliver, Abandon, Unchanged, Record, Ends
  <2>2. poll' = [x \in Repo |-> IF x = q THEN stage ELSE poll[x]]  BY <2>1 DEF Held
  <2>. QED BY <2>1, <2>2
<1>4. CASE Next /\ ~PollDue /\ ~(\E q \in Repo : Answer(q) \/ Poll(q))
  <2>1. UNCHANGED poll
    BY <1>4 DEF Next, Loop, Pause, GoToSleep, WakeUp, LoopReturns, CloseUpdates,
       Outside, SetViewport, SetFilter, Classify, Change, OtherTraffic,
       PressureRises, Stop, Tick
  <2>. QED BY <2>1
<1>. QED BY <1>1, <1>2, <1>3, <1>4 DEF vars

\* Whatever the filter, the viewport and the wakes do, no repository is polled
\* twice at once, and when Updates is closed nobody is left to send on it.
THEOREM PollingIsHeld == Spec => PollsAreHeld
<1>1. Held => ClosedLast
  BY DEF Held, ClosedLast, Outs
<1>2. Held /\ [Next]_vars
        => [\A r \in Repo : Out(r) /\ poll'[r] = Spawned => poll[r] = Spawned]_vars
  BY SpawnsAreFirst
<1>. QED BY <1>1, <1>2, AlwaysHeld, PTL DEF Spec, PollsAreHeld, SingleFlight

-----------------------------------------------------------------------------
\* Whatever is in the poll set, on screen and pinned, the two auto-scaled
\* intervals project under the secondary ceiling, priced together.
THEOREM ScheduleIsAffordable == Spec => []ScheduleFits
<1>1. Held => ScheduleFits
  <2>. SUFFICES ASSUME Held  PROVE ScheduleFits  OBVIOUS
  <2>. DEFINE priced == {r \in pollSet : TierOf(r) # "fast"}
              both == priced \cap Prioritised
              n == Cardinality(pollSet)
              m == Cardinality(Prioritised)
              k == Cardinality(both)
              p == Cardinality(priced)
  <2>1. IsFiniteSet(pollSet) /\ IsFiniteSet(Prioritised)
    <3>1. pollSet \in SUBSET Repo /\ Prioritised \in SUBSET Repo
      BY SchedulerAssumption DEF Held, Prioritised
    <3>. QED BY <3>1, SchedulerAssumption, FS_Subset
  <2>2. n \in Nat /\ m \in Nat  BY <2>1, FS_CardinalityType
  <2>3. priced \in SUBSET pollSet /\ both \in SUBSET priced /\ both \in SUBSET Prioritised
    OBVIOUS
  <2>. HIDE DEF priced, both
  <2>4. IsFiniteSet(priced) /\ p <= n  BY <2>1, <2>3, FS_Subset
  <2>5. IsFiniteSet(both) /\ k <= p  BY <2>3, <2>4, FS_Subset
  <2>6. k <= m  BY <2>1, <2>3, FS_Subset
  <2>7. p \in Nat /\ k \in Nat  BY <2>4, <2>5, FS_CardinalityType
  <2>. HIDE DEF n, m, k, p
  <2>8. p - k \in Nat /\ k + (p - k) <= n  BY <2>2, <2>4, <2>5, <2>7
  <2>9. Affordable(k, MediumSetInterval(m, n, WholeSetInterval(n)), p - k, WholeSetInterval(n))
    BY <2>2, <2>6, <2>7, <2>8, ScheduleAffordable
  <2>. QED BY <2>9, Zenon DEF ScheduleFits, BaseOf, SlowBase, priced, both, n, m, k, p
<1>. QED BY <1>1, AlwaysHeld, PTL

-----------------------------------------------------------------------------
(* The demotion episode. *)

\* The Readout's times and the episode's count down to zero and no further.
Episode ==
    [active : BOOLEAN, since : 0..LastTick, left : Nat, frozen : BOOLEAN, stage : Nat]

Timed ==
    /\ reset \in Nat /\ hold \in Nat
    /\ dem \in Episode

\* More of an episode is never an earlier stage.
LEMMA StagesGrow ==
  ASSUME NEW s \in Nat, NEW t \in Nat, s <= t
  PROVE  s \div Dwell <= t \div Dwell /\ s \div Dwell \in Nat
<1>. USE BudgetAssumption
<1>1. Dwell \in Nat \ {0}  OBVIOUS
<1>. QED BY <1>1

\* since is counted up to a number.
LEMMA LastTickType == LastTick \in Nat
<1>. QED BY BudgetAssumption DEF LastTick

\* A stage is a number.
LEMMA StageType ==
  ASSUME Timed
  PROVE  StageAt(dem) \in Nat
<1>1. dem.since \in Nat  BY LastTickType DEF Timed, Episode
<1>2. dem.since \div Dwell \in Nat  BY <1>1, StagesGrow
<1>. QED BY <1>2 DEF StageAt, Timed, Episode

\* No episode and no wait to begin with.
LEMMA InitTimed == Init => Timed
<1>. QED BY LastTickType DEF Init, Timed, Episode, NoEpisode

\* What a Readout does to an episode before its reset.
LEMMA ObservedInside ==
  ASSUME NEW d, NEW pressure, NEW resetIn, d.active, d.left # 0
  PROVE  Observed(d, pressure, resetIn)
           = IF pressure \/ d.frozen THEN d
             ELSE [d EXCEPT !.frozen = TRUE, !.stage = StageAt(d), !.since = 0]
<1>. QED BY Zenon DEF Observed

\* Only the loop's two steps and the clock touch an episode.
LEMMA EpisodeSteps ==
  ASSUME [Next]_vars
  PROVE  UNCHANGED dem \/ PollDue \/ Tick
<1>. QED BY DEF Next, Loop, Pause, GoToSleep, WakeUp, LoopReturns, CloseUpdates,
     Outside, SetViewport, SetFilter, Classify, Change, OtherTraffic, PressureRises,
     Stop, Answer, Poll, AnswerPage, AnswerLast, AnswerFailed, AnswerUnreadable,
     AnswerLimited, Request, Deliver, Abandon, vars, loop

\* Every step keeps the times and the episode in their ranges.
LEMMA NextTimed == Timed /\ [Next]_vars => Timed'
<1>. SUFFICES ASSUME Timed, [Next]_vars  PROVE Timed'  OBVIOUS
<1>1. reset' \in Nat /\ hold' \in Nat
  <2>1. \/ reset' = reset \/ reset' = HoldTicks
        \/ reset' = IF reset > 0 THEN reset - 1 ELSE 0
    BY DEF Next, Loop, Pause, PollDue, GoToSleep, WakeUp,
     LoopReturns, CloseUpdates, Tick, Outside, SetViewport, SetFilter, Classify,
     Change, OtherTraffic, PressureRises, Stop, Answer, Poll, AnswerPage, AnswerLast,
     AnswerFailed, AnswerUnreadable, AnswerLimited, Request, Deliver, Abandon, vars,
     budget
  <2>2. \/ hold' = hold \/ hold' = HoldTicks
        \/ hold' = IF hold > 0 THEN hold - 1 ELSE 0
    BY DEF Next, Loop, Pause, PollDue, GoToSleep, WakeUp,
     LoopReturns, CloseUpdates, Tick, Outside, SetViewport, SetFilter, Classify,
     Change, OtherTraffic, PressureRises, Stop, Answer, Poll, AnswerPage, AnswerLast,
     AnswerFailed, AnswerUnreadable, AnswerLimited, Request, Deliver, Abandon, vars,
     budget
  <2>. QED BY <2>1, <2>2, SchedulerAssumption DEF Timed
<1>2. dem' \in Episode
  <2>1. CASE UNCHANGED dem
    BY <2>1 DEF Timed
  <2>2. CASE PollDue
    <3>1. dem' = Observed(dem, pressed, ResumeIn) /\ ResumeIn \in Nat
      BY <2>2 DEF PollDue, ResumeIn, Timed
    <3>2. StageAt(dem) \in Nat  BY StageType
    <3>3. /\ NoEpisode \in Episode /\ Onset(ResumeIn) \in Episode
          /\ [dem EXCEPT !.frozen = TRUE, !.stage = StageAt(dem), !.since = 0] \in Episode
      <4>1. 0 \in 0..LastTick  BY LastTickType
      <4>. HIDE DEF LastTick
      <4>2. NoEpisode \in Episode  BY <4>1 DEF NoEpisode, Episode
      <4>3. Onset(ResumeIn) \in Episode  BY <3>1, <4>1 DEF Onset, Episode
      <4>4. [dem EXCEPT !.frozen = TRUE, !.stage = StageAt(dem), !.since = 0] \in Episode
        BY <3>2, <4>1 DEF Timed, Episode
      <4>. QED BY <4>2, <4>3, <4>4
    <3>4. CASE dem.left = 0
      <4>1. ~NoEpisode.active  BY DEF NoEpisode
      <4>2. dem' = NoEpisode \/ dem' = Onset(ResumeIn)
        BY <3>1, <3>4, <4>1, Zenon DEF Observed
      <4>. QED BY <3>3, <4>2
    <3>5. CASE dem.left # 0 /\ dem.active
      <4>1. dem' = dem \/ dem' = [dem EXCEPT !.frozen = TRUE, !.stage = StageAt(dem), !.since = 0]
        BY <3>1, <3>5, ObservedInside, Zenon
      <4>. QED BY <3>3, <4>1 DEF Timed
    <3>6. CASE dem.left # 0 /\ ~dem.active
      <4>1. dem' = dem \/ dem' = Onset(ResumeIn)
        BY <3>1, <3>6, Zenon DEF Observed
      <4>. QED BY <3>3, <4>1 DEF Timed
    <3>. QED BY <3>4, <3>5, <3>6
  <2>3. CASE Tick
    <3>. DEFINE since == IF dem.active /\ ~dem.frozen THEN Lesser(dem.since + 1, LastTick)
                         ELSE dem.since
                left == IF dem.left > 0 THEN dem.left - 1 ELSE 0
    <3>1. dem' = [dem EXCEPT !.since = since, !.left = left]  BY <2>3 DEF Tick, Elapsed
    <3>2. since \in 0..LastTick  BY LastTickType DEF Lesser, Timed, Episode
    <3>3. left \in Nat  BY DEF Timed, Episode
    <3>. HIDE DEF since, left
    <3>. QED BY <3>1, <3>2, <3>3 DEF Timed, Episode
  <2>. QED BY <2>1, <2>2, <2>3, EpisodeSteps
<1>. QED BY <1>1, <1>2 DEF Timed

\* observePressureLocked: until its reset an episode goes on, and its stage
\* only grows.
THEOREM EpisodesHold == Spec => NoPromotionInside
<1>. DEFINE Holds == dem.active /\ dem.left > 0
                       => dem'.active /\ StageAt(dem') >= StageAt(dem)
<1>1. Timed /\ [Next]_vars => Holds
  <2>. SUFFICES ASSUME Timed, [Next]_vars, dem.active, dem.left > 0
                PROVE  dem'.active /\ StageAt(dem') >= StageAt(dem)
    OBVIOUS
  <2>1. StageAt(dem) \in Nat  BY StageType
  <2>2. CASE UNCHANGED dem
    BY <2>1, <2>2
  <2>3. CASE PollDue
    <3>1. dem' = Observed(dem, pressed, ResumeIn)  BY <2>3 DEF PollDue
    <3>2. dem.left # 0  BY DEF Timed, Episode
    <3>2a. dem' = dem
            \/ dem' = [dem EXCEPT !.frozen = TRUE, !.stage = StageAt(dem), !.since = 0]
      BY <3>1, <3>2, ObservedInside, Zenon
    <3>3. CASE dem' = dem
      BY <2>1, <3>3
    <3>4. CASE dem' = [dem EXCEPT !.frozen = TRUE, !.stage = StageAt(dem), !.since = 0]
      <4>1. dem'.active /\ dem'.frozen /\ dem'.stage = StageAt(dem)  BY <3>4 DEF Timed, Episode
      <4>2. StageAt(dem') = StageAt(dem)  BY <4>1, Zenon DEF StageAt
      <4>. QED BY <2>1, <4>1, <4>2
    <3>. QED BY <3>2a, <3>3, <3>4
  <2>4. CASE Tick
    <3>1. dem' = Elapsed(dem)  BY <2>4 DEF Tick
    <3>2. CASE dem.frozen
      <4>1. dem'.active /\ dem'.frozen /\ dem'.stage = dem.stage
        BY <3>1, <3>2 DEF Elapsed, Timed, Episode
      <4>2. StageAt(dem) = dem.stage /\ StageAt(dem') = dem.stage
        BY <3>2, <4>1 DEF StageAt
      <4>. QED BY <2>1, <4>1, <4>2
    <3>3. CASE ~dem.frozen
      <4>1. LastTick \in Nat  BY LastTickType
      <4>2. /\ dem'.active /\ ~dem'.frozen
            /\ dem.since \in Nat /\ dem'.since \in Nat /\ dem.since <= dem'.since
        BY <3>1, <3>3, <4>1 DEF Elapsed, Lesser, Timed, Episode
      <4>3. StageAt(dem) = (dem.since \div Dwell) + 1
            /\ StageAt(dem') = (dem'.since \div Dwell) + 1
        BY <3>3, <4>2 DEF StageAt
      <4>4. dem.since \div Dwell <= dem'.since \div Dwell  BY <4>2, StagesGrow
      <4>5. dem.since \div Dwell \in Nat /\ dem'.since \div Dwell \in Nat
        BY <4>2, StagesGrow
      <4>. QED BY <4>2, <4>3, <4>4, <4>5
    <3>. QED BY <3>2, <3>3
  <2>. QED BY <2>2, <2>3, <2>4, EpisodeSteps
<1>2. Timed /\ [Next]_vars => [Holds]_vars
  BY <1>1
<1>3. Spec => []Timed  BY InitTimed, NextTimed, PTL DEF Spec
<1>. QED BY <1>2, <1>3, PTL DEF Spec, NoPromotionInside

-----------------------------------------------------------------------------
(* budget.go: the shift.  A power of two counts the subsets of a finite    *)
(* set, which is how it is known to be a number, and to grow.              *)

\* As many doublings as there are subsets.
LEMMA PowerCounts ==
  ASSUME NEW n \in Nat
  PROVE  IsFiniteSet(SUBSET (1..n)) /\ 2^n = Cardinality(SUBSET (1..n))
<1>1. IsFiniteSet(1..n) /\ Cardinality(1..n) = n
  BY FS_Interval
<1>. QED BY <1>1, FS_SUBSET

\* More doublings never make less.
LEMMA PowersOfTwo ==
  ASSUME NEW m \in Nat, NEW n \in Nat, m <= n
  PROVE  2^m \in Nat \ {0} /\ 2^n \in Nat \ {0} /\ 2^m <= 2^n
<1>. DEFINE S == SUBSET (1..m)
            T == SUBSET (1..n)
<1>1. IsFiniteSet(S) /\ 2^m = Cardinality(S)  BY PowerCounts
<1>2. IsFiniteSet(T) /\ 2^n = Cardinality(T)  BY PowerCounts
<1>3. 1..m \subseteq 1..n  OBVIOUS
<1>4. S \in SUBSET T /\ {} \in S  BY <1>3
<1>. HIDE DEF S, T
<1>5. Cardinality(S) <= Cardinality(T)  BY <1>2, <1>4, FS_Subset
<1>6. Cardinality(S) \in Nat /\ Cardinality(T) \in Nat  BY <1>1, <1>2, FS_CardinalityType
<1>7. Cardinality(S) # 0 /\ Cardinality(T) # 0
  BY <1>1, <1>2, <1>4, FS_EmptySet
<1>. QED BY <1>1, <1>2, <1>5, <1>6, <1>7

\* The shift is clamped, and a less visible tier's is never the smaller.
LEMMA ShiftIsClamped ==
  ASSUME NEW t \in Tier, NEW stage \in Nat
  PROVE  /\ DemoteSteps(t, stage) \in Nat /\ DemoteSteps(t, stage) <= MaxDemoteSteps
         /\ DemoteSteps("medium", stage) <= DemoteSteps("slow", stage)
<1>1. MaxDemoteSteps \in Nat  BY BudgetAssumption
<1>2. DemoteSteps("slow", stage) = Lesser(MaxDemoteSteps, Larger(0, stage))
  BY Zenon DEF DemoteSteps
<1>3. DemoteSteps("medium", stage) = Lesser(MaxDemoteSteps, Larger(0, stage - 1))
  <2>1. "medium" # "slow"  OBVIOUS
  <2>. QED BY <2>1, Zenon DEF DemoteSteps
<1>4. DemoteSteps("fast", stage) = Lesser(MaxDemoteSteps, Larger(0, stage - 2))
  <2>1. "fast" # "slow" /\ "fast" # "medium"  OBVIOUS
  <2>. QED BY <2>1, Zenon DEF DemoteSteps
<1>. QED BY <1>1, <1>2, <1>3, <1>4 DEF Tier, Lesser, Larger

\* A number of so many bits is a number, and itself when it fits.
LEMMA WrappedFits ==
  ASSUME NEW x \in Nat
  PROVE  Wrapped(x) \in Int /\ (x < 2^(Width - 1) => Wrapped(x) = x)
<1>. DEFINE half == 2^(Width - 1)
            all == 2^Width
<1>1. Width - 1 \in Nat /\ Width \in Nat /\ Width - 1 <= Width  BY BudgetAssumption
<1>2. half \in Nat \ {0} /\ all \in Nat \ {0} /\ half <= all  BY <1>1, PowersOfTwo
<1>3. Wrapped(x) = IF x % all < half THEN x % all ELSE (x % all) - all  BY DEF Wrapped
<1>. HIDE DEF half, all
<1>4. x % all \in Nat /\ (x < all => x % all = x)  BY <1>2
<1>5. Wrapped(x) \in Int  BY <1>2, <1>3, <1>4
<1>6. x < half => Wrapped(x) = x
  <2>. SUFFICES ASSUME x < half PROVE Wrapped(x) = x  OBVIOUS
  <2>1. x % all = x  BY <1>2, <1>4
  <2>. QED BY <1>3, <2>1
<1>. QED BY <1>5, <1>6 DEF half

\* A tier's interval is a number.
LEMMA StretchedType ==
  ASSUME NEW t \in Tier, NEW base \in Nat, NEW stage \in Nat
  PROVE  Stretched(t, base, stage) \in Int
<1>1. DemoteSteps(t, stage) \in Nat  BY ShiftIsClamped
<1>2. 2^DemoteSteps(t, stage) \in Nat  BY <1>1, PowersOfTwo
<1>3. base * 2^DemoteSteps(t, stage) \in Nat  BY <1>2
<1>. QED BY <1>3, WrappedFits DEF Stretched

\* intervalForLocked and demoteSteps: with a poll set whose interval, doubled as
\* often as the clamp lets it, is still a number of its width - some eight
\* thousand repositories with the constants of the code -, no interval wraps or
\* falls below its base, and a visible tier waits no longer than a less visible
\* one, however long an episode lasts.
THEOREM IntervalsOnlyStretch ==
  ASSUME Longest < 2^(Width - 1)
  PROVE  IntervalsStretch
<1>. DEFINE top == WholeSetInterval(Cardinality(Repo))
            P == 2^MaxDemoteSteps
<1>1. top \in Nat \ {0}
  BY SchedulerAssumption, FS_CardinalityType, WholeSetKeepsCeiling
<1>2. P \in Nat \ {0} /\ Longest = top * P
  BY BudgetAssumption, PowersOfTwo DEF Longest
<1>3. 2^(Width - 1) \in Nat
  <2>1. Width - 1 \in Nat  BY BudgetAssumption
  <2>. QED BY <2>1, PowersOfTwo
<1>. HIDE DEF top, P
<1>4. ASSUME NEW base \in 1..top, NEW stage \in Nat, NEW t \in Tier
      PROVE  /\ 2^DemoteSteps(t, stage) \in Nat \ {0}
             /\ Stretched(t, base, stage) = base * 2^DemoteSteps(t, stage)
  <2>. DEFINE n == DemoteSteps(t, stage)
              p == 2^n
  <2>1. n \in Nat /\ n <= MaxDemoteSteps /\ MaxDemoteSteps \in Nat
    BY ShiftIsClamped, BudgetAssumption
  <2>. HIDE DEF n
  <2>2. p \in Nat \ {0} /\ p <= P  BY <2>1, PowersOfTwo DEF P
  <2>. HIDE DEF p
  <2>3. base \in Nat /\ base <= top  BY <1>1
  <2>4. base * p <= top * p  BY <1>1, <2>2, <2>3, TimesMonotone
  <2>5. p * top <= P * top  BY <1>1, <1>2, <2>2, TimesMonotone
  <2>6. p * top = top * p /\ P * top = top * P  BY <1>1, <1>2, <2>2
  <2>7. base * p \in Nat /\ top * p \in Nat /\ top * P \in Nat  BY <1>1, <1>2, <2>2, <2>3
  <2>8. base * p < 2^(Width - 1)  BY <1>2, <1>3, <2>4, <2>5, <2>6, <2>7
  <2>9. Wrapped(base * p) = base * p  BY <2>7, <2>8, WrappedFits
  <2>. QED BY <2>2, <2>9 DEF Stretched, n, p
<1>5. ASSUME NEW slow \in 1..top, NEW stage \in Nat, NEW t \in Tier
      PROVE  Stretched(t, slow, stage) >= slow
  <2>. DEFINE p == 2^DemoteSteps(t, stage)
  <2>1. p \in Nat \ {0} /\ Stretched(t, slow, stage) = slow * p  BY <1>4
  <2>. HIDE DEF p
  <2>2. slow \in Nat  BY <1>1
  <2>3. 1 * slow <= p * slow  BY <2>1, <2>2, TimesMonotone
  <2>4. 1 * slow = slow /\ p * slow = slow * p  BY <2>1, <2>2
  <2>. QED BY <2>1, <2>2, <2>3, <2>4
<1>6. ASSUME NEW slow \in 1..top, NEW stage \in Nat, NEW medium \in 1..slow
      PROVE  Stretched("medium", medium, stage) <= Stretched("slow", slow, stage)
  <2>. DEFINE j == DemoteSteps("medium", stage)
              k == DemoteSteps("slow", stage)
              p == 2^j
              q == 2^k
  <2>1. "medium" \in Tier /\ "slow" \in Tier  BY DEF Tier
  <2>2. medium \in 1..top /\ medium \in Nat /\ slow \in Nat /\ medium <= slow  BY <1>1
  <2>3. /\ Stretched("medium", medium, stage) = medium * p
        /\ Stretched("slow", slow, stage) = slow * q
    BY <1>4, <2>1, <2>2
  <2>4. j \in Nat /\ k \in Nat /\ j <= k  BY <2>1, ShiftIsClamped
  <2>. HIDE DEF j, k
  <2>5. p \in Nat /\ q \in Nat /\ p <= q  BY <2>4, PowersOfTwo
  <2>. HIDE DEF p, q
  <2>6. medium * p <= slow * p  BY <2>2, <2>5, TimesMonotone
  <2>7. p * slow <= q * slow  BY <2>2, <2>5, TimesMonotone
  <2>8. p * slow = slow * p /\ q * slow = slow * q  BY <2>2, <2>5
  <2>9. medium * p \in Nat /\ slow * p \in Nat /\ slow * q \in Nat  BY <2>2, <2>5
  <2>. QED BY <2>3, <2>6, <2>7, <2>8, <2>9
<1>7. ASSUME NEW stage \in 0..(2 * Width)  PROVE stage \in Nat
  BY BudgetAssumption
<1>. QED BY <1>5, <1>6, <1>7 DEF IntervalsStretch, top

\* The three together: the schedule stays within its budget.
THEOREM BudgetIsKept ==
  ASSUME Longest < 2^(Width - 1)
  PROVE  Spec => BudgetKept
<1>1. IntervalsStretch  BY IntervalsOnlyStretch
<1>2. ScheduleFits => ScheduleFits /\ IntervalsStretch  BY <1>1
<1>. QED BY <1>2, ScheduleIsAffordable, EpisodesHold, PTL DEF BudgetKept

-----------------------------------------------------------------------------
(* The types. *)

\* A set of numbers has a least.
LEMMA LeastNumber ==
  ASSUME NEW S \in SUBSET Nat, S # {}
  PROVE  \E w \in S : \A v \in S : w <= v
<1>. DEFINE Below == {ss \in Nat \X Nat : ss[1] < ss[2]}
<1>1. IsWellFoundedOn(Below, Nat)
  BY NatLessThanWellFounded, Zenon DEF OpToRel
<1>. HIDE DEF Below
<1>2. PICK w \in S : \A v \in S : <<v, w>> \notin Below
  BY <1>1, WFMin
<1>3. \A v \in Nat : v < w => <<v, w>> \in Below  BY DEF Below
<1>. HIDE DEF Below
<1>4. ASSUME NEW v \in S  PROVE w <= v
  <2>1. v \in Nat /\ w \in Nat /\ ~(v < w)  BY <1>2, <1>3
  <2>. QED BY <2>1
<1>. QED BY <1>4

\* The medium tier's base is a number.
LEMMA MediumType ==
  ASSUME NEW m \in Nat, NEW n \in Nat, NEW s \in Nat \ {0}
  PROVE  MediumSetInterval(m, n, s) \in Nat
<1>. DEFINE rest == Larger(n - m, 0)
            headroom == Ceiling * s - Window * rest
            c == CeilDiv(Window * m * s, headroom)
<1>1. Medium \in Nat /\ Ceiling \in Nat /\ Window \in Nat  BY BudgetAssumption
<1>2. rest \in Nat  BY DEF Larger
<1>. HIDE DEF rest
<1>3. headroom \in Int  BY <1>1, <1>2
<1>. HIDE DEF headroom
<1>4. headroom > 0 => c \in Nat
  <2>1. Window * m * s \in Nat  BY <1>1
  <2>. QED BY <1>3, <2>1, CeilDivCovers
<1>. HIDE DEF c
<1>5. MediumSetInterval(m, n, s) \in {Medium, s}
        \/ (~(headroom <= 0) /\ MediumSetInterval(m, n, s) = Lesser(s, Larger(Medium, c)))
  BY Zenon DEF MediumSetInterval, headroom, c, rest
<1>. QED BY <1>1, <1>3, <1>4, <1>5 DEF Lesser, Larger

\* Every interval is a number of ticks.
LEMMA IntervalType ==
  ASSUME Held, Timed, NEW r
  PROVE  Interval(r, dem) \in Int
<1>. DEFINE n == Cardinality(pollSet)
            m == Cardinality(Prioritised)
<1>1. n \in Nat /\ m \in Nat
  <2>1. pollSet \in SUBSET Repo /\ Prioritised \in SUBSET Repo
    BY SchedulerAssumption DEF Held, Prioritised
  <2>2. IsFiniteSet(pollSet) /\ IsFiniteSet(Prioritised)
    BY <2>1, SchedulerAssumption, FS_Subset
  <2>. QED BY <2>2, FS_CardinalityType
<1>2. SlowBase \in Nat \ {0}  BY <1>1, WholeSetKeepsCeiling DEF SlowBase
<1>3. TierOf(r) \in Tier  BY DEF TierOf, Tier
<1>4. MediumSetInterval(m, n, SlowBase) \in Nat  BY <1>1, <1>2, MediumType
<1>. HIDE DEF n, m
<1>5. BaseOf(TierOf(r)) \in Nat
  <2>1. CASE TierOf(r) = "fast"
    <3>1. "fast" # "slow" /\ "fast" # "medium"  OBVIOUS
    <3>2. BaseOf("fast") = Fast  BY <3>1, Zenon DEF BaseOf
    <3>. QED BY <2>1, <3>2, BudgetAssumption
  <2>2. CASE TierOf(r) = "medium"
    <3>1. "medium" # "slow" /\ "fast" # "medium"  OBVIOUS
    <3>2. BaseOf("medium") = MediumSetInterval(m, n, SlowBase)  BY <3>1, Zenon DEF BaseOf, m, n
    <3>. QED BY <2>2, <3>2, <1>4
  <2>3. CASE TierOf(r) = "slow"
    <3>1. "medium" # "slow" /\ "fast" # "slow"  OBVIOUS
    <3>2. BaseOf("slow") = SlowBase  BY <3>1, Zenon DEF BaseOf
    <3>. QED BY <2>3, <3>2, <1>2
  <2>. QED BY <1>3, <2>1, <2>2, <2>3 DEF Tier
<1>. QED BY <1>3, <1>5, StageType, StretchedType DEF Interval

\* What is left of the longest interval is a number too.
LEMMA LongestType == Longest \in Nat
<1>1. Cardinality(Repo) \in Nat  BY SchedulerAssumption, FS_CardinalityType
<1>2. WholeSetInterval(Cardinality(Repo)) \in Nat /\ 2^MaxDemoteSteps \in Nat
  BY <1>1, WholeSetKeepsCeiling, PowersOfTwo, BudgetAssumption
<1>. QED BY <1>2 DEF Longest

\* nextWait is a number of ticks.
LEMMA NextWaitType ==
  ASSUME Held, Timed, age \in [Repo -> {Never} \cup 0..Longest]
  PROVE  NextWait \in Nat
<1>. DEFINE waitedFor == {r \in ScheduleSet : ~(r \in inFlight /\ Due(r, dem))}
            D == {DueIn(r) : r \in waitedFor}
<1>1. waitedFor \subseteq Repo  BY SchedulerAssumption DEF Held, ScheduleSet
<1>2. ASSUME NEW r \in Repo  PROVE DueIn(r) \in Nat
  <2>1. Interval(r, dem) \in Int  BY IntervalType
  <2>2. age[r] = Never \/ age[r] \in Nat  BY LongestType
  <2>. HIDE DEF Interval
  <2>. QED BY <2>1, <2>2 DEF DueIn, Due
<1>3. CASE waitedFor = {}
  <2>1. NextWait = Fast  BY <1>3 DEF NextWait
  <2>. QED BY <2>1, BudgetAssumption
<1>4. CASE waitedFor # {}
  <2>1. NextWait = CHOOSE w \in D : \A r \in waitedFor : w <= DueIn(r)
    BY <1>4 DEF NextWait
  <2>2. D \in SUBSET Nat /\ D # {}  BY <1>1, <1>2, <1>4
  <2>3. \E w \in D : \A v \in D : w <= v
    <3>. HIDE DEF D
    <3>. QED BY <2>2, LeastNumber
  <2>4. \E w \in D : \A r \in waitedFor : w <= DueIn(r)
    <3>. HIDE DEF waitedFor, DueIn
    <3>. QED BY <2>3
  <2>. HIDE DEF waitedFor, D, NextWait, DueIn
  <2>5. NextWait \in D  BY <2>1, <2>4
  <2>. QED BY <2>2, <2>5
<1>. QED BY <1>3, <1>4

\* An episode holds no longer than a reset, and freezes at a stage it can reach.
ShortEpisode ==
    [active : BOOLEAN, since : 0..LastTick, left : 0..HoldTicks, frozen : BOOLEAN,
     stage : 0..(MaxDemoteSteps + 2)]

\* What counts ticks, each up to its bound.
Clocked ==
    /\ age \in [Repo -> {Never} \cup 0..Longest]
    /\ sleep \in Nat
    /\ reset \in 0..HoldTicks /\ hold \in 0..HoldTicks
    /\ pressed \in BOOLEAN /\ (pressed => reset > 0)
    /\ dem \in ShortEpisode

\* The flags, the loop's place and the events so far.
Flagged ==
    /\ paused \in BOOLEAN /\ wake \in BOOLEAN /\ primed \in BOOLEAN
    /\ quit \in BOOLEAN /\ closed \in BOOLEAN /\ classified \in BOOLEAN
    /\ spent \in BOOLEAN
    /\ at \in {"top", "wait", "asleep", "returned"}
    /\ events \in 0..MaxEvents

\* What is remembered, on its way and shown are pages of a filter there is.
PollStage ==
    {NoPoll, Spawned} \cup {OnWire(f) : f \in Filter}
      \cup {Emitting("update", p) : p \in Pages} \cup {Emitting("failed", NoPage)}
Paged ==
    /\ lastETag \in [Repo -> Pages \cup {NoPage}]
    /\ lastRuns \in [Repo -> Pages \cup {NoPage}]
    /\ filt \in Filter
    /\ poll \in [Repo -> PollStage]
    /\ version \in [Repo -> Version]
    /\ shown \in [Repo -> Pages \cup {NoPage}]
    /\ failed \subseteq Repo

\* Bounded times are times.
LEMMA ClockedIsTimed == Clocked => Timed
<1>1. HoldTicks \in Nat /\ MaxDemoteSteps \in Nat  BY SchedulerAssumption, BudgetAssumption
<1>. QED BY <1>1 DEF Clocked, Timed, ShortEpisode, Episode

\* An episode's stage is one of those it can freeze at.
LEMMA StageIsReachable ==
  ASSUME Clocked
  PROVE  StageAt(dem) \in 0..(MaxDemoteSteps + 2)
<1>1. MaxDemoteSteps \in Nat /\ Dwell \in Nat \ {0} /\ LastTick \in Nat
  BY BudgetAssumption, LastTickType
<1>2. dem.since \in Nat /\ dem.since <= LastTick  BY <1>1 DEF Clocked, ShortEpisode
<1>3. LastTick \div Dwell = MaxDemoteSteps + 1
  <2>. DEFINE k == MaxDemoteSteps + 1
  <2>1. k \in Nat /\ LastTick = Dwell * k  BY <1>1 DEF LastTick
  <2>. HIDE DEF k
  <2>2. (Dwell * k) \div Dwell = k  BY <1>1, <2>1
  <2>. QED BY <2>1, <2>2 DEF k
<1>4. dem.since \div Dwell \in Nat /\ dem.since \div Dwell <= MaxDemoteSteps + 1
  BY <1>1, <1>2, <1>3, StagesGrow
<1>. QED BY <1>1, <1>4 DEF StageAt, Clocked, ShortEpisode

\* The loop's read of the Readout.
LEMMA PollDueClocked ==
  ASSUME Clocked, PollDue
  PROVE  Clocked'
<1>1. LastTick \in Nat /\ Longest \in Nat /\ HoldTicks \in Nat /\ MaxDemoteSteps \in Nat
  BY LastTickType, LongestType, SchedulerAssumption, BudgetAssumption
<1>2. dem' \in ShortEpisode
  <2>1. dem' = Observed(dem, pressed, ResumeIn) /\ ResumeIn \in 0..HoldTicks
    BY DEF PollDue, ResumeIn, Clocked
  <2>2. StageAt(dem) \in 0..(MaxDemoteSteps + 2)  BY StageIsReachable
  <2>. DEFINE iced == [dem EXCEPT !.frozen = TRUE, !.stage = StageAt(dem), !.since = 0]
  <2>3. /\ NoEpisode \in ShortEpisode /\ Onset(ResumeIn) \in ShortEpisode
        /\ iced \in ShortEpisode
    <3>1. 0 \in 0..LastTick /\ 0 \in 0..HoldTicks /\ 0 \in 0..(MaxDemoteSteps + 2)  BY <1>1
    <3>. HIDE DEF LastTick
    <3>2. NoEpisode \in ShortEpisode  BY <3>1 DEF NoEpisode, ShortEpisode
    <3>3. Onset(ResumeIn) \in ShortEpisode  BY <2>1, <3>1 DEF Onset, ShortEpisode
    <3>4. iced \in ShortEpisode  BY <2>2, <3>1 DEF Clocked, ShortEpisode
    <3>. QED BY <3>2, <3>3, <3>4
  <2>4. dem' \in {dem, NoEpisode, Onset(ResumeIn), iced}
    <3>. HIDE DEF iced
    <3>1. CASE dem.left = 0
      <4>1. ~NoEpisode.active  BY DEF NoEpisode
      <4>2. dem' = NoEpisode \/ dem' = Onset(ResumeIn)
        BY <2>1, <3>1, <4>1, Zenon DEF Observed
      <4>. QED BY <4>2
    <3>2. CASE dem.left # 0 /\ dem.active
      <4>1. dem' = dem \/ dem' = iced
        BY <2>1, <3>2, ObservedInside, Zenon DEF iced
      <4>. QED BY <4>1
    <3>3. CASE dem.left # 0 /\ ~dem.active
      <4>1. dem' = dem \/ dem' = Onset(ResumeIn)
        BY <2>1, <3>3, Zenon DEF Observed
      <4>. QED BY <4>1
    <3>. QED BY <3>1, <3>2, <3>3
  <2>. QED BY <2>3, <2>4 DEF Clocked
<1>3. age' \in [Repo -> {Never} \cup 0..Longest]
  <2>1. age' = [r \in Repo |-> IF r \in DueNow THEN 0 ELSE age[r]] /\ 0 \in 0..Longest
    BY <1>1 DEF PollDue
  <2>. HIDE DEF DueNow
  <2>. QED BY <2>1 DEF Clocked
<1>4. UNCHANGED <<sleep, reset, hold, pressed>>  BY DEF PollDue, budget
<1>. QED BY <1>2, <1>3, <1>4 DEF Clocked

\* A tick.
LEMMA TickClocked ==
  ASSUME Clocked, Tick
  PROVE  Clocked'
<1>1. LastTick \in Nat /\ Longest \in Nat /\ HoldTicks \in Nat /\ MaxDemoteSteps \in Nat
  BY LastTickType, LongestType, SchedulerAssumption, BudgetAssumption
<1>2. age' \in [Repo -> {Never} \cup 0..Longest]
  <2>1. age' = [r \in Repo |->
                 IF age[r] = Never THEN Never ELSE Lesser(age[r] + 1, Longest)]
    BY DEF Tick
  <2>2. ASSUME NEW r \in Repo, age[r] # Never  PROVE Lesser(age[r] + 1, Longest) \in 0..Longest
    BY <1>1, <2>2 DEF Clocked, Lesser
  <2>. QED BY <2>1, <2>2
<1>3. sleep' \in Nat  BY DEF Tick, Clocked
<1>4. hold' \in 0..HoldTicks /\ reset' \in 0..HoldTicks  BY <1>1 DEF Tick, Clocked
<1>5. pressed' \in BOOLEAN /\ (pressed' => reset' > 0)
  <2>1. pressed' = FALSE \/ pressed' = (pressed /\ reset > 1)  BY DEF Tick
  <2>2. CASE pressed' = FALSE  BY <2>2
  <2>3. CASE pressed' = (pressed /\ reset > 1)
    <3>1. reset > 1 => reset' > 0  BY DEF Tick, Clocked
    <3>. QED BY <2>3, <3>1
  <2>. QED BY <2>1, <2>2, <2>3
<1>6. dem' \in ShortEpisode
  <2>. DEFINE since == IF dem.active /\ ~dem.frozen THEN Lesser(dem.since + 1, LastTick)
                       ELSE dem.since
              left == IF dem.left > 0 THEN dem.left - 1 ELSE 0
  <2>1. dem' = [dem EXCEPT !.since = since, !.left = left]  BY DEF Tick, Elapsed
  <2>2. since \in 0..LastTick  BY <1>1 DEF Lesser, Clocked, ShortEpisode
  <2>3. left \in 0..HoldTicks  BY <1>1 DEF Clocked, ShortEpisode
  <2>. HIDE DEF since, left
  <2>. QED BY <2>1, <2>2, <2>3 DEF Clocked, ShortEpisode
<1>. QED BY <1>2, <1>3, <1>4, <1>5, <1>6 DEF Clocked

\* Every step keeps what counts ticks in its bounds.
LEMMA NextClocked ==
  ASSUME Held, Clocked, [Next]_vars
  PROVE  Clocked'
<1>. USE DEF engine, inputs, loop, budget
<1>1. HoldTicks \in Nat \ {0} /\ Slow \in Nat  BY SchedulerAssumption, BudgetAssumption
<1>2. CASE UNCHANGED <<age, sleep, reset, hold, pressed, dem>>
  BY <1>2 DEF Clocked
<1>3. CASE Pause
  <2>1. UNCHANGED <<age, reset, hold, pressed, dem>> /\ sleep' = UntilResume
    BY <1>3 DEF Pause
  <2>2. UntilResume \in Nat  BY <1>1 DEF UntilResume, ResumeIn, Clocked
  <2>. QED BY <2>1, <2>2 DEF Clocked
<1>4. CASE PollDue  BY <1>4, PollDueClocked
<1>5. CASE GoToSleep
  <2>1. UNCHANGED <<age, reset, hold, pressed, dem>> /\ sleep' = NextWait
    BY <1>5 DEF GoToSleep
  <2>2. NextWait \in Nat  BY ClockedIsTimed, NextWaitType DEF Clocked
  <2>. QED BY <2>1, <2>2 DEF Clocked
<1>6. CASE WakeUp
  <2>1. UNCHANGED <<age, reset, hold, pressed, dem>> /\ sleep' = 0
    BY <1>6 DEF WakeUp
  <2>. QED BY <2>1 DEF Clocked
<1>7. CASE Tick  BY <1>7, TickClocked
<1>8. CASE \E f \in Filter : SetFilter(f)
  <2>1. UNCHANGED <<sleep, reset, hold, pressed, dem>> /\ age' = [r \in Repo |-> Never]
    BY <1>8 DEF SetFilter
  <2>. QED BY <2>1 DEF Clocked
<1>9. CASE PressureRises
  <2>1. /\ UNCHANGED <<age, sleep, hold, dem>> /\ pressed' = TRUE
        /\ reset' = IF reset > 0 THEN reset ELSE HoldTicks
    BY <1>9 DEF PressureRises
  <2>2. reset' \in 0..HoldTicks /\ reset' > 0  BY <1>1, <2>1 DEF Clocked
  <2>. QED BY <2>1, <2>2 DEF Clocked
<1>10. CASE \E r \in Repo : AnswerLast(r)
  <2>1. UNCHANGED <<age, sleep, hold, pressed, dem>> /\ reset' = HoldTicks
    BY <1>10 DEF AnswerLast
  <2>2. HoldTicks \in 0..HoldTicks /\ HoldTicks > 0  BY <1>1
  <2>. QED BY <2>1, <2>2 DEF Clocked
<1>11. CASE \E r \in Repo : AnswerLimited(r)
  <2>1. UNCHANGED <<age, sleep, reset, pressed, dem>> /\ hold' = HoldTicks
    BY <1>11 DEF AnswerLimited
  <2>2. HoldTicks \in 0..HoldTicks  BY <1>1
  <2>. QED BY <2>1, <2>2 DEF Clocked
<1>12. CASE LoopReturns \/ CloseUpdates \/ OtherTraffic \/ Stop \/ UNCHANGED vars
  BY <1>12, <1>2 DEF LoopReturns, CloseUpdates, OtherTraffic, Stop, vars
<1>13. CASE \/ \E S \in SUBSET Repo : SetViewport(S)
             \/ \E r \in Repo : Classify(r) \/ Change(r)
  BY <1>13, <1>2 DEF SetViewport, Classify, Change
<1>14. CASE \E r \in Repo : AnswerPage(r) \/ AnswerFailed(r) \/ AnswerUnreadable(r) \/ Poll(r)
  BY <1>14, <1>2 DEF AnswerPage, AnswerFailed, AnswerUnreadable, Poll, Request, Deliver, Abandon
<1>. QED BY <1>3, <1>4, <1>5, <1>6, <1>7, <1>8, <1>9, <1>10, <1>11, <1>12, <1>13, <1>14
  DEF Next, Loop, Outside, Answer

\* Every step keeps the flags flags.
LEMMA NextFlagged ==
  ASSUME Flagged, [Next]_vars
  PROVE  Flagged'
<1>. USE DEF engine, inputs, loop, life, budget, feed
<1>. DEFINE flags == <<paused, wake, primed, quit, closed, classified, spent, at>>
<1>1. events' \in 0..MaxEvents
  <2>1. events' = events \/ (events < MaxEvents /\ events' = events + 1)
    BY DEF Next, Loop, Pause, PollDue, GoToSleep, WakeUp, LoopReturns, CloseUpdates, Tick,
       Outside, SetViewport, SetFilter, Classify, Change, OtherTraffic, PressureRises, Stop,
       Answer, Poll, AnswerPage, AnswerLast, AnswerFailed, AnswerUnreadable, AnswerLimited,
       Request, Deliver, Abandon, vars
  <2>. QED BY <2>1, SchedulerAssumption DEF Flagged
<1>2. CASE UNCHANGED flags
  BY <1>1, <1>2 DEF Flagged
<1>3. CASE Loop
  BY <1>1, <1>3 DEF Flagged, Loop, Pause, PollDue, GoToSleep, WakeUp, LoopReturns
<1>4. CASE Outside
  <2>1. CASE \E S \in SUBSET Repo : SetViewport(S)
    BY <1>1, <2>1 DEF Flagged, SetViewport
  <2>2. CASE \E f \in Filter : SetFilter(f)
    BY <1>1, <2>2 DEF Flagged, SetFilter
  <2>3. CASE \E r \in Repo : Classify(r)
    BY <1>1, <2>3 DEF Flagged, Classify
  <2>4. CASE \E r \in Repo : Change(r)
    BY <1>2, <2>4 DEF Change
  <2>5. CASE OtherTraffic \/ PressureRises \/ Stop
    BY <1>1, <2>5 DEF Flagged, OtherTraffic, PressureRises, Stop
  <2>. QED BY <1>4, <2>1, <2>2, <2>3, <2>4, <2>5 DEF Outside
<1>5. CASE Tick  BY <1>2, <1>5 DEF Tick
<1>6. CASE CloseUpdates  BY <1>1, <1>6 DEF Flagged, CloseUpdates
<1>7. ASSUME NEW r \in Repo, Answer(r) \/ Poll(r)  PROVE Flagged'
  <2>1. UNCHANGED <<paused, quit, closed, classified, at>>
    BY <1>7 DEF Answer, Poll, AnswerPage, AnswerLast, AnswerFailed, AnswerUnreadable,
       AnswerLimited, Request, Deliver, Abandon
  <2>2. spent' \in BOOLEAN
    BY <1>7 DEF Flagged, Answer, Poll, AnswerPage, AnswerLast, AnswerFailed, AnswerUnreadable,
       AnswerLimited, Request, Deliver, Abandon
  <2>3. \/ UNCHANGED <<primed, wake>>
        \/ \E waking \in BOOLEAN : Ends(r, waking)
        \/ Record(r)
    BY <1>7 DEF Answer, Poll, AnswerPage, AnswerLast, AnswerFailed, AnswerUnreadable,
       AnswerLimited, Request, Deliver, Abandon, Unchanged
  <2>4. primed' \in BOOLEAN /\ wake' \in BOOLEAN
    <3>1. CASE UNCHANGED <<primed, wake>>  BY <3>1 DEF Flagged
    <3>2. CASE Record(r)  BY <3>2 DEF Flagged, Record
    <3>3. CASE \E waking \in BOOLEAN : Ends(r, waking)  BY <3>3 DEF Flagged, Ends
    <3>. QED BY <2>3, <3>1, <3>2, <3>3
  <2>. QED BY <1>1, <2>1, <2>2, <2>4 DEF Flagged
<1>8. CASE UNCHANGED vars  BY <1>2, <1>8 DEF vars
<1>. QED BY <1>3, <1>4, <1>5, <1>6, <1>7, <1>8 DEF Next

\* A poll on the wire reads a listing, and one that sends an Update has its page.
LEMMA ListingIsPage ==
  ASSUME Paged, NEW r \in Repo
  PROVE  /\ poll[r].at = "wire" => Listing(r) \in Pages
         /\ poll[r].at = "emit" /\ poll[r].event = "update" => poll[r].page \in Pages
<1>1. poll[r] \in PollStage /\ version[r] \in Version  BY DEF Paged
<1>2. NoPoll.at = "none" /\ Spawned.at = "start"  BY DEF NoPoll, Spawned
<1>3. \A f : OnWire(f).at = "wire" /\ OnWire(f).filter = f  BY DEF OnWire
<1>4. \A e, p : /\ Emitting(e, p).at = "emit" /\ Emitting(e, p).event = e
                /\ Emitting(e, p).page = p
  BY DEF Emitting
<1>. HIDE DEF NoPoll, Spawned, OnWire, Emitting, Pages
<1>5. poll[r].at = "wire" => poll[r].filter \in Filter
  BY <1>1, <1>2, <1>3, <1>4 DEF PollStage
<1>6. poll[r].at = "emit" /\ poll[r].event = "update" => poll[r].page \in Pages
  BY <1>1, <1>2, <1>3, <1>4 DEF PollStage
<1>7. \A f \in Filter, v \in Version : Page[f][v] \in Pages  BY SchedulerAssumption
<1>. QED BY <1>1, <1>5, <1>6, <1>7 DEF Listing

\* A poll that goes to a stage, with nothing else of the pages changed.
LEMMA StageIsPaged ==
  ASSUME Paged, NEW r \in Repo, NEW stage \in PollStage, poll' = [poll EXCEPT ![r] = stage],
         UNCHANGED <<lastETag, lastRuns, filt, version, shown, failed>>
  PROVE  Paged'
<1>. HIDE DEF PollStage, Pages, Version
<1>. QED BY DEF Paged

\* Every step keeps the pages pages.
LEMMA NextPaged ==
  ASSUME Held, Paged, [Next]_vars
  PROVE  Paged'
<1>. USE DEF engine, inputs, loop, life, budget, feed
<1>1. /\ NoPoll \in PollStage /\ Spawned \in PollStage
      /\ Emitting("failed", NoPage) \in PollStage
      /\ \A f \in Filter : OnWire(f) \in PollStage
      /\ \A p \in Pages : Emitting("update", p) \in PollStage
  BY DEF PollStage
<1>. HIDE DEF PollStage, Pages, Version
<1>2. CASE UNCHANGED <<lastETag, lastRuns, filt, poll, version, shown, failed>>
  BY <1>2 DEF Paged
<1>3. CASE PollDue
  <2>1. poll' = [r \in Repo |-> IF r \in DueNow THEN Spawned ELSE poll[r]]
        /\ UNCHANGED <<lastETag, lastRuns, filt, version, shown, failed>>
    BY <1>3 DEF PollDue
  <2>. HIDE DEF DueNow
  <2>2. poll' \in [Repo -> PollStage]  BY <1>1, <2>1 DEF Paged
  <2>. QED BY <2>1, <2>2 DEF Paged
<1>4. CASE Pause \/ GoToSleep \/ WakeUp \/ LoopReturns \/ Tick \/ CloseUpdates \/ UNCHANGED vars
  BY <1>2, <1>4 DEF Pause, GoToSleep, WakeUp, LoopReturns, Tick, CloseUpdates, vars
<1>5. CASE Outside
  <2>1. ASSUME NEW f \in Filter, SetFilter(f)  PROVE Paged'
    BY <2>1 DEF SetFilter, Paged
  <2>2. ASSUME NEW r \in Repo, Change(r)  PROVE Paged'
    <3>1. version[r] \in 0..MaxVersion /\ MaxVersion \in Nat
      BY SchedulerAssumption DEF Paged, Version
    <3>2. version' = [version EXCEPT ![r] = @ + 1] /\ version[r] + 1 \in Version
      BY <2>2, <3>1 DEF Change, Version
    <3>3. version' \in [Repo -> Version]  BY <3>2 DEF Paged
    <3>. QED BY <2>2, <3>3 DEF Change, Paged
  <2>3. ASSUME NEW S, SetViewport(S)  PROVE Paged'
    BY <1>2, <2>3 DEF SetViewport
  <2>4. ASSUME NEW r \in Repo, Classify(r)  PROVE Paged'
    BY <1>2, <2>4 DEF Classify
  <2>5. ASSUME OtherTraffic \/ PressureRises \/ Stop  PROVE Paged'
    BY <1>2, <2>5 DEF OtherTraffic, PressureRises, Stop
  <2>. QED BY <1>5, <2>1, <2>2, <2>3, <2>4, <2>5, Zenon DEF Outside
<1>6. ASSUME NEW r \in Repo, Answer(r) \/ Poll(r)  PROVE Paged'
  <2>. DEFINE rest == <<lastETag, lastRuns, filt, version, shown, failed>>
  <2>1. CASE Request(r)
    <3>1. poll' = [poll EXCEPT ![r] = OnWire(filt)] /\ UNCHANGED rest
      BY <2>1 DEF Request
    <3>2. OnWire(filt) \in PollStage  BY <1>1 DEF Paged
    <3>. QED BY <3>1, <3>2, StageIsPaged
  <2>2. CASE AnswerFailed(r) \/ AnswerUnreadable(r)
    <3>1. poll' = [poll EXCEPT ![r] = Emitting("failed", NoPage)] /\ UNCHANGED rest
      BY <2>2 DEF AnswerFailed, AnswerUnreadable
    <3>. QED BY <1>1, <3>1, StageIsPaged
  <2>3. CASE AnswerLimited(r) \/ Abandon(r) \/ ((AnswerPage(r) \/ AnswerLast(r)) /\ Unchanged(r))
    <3>1. poll' = [poll EXCEPT ![r] = NoPoll] /\ UNCHANGED rest
      BY <2>3 DEF AnswerLimited, Abandon, AnswerPage, AnswerLast, Unchanged, Ends
    <3>. QED BY <1>1, <3>1, StageIsPaged
  <2>4. CASE (AnswerPage(r) \/ AnswerLast(r)) /\ Record(r)
    <3>1. Listing(r) \in Pages
      BY <2>4, ListingIsPage DEF AnswerPage, AnswerLast
    <3>2. /\ lastRuns' = [lastRuns EXCEPT ![r] = Listing(r)]
          /\ lastETag' = [lastETag EXCEPT ![r] = Listing(r)]
          /\ poll' = [poll EXCEPT ![r] = Emitting("update", Listing(r))]
          /\ UNCHANGED <<filt, version, shown, failed>>
      BY <2>4 DEF AnswerPage, AnswerLast, Record
    <3>3. Emitting("update", Listing(r)) \in PollStage  BY <1>1, <3>1
    <3>. HIDE DEF Emitting, Listing
    <3>. QED BY <3>1, <3>2, <3>3 DEF Paged
  <2>5. CASE Deliver(r)
    <3>1. poll' = [poll EXCEPT ![r] = NoPoll] /\ UNCHANGED <<lastETag, lastRuns, filt, version>>
      BY <2>5 DEF Deliver, Ends
    <3>2. shown' \in [Repo -> Pages \cup {NoPage}] /\ failed' \subseteq Repo
      <4>1. CASE poll[r].event = "update" /\ shown' = [shown EXCEPT ![r] = poll[r].page]
                  /\ failed' = failed \ {r}
        <5>1. poll[r].page \in Pages  BY <2>5, <4>1, ListingIsPage DEF Deliver
        <5>. QED BY <4>1, <5>1 DEF Paged
      <4>2. CASE failed' = failed \cup {r} /\ UNCHANGED shown
        BY <4>2 DEF Paged
      <4>. QED BY <2>5, <4>1, <4>2 DEF Deliver
    <3>3. poll' \in [Repo -> PollStage]  BY <1>1, <3>1 DEF Paged
    <3>. QED BY <3>1, <3>2, <3>3 DEF Paged
  <2>. QED BY <1>6, <2>1, <2>2, <2>3, <2>4, <2>5 DEF Answer, Poll, AnswerPage, AnswerLast
<1>. QED BY <1>3, <1>4, <1>5, <1>6 DEF Next, Loop

\* Nothing is polled, spent or shown to begin with.
LEMMA InitTyped == Init => Clocked /\ Flagged /\ Paged
<1>. SUFFICES ASSUME Init  PROVE Clocked /\ Flagged /\ Paged  OBVIOUS
<1>1. LastTick \in Nat /\ HoldTicks \in Nat /\ MaxDemoteSteps \in Nat /\ MaxEvents \in Nat
      /\ MaxVersion \in Nat
  BY LastTickType, SchedulerAssumption, BudgetAssumption
<1>2. Clocked
  <2>1. 0 \in 0..LastTick /\ 0 \in 0..HoldTicks /\ 0 \in 0..(MaxDemoteSteps + 2)  BY <1>1
  <2>. HIDE DEF LastTick
  <2>. QED BY <2>1 DEF Init, Clocked, ShortEpisode, NoEpisode
<1>3. Flagged
  <2>1. primed \in BOOLEAN /\ classified \in BOOLEAN  BY DEF Init
  <2>2. events \in 0..MaxEvents  BY <1>1 DEF Init
  <2>3. /\ paused = FALSE /\ wake = FALSE /\ quit = FALSE /\ closed = FALSE
        /\ spent = FALSE /\ at = "top"
    BY DEF Init
  <2>. QED BY <2>1, <2>2, <2>3 DEF Flagged
<1>4. Paged
  <2>1. NoPoll \in PollStage /\ 0 \in Version  BY <1>1 DEF PollStage, Version
  <2>. HIDE DEF PollStage, Version, Pages
  <2>. QED BY <2>1, SchedulerAssumption DEF Init, Paged
<1>. QED BY <1>2, <1>3, <1>4

\* The state has the shape the Go types give it: no clock leaves its bounds, no
\* age outlives the longest interval, the WaitGroup counts the goroutines that
\* still run, and what is remembered or shown is a listing of some filter.
THEOREM SchedulerTypes == Spec => []TypeOK
<1>. DEFINE Inv == Held /\ Clocked /\ Flagged /\ Paged
<1>1. Init => Inv  BY InitHeld, InitTyped
<1>2. Inv /\ [Next]_vars => Inv'  BY NextHeld, NextClocked, NextFlagged, NextPaged
<1>3. Inv => TypeOK
  BY DEF Held, Clocked, Flagged, Paged, TypeOK, Outs, Running, ShortEpisode, PollStage
<1>. QED BY <1>1, <1>2, <1>3, PTL DEF Spec
==============================================================================
