------------------------------ MODULE Scheduler -------------------------------
(***************************************************************************)
(* The polling scheduler (internal/scheduler) between the governor's       *)
(* Readout and the Feed.  One loop goroutine reads the Readout, spawns a   *)
(* goroutine per due repository, computes how long to sleep, and sleeps on *)
(* a timer or a coalescing wake channel.  Each poll goroutine reads the    *)
(* active filter, issues one conditional listing, compares ETags, records  *)
(* what changed, hands one Event to the Feed over an unbuffered channel,   *)
(* and clears its single-flight flag.  Meanwhile the Feed scrolls and      *)
(* filters, discovery classifies, the account runs out, and the program    *)
(* quits.                                                                  *)
(*                                                                         *)
(* Time is relative, so a behaviour never ends: age[r] counts ticks since  *)
(* r was last polled, up to the slow interval; sleep, hold and reset count *)
(* down.  The loop's own steps take no time; everything else may take any. *)
(* Runs are data: a listing is a page, Page[f][v] for filter f at version  *)
(* v of the repository, and its ETag is the page's identity.               *)
(***************************************************************************)
EXTENDS Budget, FiniteSets

CONSTANTS
    Repo,           \* repositories
    First,          \* Options.First, the launch repository, or NoRepo
    NoRepo,
    Filter,         \* what the Feed may filter by
    StartFilter,
    MaxVersion,     \* bound: changes of one repository's Runs
    Page,           \* Page[f][v]: a listing's body
    LivePage,       \* the pages with a queued or in-progress Run
    Pinned,         \* the repositories the configuration pins
    HoldTicks,      \* how long a rate limit or a primary window lasts
    MaxEvents       \* bound: events from outside the scheduler

Version == 0..MaxVersion
Pages   == {Page[f][v] : f \in Filter, v \in Version}
NoPage  == "no page"
Never   == -1       \* the age of a repository that was never polled

ASSUME SchedulerAssumption ==
    /\ NoRepo \notin Repo /\ First \in Repo \cup {NoRepo}
    /\ StartFilter \in Filter
    /\ Page \in [Filter -> [Version -> Pages]] /\ LivePage \subseteq Pages
    /\ NoPage \notin Pages
    /\ IsFiniteSet(Repo) /\ Pinned \subseteq Repo
    /\ HoldTicks \in Nat \ {0} /\ MaxEvents \in Nat /\ MaxVersion \in Nat

VARIABLES
    \* the engine, under its mutex
    age, inFlight, lastETag, lastRuns, viewport, filt,
    \* the loop
    at, sleep, paused, wake, primed,
    \* the poll goroutines and the WaitGroup
    poll, wg,
    \* Stop
    quit, closed,
    \* discovery's poll set and whether it has a record for First
    pollSet, classified,
    \* the Readout: remaining = 0 as last seen, ticks to the reset and to the
    \* end of a rate-limit hold, and whether the burn outruns what is left
    spent, reset, hold, pressed,
    \* the demotion episode
    dem,
    \* GitHub's Runs, and the Feed: the page shown and the failed repositories
    version, shown, failed,
    \* events so far
    events

engine  == <<age, inFlight, lastETag, lastRuns>>
inputs  == <<viewport, filt, pollSet, classified>>
loop    == <<at, sleep, paused, dem>>
budget  == <<spent, reset, hold, pressed>>
feed    == <<shown, failed>>
life    == <<quit, closed>>
vars    == <<engine, inputs, loop, wake, primed, poll, wg, life, budget,
             version, feed, events>>

\* The stages of a poll goroutine: spawned, requesting under the filter it
\* read, blocked on a send to the Feed.
NoPoll     == [at |-> "none"]
Spawned    == [at |-> "start"]
OnWire(f)  == [at |-> "wire", filter |-> f]
Emitting(event, page) == [at |-> "emit", event |-> event, page |-> page]
Out(r)     == poll[r] # NoPoll

-----------------------------------------------------------------------------
\* governor.Readout, as the loop reads it.
Exhausted == spent \/ hold > 0
ResumeIn  == IF hold > 0 THEN hold ELSE reset

Prioritised == viewport \cup Pinned

\* tierOfLocked: live Runs outrank the viewport and the pins, which outrank
\* the rest.
TierOf(r) ==
    IF lastRuns[r] \in LivePage THEN "fast"
    ELSE IF r \in Prioritised THEN "medium" ELSE "slow"

\* intervalForLocked before demotion: the slow tier is priced on the poll
\* set, the medium tier on what that leaves.
SlowBase == WholeSetInterval(Cardinality(pollSet))
BaseOf(t) ==
    CASE t = "fast"   -> Fast
      [] t = "medium" -> MediumSetInterval(Cardinality(Prioritised),
                                           Cardinality(pollSet), SlowBase)
      [] t = "slow"   -> SlowBase

Interval(r, d) == Stretched(TierOf(r), BaseOf(TierOf(r)), StageAt(d))

\* No repository ever waits longer.
Longest == WholeSetInterval(Cardinality(Repo)) * 2^MaxDemoteSteps

\* scheduleSetLocked: the fast path alone until it has landed, then the poll
\* set, with the fast path beside it while discovery has no record of it.
ScheduleSet ==
    IF First # NoRepo /\ ~primed THEN {First}
    ELSE IF First = NoRepo \/ classified THEN pollSet
    ELSE pollSet \cup {First}

\* Whether r is due in episode d, and the ticks until it next is.
Due(r, d) == age[r] = Never \/ age[r] >= Interval(r, d)
DueIn(r)  == IF Due(r, dem) THEN 0 ELSE Interval(r, dem) - age[r]

\* nextWait: until the earliest repository is due, leaving out those that
\* are overdue behind a poll of their own; defaultIdle if that is all.
NextWait ==
    LET waitedFor == {r \in ScheduleSet : ~(r \in inFlight /\ Due(r, dem))}
    IN  IF waitedFor = {} THEN Fast
        ELSE CHOOSE w \in {DueIn(r) : r \in waitedFor} :
                \A r \in waitedFor : w <= DueIn(r)

\* untilResume: the reset when it is ahead, else the slow interval.
UntilResume == IF ResumeIn > 0 THEN ResumeIn ELSE Slow

-----------------------------------------------------------------------------
\* A warm start knows every repository, a cold one only the launch one.
Init ==
    /\ age = [r \in Repo |-> Never]
    /\ inFlight = {}
    /\ lastETag = [r \in Repo |-> NoPage]
    /\ lastRuns = [r \in Repo |-> NoPage]
    /\ viewport = {} /\ filt = StartFilter
    /\ at = "top" /\ sleep = 0 /\ paused = FALSE /\ wake = FALSE
    /\ primed = (First = NoRepo)
    /\ poll = [r \in Repo |-> NoPoll]
    /\ wg = 1
    /\ quit = FALSE /\ closed = FALSE
    /\ \/ pollSet = Repo /\ classified = TRUE
       \/ pollSet = {} /\ classified = FALSE
    /\ spent = FALSE /\ reset = 0 /\ hold = 0 /\ pressed = FALSE
    /\ dem = NoEpisode
    /\ version = [r \in Repo |-> 0]
    /\ shown = [r \in Repo |-> NoPage] /\ failed = {}
    /\ events = 0

\* The loop reads the Readout: exhausted, it declines to schedule and sleeps
\* the pause out.
Pause ==
    /\ at = "top"
    /\ Exhausted
    /\ at' = "asleep"
    /\ sleep' = UntilResume
    /\ paused' = TRUE
    /\ UNCHANGED <<dem, engine, inputs, wake, primed, poll, wg, life, budget,
                   version, feed, events>>

\* (mutant: the single-flight flag is not consulted)
DueAnyway == {r \in ScheduleSet : Due(r, dem')}

\* What pollDue spawns: the repositories due, in the episode just observed,
\* with no poll out.
DueNow == {r \in ScheduleSet : r \notin inFlight /\ Due(r, dem')}

\* (mutant: the spawned polls are not added to the WaitGroup)
PollDueUncounted ==
    /\ at = "top"
    /\ ~Exhausted
    /\ dem' = Observed(dem, pressed, ResumeIn)
    /\ inFlight' = inFlight \cup DueNow
    /\ age' = [r \in Repo |-> IF r \in DueNow THEN 0 ELSE age[r]]
    /\ poll' = [r \in Repo |-> IF r \in DueNow THEN Spawned ELSE poll[r]]
    /\ at' = "wait"
    /\ paused' = FALSE
    /\ UNCHANGED <<lastETag, lastRuns, inputs, sleep, wake, primed, wg, life,
                   budget, version, feed, events>>

\* Not exhausted: the Readout's pressure is folded into the demotion, and
\* pollDue flags and stamps the due repositories under the lock and spawns a
\* goroutine for each.
PollDue ==
    /\ at = "top"
    /\ ~Exhausted
    /\ dem' = Observed(dem, pressed, ResumeIn)
    /\ inFlight' = inFlight \cup DueNow
    /\ age' = [r \in Repo |-> IF r \in DueNow THEN 0 ELSE age[r]]
    /\ poll' = [r \in Repo |-> IF r \in DueNow THEN Spawned ELSE poll[r]]
    /\ wg' = wg + Cardinality(DueNow)
    /\ at' = "wait"
    /\ paused' = FALSE
    /\ UNCHANGED <<lastETag, lastRuns, inputs, sleep, wake, primed, life,
                   budget, version, feed, events>>

\* nextWait, and the select it feeds.
GoToSleep ==
    /\ at = "wait"
    /\ at' = "asleep"
    /\ sleep' = NextWait
    /\ UNCHANGED <<dem, engine, inputs, paused, wake, primed, poll, wg, life, budget,
                   version, feed, events>>

\* The select: the timer fires, or a wake is taken.
WakeUp ==
    /\ at = "asleep"
    /\ \/ sleep = 0 /\ UNCHANGED wake
       \/ wake /\ wake' = FALSE
    /\ at' = "top"
    /\ sleep' = 0
    /\ UNCHANGED <<dem, engine, inputs, paused, primed, poll, wg, life, budget, version,
                   feed, events>>

\* The select: the context is done, and the loop returns.
LoopReturns ==
    /\ at = "asleep"
    /\ quit
    /\ at' = "returned"
    /\ wg' = wg - 1
    /\ UNCHANGED <<dem, engine, inputs, paused, sleep, wake, primed, poll, life, budget,
                   version, feed, events>>

-----------------------------------------------------------------------------
(* The poll goroutine.  Its answer is decided on in the step it arrives:   *)
(* nothing it reads then is written by anyone but SetFilter, which might   *)
(* as well have come first.                                                *)

\* It reads the active filter and issues the request.
Request(r) ==
    /\ poll[r] = Spawned
    /\ poll' = [poll EXCEPT ![r] = OnWire(filt)]
    /\ UNCHANGED <<engine, inputs, loop, wake, primed, wg, life, budget,
                   version, feed, events>>

\* (mutant: the flag is cleared only when the Feed has something to show)
EndsFlagged(r, waking) ==
    LET opens == r = First /\ ~primed IN
    /\ inFlight' = IF shown[r] # NoPage THEN inFlight \ {r} ELSE inFlight
    /\ poll' = [poll EXCEPT ![r] = NoPoll]
    /\ primed' = (primed \/ opens)
    /\ wake' = (wake \/ opens \/ waking)
    /\ wg' = wg - 1

\* The deferred calls, in their order: the single-flight flag is cleared,
\* the fast path's first poll opens the gate and wakes the loop, and the
\* WaitGroup is told.  waking: the poll itself asked for a wake.
Ends(r, waking) ==
    LET opens == r = First /\ ~primed IN
    /\ inFlight' = inFlight \ {r}
    /\ poll' = [poll EXCEPT ![r] = NoPoll]
    /\ primed' = (primed \/ opens)
    /\ wake' = (wake \/ opens \/ waking)
    /\ wg' = wg - 1

\* The listing the request of r's poll reads.
Listing(r) == Page[poll[r].filter][version[r]]

\* A 200, or a 304 the store made one: its ETag is the last one recorded, so
\* nothing changed and nothing is emitted.
Unchanged(r) ==
    /\ Listing(r) = lastETag[r]
    /\ Ends(r, FALSE)
    /\ UNCHANGED <<lastETag, lastRuns>>

\* recordPoll: the Runs and the ETag are stored, a change of tier wakes the
\* loop, and the Update is ready to send.
Record(r) ==
    LET live == Listing(r) \in LivePage IN
    /\ Listing(r) # lastETag[r]
    /\ lastRuns' = [lastRuns EXCEPT ![r] = Listing(r)]
    /\ lastETag' = [lastETag EXCEPT ![r] = Listing(r)]
    /\ wake' = (wake \/ live # (lastRuns[r] \in LivePage))
    /\ poll' = [poll EXCEPT ![r] = Emitting("update", Listing(r))]
    /\ UNCHANGED <<inFlight, primed, wg>>

\* An answer with a listing, which the governor observes: there is some
\* allowance left.
AnswerPage(r) ==
    /\ poll[r].at = "wire"
    /\ Unchanged(r) \/ Record(r)
    /\ spent' = FALSE
    /\ UNCHANGED <<age, inputs, loop, life, reset, hold, pressed, version, feed, events>>

\* An answer with a listing that spends the last of the allowance.
AnswerLast(r) ==
    /\ poll[r].at = "wire"
    /\ events < MaxEvents
    /\ events' = events + 1
    /\ Unchanged(r) \/ Record(r)
    /\ spent' = TRUE
    /\ reset' = HoldTicks
    /\ UNCHANGED <<age, inputs, loop, life, hold, pressed, version, feed>>

\* A failure of the repository's own, reported: a 404, a 5xx, a refused
\* connection.
AnswerFailed(r) ==
    /\ poll[r].at = "wire"
    /\ events < MaxEvents
    /\ events' = events + 1
    /\ poll' = [poll EXCEPT ![r] = Emitting("failed", NoPage)]
    /\ UNCHANGED <<engine, inputs, loop, wake, primed, wg, life, budget,
                   version, feed>>

\* (mutant: the ETag is remembered before the body is parsed)
AnswerUnreadableRemembered(r) ==
    /\ poll[r].at = "wire"
    /\ events < MaxEvents
    /\ events' = events + 1
    /\ Listing(r) # lastETag[r]
    /\ lastETag' = [lastETag EXCEPT ![r] = Listing(r)]
    /\ poll' = [poll EXCEPT ![r] = Emitting("failed", NoPage)]
    /\ UNCHANGED <<age, inFlight, lastRuns, inputs, loop, wake, primed, wg,
                   life, budget, version, feed>>

\* A new listing whose body does not parse is reported the same way.
AnswerUnreadable(r) ==
    /\ poll[r].at = "wire"
    /\ events < MaxEvents
    /\ events' = events + 1
    /\ Listing(r) # lastETag[r]
    /\ poll' = [poll EXCEPT ![r] = Emitting("failed", NoPage)]
    /\ UNCHANGED <<engine, inputs, loop, wake, primed, wg, life, budget,
                   version, feed>>

\* A rate-limit 403 or 429: the governor holds the account, and nothing is
\* said of the repository.
AnswerLimited(r) ==
    /\ poll[r].at = "wire"
    /\ events < MaxEvents
    /\ events' = events + 1
    /\ Ends(r, FALSE)
    /\ hold' = HoldTicks
    /\ UNCHANGED <<age, lastETag, lastRuns, inputs, loop, life, spent, reset,
                   pressed, version, feed>>

\* emit, received by the Feed: an Update replaces the repository's Runs and
\* clears its failure, a RepoPollFailed marks it and keeps its Runs.
Deliver(r) ==
    /\ poll[r].at = "emit"
    /\ \/ /\ poll[r].event = "update"
          /\ shown' = [shown EXCEPT ![r] = poll[r].page]
          /\ failed' = failed \ {r}
       \/ /\ poll[r].event = "failed"
          /\ failed' = failed \cup {r}
          /\ UNCHANGED shown
    /\ Ends(r, FALSE)
    /\ UNCHANGED <<age, lastETag, lastRuns, inputs, loop, life, budget, version,
                   events>>

\* emit, abandoned: the engine is stopping.
Abandon(r) ==
    /\ poll[r].at = "emit"
    /\ quit
    /\ Ends(r, FALSE)
    /\ UNCHANGED <<age, lastETag, lastRuns, inputs, loop, life, budget, version,
                   feed, events>>

-----------------------------------------------------------------------------
(* The callers. *)

\* SetViewport: the Feed scrolled.
SetViewport(S) ==
    /\ events < MaxEvents /\ S # viewport
    /\ events' = events + 1
    /\ viewport' = S
    /\ wake' = TRUE
    /\ UNCHANGED <<engine, filt, pollSet, classified, loop, primed, poll, wg,
                   life, budget, version, feed>>

\* SetFilter with another resource: every repository is due at once, and no
\* ETag of the old listing is remembered.
SetFilter(f) ==
    /\ events < MaxEvents /\ f # filt
    /\ events' = events + 1
    /\ filt' = f
    /\ age' = [r \in Repo |-> Never]
    /\ lastETag' = [r \in Repo |-> NoPage]
    /\ wake' = TRUE
    /\ UNCHANGED <<inFlight, lastRuns, viewport, pollSet, classified, loop,
                   primed, poll, wg, life, budget, version, feed>>

\* Discovery classifies a repository, with Runs or without, and publishes it
\* (PollSetChanged).
Classify(r) ==
    /\ events < MaxEvents
    /\ events' = events + 1
    /\ pollSet' \in {pollSet \cup {r}, pollSet \ {r}}
    /\ classified' = (classified \/ r = First)
    /\ wake' = TRUE
    /\ UNCHANGED <<engine, viewport, filt, loop, primed, poll, wg, life, budget,
                   version, feed>>

\* A repository's Runs change on the server.
Change(r) ==
    /\ events < MaxEvents /\ version[r] < MaxVersion
    /\ events' = events + 1
    /\ version' = [version EXCEPT ![r] = @ + 1]
    /\ UNCHANGED <<engine, inputs, loop, wake, primed, poll, wg, life, budget,
                   feed>>

\* Some other request of the program is answered after the reset, and its
\* headers show the new allowance.
OtherTraffic ==
    /\ spent /\ reset = 0
    /\ spent' = FALSE
    /\ UNCHANGED <<engine, inputs, loop, wake, primed, poll, wg, life, reset,
                   hold, pressed, version, feed, events>>

\* The account's burn now outruns what is left before the reset: pressure,
\* which the governor reports with a reset ahead of now.  Only the loop reads
\* it, so it need not rise before the loop's next read.
PressureRises ==
    /\ events < MaxEvents /\ ~pressed /\ at = "top"
    /\ events' = events + 1
    /\ pressed' = TRUE
    /\ reset' = IF reset > 0 THEN reset ELSE HoldTicks
    /\ UNCHANGED <<engine, inputs, loop, wake, primed, poll, wg, life, spent,
                   hold, version, feed>>

\* Stop: the context is cancelled.
Stop ==
    /\ events < MaxEvents
    /\ events' = events + 1
    /\ quit' = TRUE
    /\ UNCHANGED <<engine, inputs, loop, wake, primed, poll, wg, closed, budget,
                   version, feed>>

\* Stop's second half: the goroutines have unwound, and Updates is closed.
CloseUpdates ==
    /\ quit /\ ~closed
    /\ wg = 0
    /\ closed' = TRUE
    /\ UNCHANGED <<engine, inputs, loop, wake, primed, poll, wg, quit, budget,
                   version, feed, events>>

\* A tick of the clock, while the loop is asleep and no goroutine has yet to
\* read its filter.  The burn is counted over a window, so it may fall off
\* as time passes, and pressure ends with the reset.  Nothing after Stop is
\* timed.
Tick ==
    /\ ~quit
    /\ at = "asleep" /\ sleep > 0 /\ ~wake
    /\ \A r \in Repo : poll[r] # Spawned
    /\ sleep' = sleep - 1
    /\ age' = [r \in Repo |->
                 IF age[r] = Never THEN Never ELSE Lesser(age[r] + 1, Longest)]
    /\ hold' = IF hold > 0 THEN hold - 1 ELSE 0
    /\ reset' = IF reset > 0 THEN reset - 1 ELSE 0
    /\ pressed' \in {FALSE, pressed /\ reset > 1}
    /\ dem' = Elapsed(dem)
    /\ UNCHANGED <<inFlight, lastETag, lastRuns, inputs, at, paused, wake, primed, poll,
                   wg, life, spent, version, feed, events>>

Loop == Pause \/ PollDue \/ GoToSleep \/ WakeUp \/ LoopReturns

\* A request ends: with an answer of one kind or another.
Answer(r) ==
    \/ AnswerPage(r) \/ AnswerLast(r) \/ AnswerFailed(r) \/ AnswerUnreadable(r)
    \/ AnswerLimited(r)

Poll(r) == Request(r) \/ Deliver(r) \/ Abandon(r)

\* The interface is gone when Stop is called.
Outside ==
    /\ ~quit
    /\ \/ \E S \in SUBSET Repo : SetViewport(S)
       \/ \E f \in Filter : SetFilter(f)
       \/ \E r \in Repo : Classify(r) \/ Change(r)
       \/ OtherTraffic \/ PressureRises \/ Stop

Next ==
    \/ Loop \/ Tick \/ Outside \/ CloseUpdates
    \/ \E r \in Repo : Answer(r) \/ Poll(r)

\* Goroutines run, time passes, requests end, and the Feed keeps receiving.
\* Nobody has to scroll, filter, quit, or send a request of their own.  At
\* most one of the steps named together can be taken at a time.
Fairness ==
    /\ WF_vars(Loop \/ Tick \/ CloseUpdates)
    /\ \A r \in Repo : WF_vars(Answer(r) \/ Poll(r))

Spec == Init /\ [][Next]_vars /\ Fairness

-----------------------------------------------------------------------------
\* The state has the shape the Go types give it, and the WaitGroup counts
\* the goroutines that are still running: the loop and the polls.
TypeOK ==
    /\ age \in [Repo -> {Never} \cup 0..Longest]
    /\ inFlight \subseteq Repo
    /\ lastETag \in [Repo -> Pages \cup {NoPage}]
    /\ lastRuns \in [Repo -> Pages \cup {NoPage}]
    /\ viewport \subseteq Repo /\ filt \in Filter
    /\ at \in {"top", "wait", "asleep", "returned"}
    /\ sleep \in Nat
    /\ {paused, wake, primed, quit, closed, classified, spent, pressed} \subseteq BOOLEAN
    /\ poll \in [Repo ->
          {NoPoll, Spawned} \cup {OnWire(f) : f \in Filter}
            \cup {Emitting("update", p) : p \in Pages} \cup {Emitting("failed", NoPage)}]
    /\ wg = Cardinality({r \in Repo : Out(r)}) + (IF at = "returned" THEN 0 ELSE 1)
    /\ pollSet \subseteq Repo
    /\ {reset, hold} \subseteq 0..HoldTicks
    /\ pressed => reset > 0
    /\ dem \in [active : BOOLEAN, since : 0..LastTick, left : 0..HoldTicks,
                frozen : BOOLEAN, stage : 0..(MaxDemoteSteps + 2)]
    /\ version \in [Repo -> Version]
    /\ shown \in [Repo -> Pages \cup {NoPage}]
    /\ failed \subseteq Repo
    /\ events \in 0..MaxEvents

\* pollDue and the deferred clearInFlight: whatever the filter, the viewport
\* and the wakes do, no poll is spawned for a repository that has one out.
SingleFlight ==
    [][\A r \in Repo : Out(r) /\ poll'[r] = Spawned => poll[r] = Spawned]_vars

\* Stop: when Updates is closed the loop has returned and no poll is left
\* that could still send on it.
ClosedLast ==
    closed => at = "returned" /\ \A r \in Repo : ~Out(r)

\* The two together: a repository is never polled twice at once, and no poll
\* outlives the channel it sends on.
PollsAreHeld == SingleFlight /\ []ClosedLast

\* wholeSetInterval and mediumSetInterval: whatever the poll set, the
\* viewport and the pins are, the repositories the two slower tiers poll
\* project under the secondary ceiling, priced together.
ScheduleFits ==
    LET priced == {r \in pollSet : TierOf(r) # "fast"}
        medium == Cardinality(priced \cap Prioritised)
    IN  Affordable(medium, BaseOf("medium"), Cardinality(priced) - medium, SlowBase)

\* intervalForLocked and demoteSteps: whatever a tier's base and however long
\* an episode lasts, the interval neither wraps nor falls below the base, and
\* a visible tier never waits longer than a less visible one.
IntervalsStretch ==
    \A slow \in 1..WholeSetInterval(Cardinality(Repo)), stage \in 0..(2 * Width) :
        /\ \A t \in Tier : Stretched(t, slow, stage) >= slow
        /\ \A medium \in 1..slow :
              Stretched("medium", medium, stage) <= Stretched("slow", slow, stage)

\* observePressureLocked: from its onset to its reset an episode holds, and
\* neither pressure clearing nor pressure coming back undoes a stage.
NoPromotionInside ==
    [][dem.active /\ dem.left > 0 => dem'.active /\ StageAt(dem') >= StageAt(dem)]_vars

\* The three together: the schedule stays within its budget.
BudgetKept == [](ScheduleFits /\ IntervalsStretch) /\ NoPromotionInside

\* The ETag shortcut, SetFilter and the wakes: once things settle, the Feed
\* shows each scheduled repository's newest listing under the filter in
\* force, unless the account stays exhausted or the program quits.
FeedConverges ==
    \A r \in Repo :
        <>[](\/ quit \/ Exhausted \/ r \notin ScheduleSet
             \/ shown[r] = Page[filt][version[r]])

\* loop, nextWait and the flags: every scheduled repository is polled again
\* and again, unless the account stays exhausted or the program quits.
PollsRecur ==
    \A r \in Repo :
        []<>(quit \/ Exhausted \/ r \notin ScheduleSet \/ Out(r))
===============================================================================
