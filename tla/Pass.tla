-------------------------------- MODULE Pass --------------------------------
(***************************************************************************)
(* One pass of the operations engine over a frozen set, and the retries    *)
(* that may follow it: executeDelete and executeLifecycle, the walk        *)
(* executeSet both share, deleteItem and mutateItem, and Retry             *)
(* (internal/ops/execute.go, progress.go).                                 *)
(*                                                                         *)
(* The engine's goroutine is sequential.  What runs beside it is the user, *)
(* whose cancellation may land between any two of its steps, the API,      *)
(* which may apply a request and lose the answer, and other people, who    *)
(* delete Runs of their own accord.                                        *)
(***************************************************************************)
EXTENDS Integers, Sequences, FiniteSets

CONSTANTS N,                    \* Items in the selection
          MaxUnmatched,         \* bound on the Item-less members of a set
          Operations,           \* the operation classes under check: a deletion, a
                                \* cancel or force-cancel, a re-run (a Workflow toggle
                                \* is classified as a re-run is)
          Breaker,              \* o.breakerFailures
          MaxRateLimitRetries,  \* maxRateLimitRetries
          MaxPasses             \* bound: the pass and its retries

ASSUME PassAssumption ==
  /\ N \in Nat /\ MaxUnmatched \in Nat
  /\ Operations \subseteq {"delete", "cancel", "rerun"}
  /\ Breaker \in Nat \ {0}
  /\ MaxRateLimitRetries \in Nat \ {0}
  /\ MaxPasses \in Nat \ {0}

Item == 1..N

\* What an attempt comes to: a disposition executeSet counts ...
Counted == {"deleted", "gone", "acted", "skipped", "failed"}
\* ... "unrecorded", an attempt whose request went out and whose result was
\* not counted (cancelled in flight, or its log line could not be written),
\* "pending" before the walk reaches it, "out" outside the current authority.
Fate == Counted \cup {"pending", "unrecorded", "out"}

Reply == {"accepted",  \* 2xx
          "missing",   \* 404
          "conflict",  \* 409
          "limited",   \* stamped rate limited by the governor
          "rejected",  \* an authorization 403, a 5xx, anything else
          "lost"}      \* a transport error, cancellation included

VARIABLES
  op,                \* plan.op
  skip,              \* the Items stamped ineligible by Plan
  unmatched,         \* len(plan.unmatched)
  plan,              \* plan.items, in order
  at,                \* executeSet's loop index
  pc,                \* where the goroutine is
  cancelled,         \* ctx.Err() # nil
  failureStreak,
  rateLimitStreak,
  reply,             \* the answer to the request in flight, or "none"
  outstanding,
  sum,               \* the Summary
  log,               \* the deletion log's lines, in order
  fate,              \* history: what this authority's walk did with each Item
  there,             \* the API: does the object exist
  effect,            \* the API: requests of ours that took effect on it
  asked,             \* history: requests issued per Item, up to AskedCap
  passes

planVars   == <<op, skip, unmatched>>
walkVars   == <<plan, at, pc, failureStreak, rateLimitStreak, outstanding, sum, log, fate>>
serverVars == <<there, effect>>
vars == <<planVars, walkVars, serverVars, cancelled, reply, asked, passes>>

-----------------------------------------------------------------------------
(* The plan and the summary. *)

\* Total and Skipped of the current plan.
Total == Len(plan) + unmatched
PlanSkips(from) == {k \in from..Len(plan) : plan[k] \in skip}

Summary == [deleted : Nat, gone : Nat, acted : Nat, skipped : Nat,
            failed : Seq(Item), succeeded : SUBSET Item,
            circuitBroke : BOOLEAN, cancelled : BOOLEAN, logFailed : BOOLEAN]
EmptySummary == [deleted |-> 0, gone |-> 0, acted |-> 0, skipped |-> 0,
                 failed |-> <<>>, succeeded |-> {},
                 circuitBroke |-> FALSE, cancelled |-> FALSE, logFailed |-> FALSE]

StoppedEarly == sum.circuitBroke \/ sum.logFailed \/ sum.cancelled
Accounted == sum.deleted + sum.gone + sum.acted + sum.skipped + Len(sum.failed)

\* The disposition of a terminal answer; "limited" is not one.
Disposition(r) ==
  CASE op = "delete" ->
         (CASE r = "accepted" -> "deleted"
            [] r = "missing"  -> "gone"
            [] r = "conflict" -> "skipped"
            [] OTHER          -> "failed")
    [] op # "delete" ->
         (CASE r = "accepted" -> "acted"
            [] op = "cancel" /\ r \in {"missing", "conflict"} -> "skipped"
            [] OTHER -> "failed")

\* What executeSet adds to the summary for an Item that landed with d.
Tally(s, i, d) ==
  CASE d = "deleted" -> [s EXCEPT !.deleted = @ + 1, !.succeeded = @ \cup {i}]
    [] d = "gone"    -> [s EXCEPT !.gone = @ + 1, !.succeeded = @ \cup {i}]
    [] d = "acted"   -> [s EXCEPT !.acted = @ + 1, !.succeeded = @ \cup {i}]
    [] d = "skipped" -> [s EXCEPT !.skipped = @ + 1]
    [] d = "failed"  -> [s EXCEPT !.failed = Append(@, i)]

\* Mutant: a skip resets the breaker's streak.
SkipResetsStreak(d) == IF d = "failed" THEN failureStreak + 1 ELSE 0

\* A success resets the streak, a failure advances it, a skip leaves it alone.
Streak(d) == CASE d = "failed"  -> failureStreak + 1
               [] d = "skipped" -> failureStreak
               [] OTHER         -> 0

-----------------------------------------------------------------------------
Init ==
  /\ op \in Operations
  /\ skip \in SUBSET Item
  /\ unmatched \in (IF op = "rerun" THEN 0..MaxUnmatched ELSE {0})
  /\ plan = [k \in Item |-> k]
  /\ at = 1
  /\ pc = "open"
  /\ cancelled = FALSE
  /\ failureStreak = 0 /\ rateLimitStreak = 0
  /\ reply = "none"
  /\ outstanding = 0
  /\ sum = EmptySummary
  /\ log = <<>>
  /\ fate = [i \in Item |-> "pending"]
  /\ there = [i \in Item |-> TRUE]
  /\ effect = [i \in Item |-> 0]
  /\ asked = [i \in Item |-> 0]
  /\ passes = 1

\* Mutant: the loop index outlives the pass.
IndexKept == at
FirstIndex == 1

\* The Item-less members of the set are skips from the start.
OpeningSum == [EmptySummary EXCEPT !.skipped = unmatched]

OpeningOutstanding == Total - (unmatched + Cardinality(PlanSkips(1)))

\* A deletion proves the log writable before its first request and refuses to
\* start otherwise; a lifecycle operation opens no log.
LogUnavailable ==
  /\ pc = "open" /\ op = "delete"
  /\ pc' = "done"
  /\ sum' = [EmptySummary EXCEPT !.logFailed = TRUE]
  /\ UNCHANGED <<planVars, serverVars, cancelled, reply, asked, passes, plan, at,
                 failureStreak, rateLimitStreak, outstanding, log, fate>>

\* The walk starts and the opening frame goes out.
Open ==
  /\ pc = "open"
  /\ pc' = "top"
  /\ sum' = OpeningSum
  /\ outstanding' = OpeningOutstanding
  /\ failureStreak' = 0
  /\ at' = FirstIndex
  /\ UNCHANGED <<planVars, serverVars, cancelled, reply, asked, passes, plan,
                 rateLimitStreak, log, fate>>

-----------------------------------------------------------------------------
(* The walk. *)

Here == plan[at]
Line(d) == [item |-> Here, outcome |-> d]

\* Mutant: only what took effect is written.
SuccessesLogged(d) ==
  IF op = "delete" /\ d # "failed" THEN Append(log, Line(d)) ELSE log
\* A deletion writes one line per Item it settles; nothing else writes any.
Logged(d) == IF op = "delete" THEN Append(log, Line(d)) ELSE log

\* The walk is past its last Item.
Finish ==
  /\ pc = "top" /\ at > Len(plan)
  /\ pc' = "done"
  /\ UNCHANGED <<planVars, serverVars, cancelled, reply, asked, passes, plan, at,
                 failureStreak, rateLimitStreak, outstanding, sum, log, fate>>

\* A cancelled context ends the walk before the next Item.
StopCancelled ==
  /\ pc = "top" /\ at <= Len(plan) /\ cancelled
  /\ pc' = "done"
  /\ sum' = [sum EXCEPT !.cancelled = TRUE]
  /\ UNCHANGED <<planVars, serverVars, cancelled, reply, asked, passes, plan, at,
                 failureStreak, rateLimitStreak, outstanding, log, fate>>

\* An Item Plan stamped ineligible is logged and counted, never requested.
SkipItem ==
  /\ pc = "top" /\ at <= Len(plan) /\ ~cancelled
  /\ Here \in skip
  /\ \/ /\ sum' = [sum EXCEPT !.skipped = @ + 1]
        /\ log' = Logged("skipped")
        /\ fate' = [fate EXCEPT ![Here] = "skipped"]
        /\ at' = at + 1
        /\ pc' = pc
     \/ /\ op = "delete"           \* the skip line could not be written
        /\ sum' = [sum EXCEPT !.logFailed = TRUE]
        /\ pc' = "done"
        /\ UNCHANGED <<log, fate, at>>
  /\ UNCHANGED <<planVars, serverVars, cancelled, reply, asked, passes, plan,
                 failureStreak, rateLimitStreak, outstanding>>

Attempt ==
  /\ pc = "top" /\ at <= Len(plan) /\ ~cancelled
  /\ Here \notin skip
  /\ pc' = "attempt"
  /\ rateLimitStreak' = 0
  /\ UNCHANGED <<planVars, serverVars, cancelled, reply, asked, passes, plan, at,
                 failureStreak, outstanding, sum, log, fate>>

\* AskedCap only keeps the history finite: it is one past what the bound on
\* re-attempts allows, and no guard reads it.
AskedCap == MaxRateLimitRetries * MaxPasses + 1

\* The attempt reads the context once more and puts the request on the wire.
Request ==
  /\ pc = "attempt" /\ ~cancelled
  /\ pc' = "inflight"
  /\ asked' = [asked EXCEPT ![Here] = IF @ < AskedCap THEN @ + 1 ELSE @]
  /\ UNCHANGED <<planVars, serverVars, cancelled, reply, passes, plan, at,
                 failureStreak, rateLimitStreak, outstanding, sum, log, fate>>

\* dispCancelled, from the check at the attempt's top.
AttemptCancelled ==
  /\ pc = "attempt" /\ cancelled
  /\ pc' = "done"
  /\ outstanding' = outstanding - 1
  /\ sum' = [sum EXCEPT !.cancelled = TRUE]
  /\ fate' = [fate EXCEPT ![Here] = "unrecorded"]
  /\ UNCHANGED <<planVars, serverVars, cancelled, reply, asked, passes, plan, at,
                 failureStreak, rateLimitStreak, log>>

\* A transport error after the context was cancelled is not a failure: the
\* Item is neither counted nor logged.
LostCancelled ==
  /\ pc = "inflight" /\ reply = "lost" /\ cancelled
  /\ pc' = "done"
  /\ reply' = "none"
  /\ outstanding' = outstanding - 1
  /\ sum' = [sum EXCEPT !.cancelled = TRUE]
  /\ fate' = [fate EXCEPT ![Here] = "unrecorded"]
  /\ UNCHANGED <<planVars, serverVars, cancelled, asked, passes, plan, at,
                 failureStreak, rateLimitStreak, log>>

\* Mutant: the streak is declared inside the loop.
StreakPerRequest == 1
NextRateLimitStreak == rateLimitStreak + 1
RateLimitBoundHit == NextRateLimitStreak >= MaxRateLimitRetries

\* A rate limit below the bound: the same Item is asked again.
Backoff ==
  /\ pc = "inflight" /\ reply = "limited"
  /\ ~RateLimitBoundHit
  /\ rateLimitStreak' = NextRateLimitStreak
  /\ reply' = "none"
  /\ pc' = "attempt"
  /\ UNCHANGED <<planVars, serverVars, cancelled, asked, passes, plan, at,
                 failureStreak, outstanding, sum, log, fate>>

\* The disposition the attempt returns for the answer that is in, if it is
\* a terminal one.
Terminal ==
  /\ pc = "inflight" /\ reply # "none"
  /\ ~(reply = "lost" /\ cancelled)
  /\ reply = "limited" => RateLimitBoundHit
Landed == IF reply = "limited" THEN "skipped" ELSE Disposition(reply)

\* The Item lands: its line is written, it is tallied, and the breaker looks.
Land ==
  /\ Terminal
  /\ LET d == Landed
         broke == d = "failed" /\ Streak(d) >= Breaker
     IN /\ sum' = [Tally(sum, Here, d) EXCEPT !.circuitBroke = broke]
        /\ failureStreak' = Streak(d)
        /\ log' = Logged(d)
        /\ fate' = [fate EXCEPT ![Here] = d]
        /\ pc' = IF broke THEN "done" ELSE "top"
        /\ at' = IF broke THEN at ELSE at + 1
  /\ rateLimitStreak' = 0
  /\ reply' = "none"
  /\ outstanding' = outstanding - 1
  /\ UNCHANGED <<planVars, serverVars, cancelled, asked, passes, plan>>

\* The line could not be written: the pass stops and the Item is not counted.
LandUnlogged ==
  /\ Terminal /\ op = "delete"
  /\ pc' = "done"
  /\ reply' = "none"
  /\ outstanding' = outstanding - 1
  /\ sum' = [sum EXCEPT !.logFailed = TRUE]
  /\ fate' = [fate EXCEPT ![Here] = "unrecorded"]
  /\ UNCHANGED <<planVars, serverVars, cancelled, asked, passes, plan, at,
                 failureStreak, rateLimitStreak, log>>

\* Mutant: the whole set again.
RetryEverything == plan
\* The failed Items, in attempt order.
RetrySet == sum.failed

\* The retry of a finished pass, over its failures and nothing else.
Retry ==
  /\ pc = "done" /\ sum.failed # <<>>
  /\ passes < MaxPasses
  /\ passes' = passes + 1
  /\ plan' = RetrySet
  /\ unmatched' = 0
  /\ pc' = "open"
  /\ sum' = EmptySummary
  /\ cancelled' = FALSE
  /\ fate' = [i \in Item |-> CASE fate[i] = "failed"  -> "pending"
                               [] fate[i] = "pending" -> "out"
                               [] OTHER               -> fate[i]]
  /\ UNCHANGED <<op, skip, serverVars, reply, asked, at, failureStreak,
                 rateLimitStreak, outstanding, log>>

-----------------------------------------------------------------------------
(* The user, the API and everyone else. *)

Cancel ==
  /\ pc # "done" /\ ~cancelled
  /\ cancelled' = TRUE
  /\ UNCHANGED <<planVars, walkVars, serverVars, reply, asked, passes>>

\* The API acts on the request in flight, or refuses it, or finds that someone
\* else has deleted the object since it was last asked about.
Answer ==
  /\ pc = "inflight" /\ reply = "none"
  /\ \/ /\ there[Here]
        /\ reply' \in {"accepted", "lost"}
        /\ effect' = [effect EXCEPT ![Here] = @ + 1]
        /\ there' = [there EXCEPT ![Here] = op # "delete"]
     \/ /\ reply' \in {"limited", "rejected", "lost"}
                        \cup (IF there[Here] THEN {"conflict"} ELSE {"missing"})
        /\ UNCHANGED serverVars
     \/ /\ there[Here]
        /\ reply' = "missing"
        /\ there' = [there EXCEPT ![Here] = FALSE]
        /\ UNCHANGED effect
  /\ UNCHANGED <<planVars, walkVars, cancelled, asked, passes>>

Walk == \/ LogUnavailable \/ Open \/ Finish \/ StopCancelled \/ SkipItem \/ Attempt
        \/ Request \/ AttemptCancelled \/ LostCancelled \/ Backoff \/ Land \/ LandUnlogged

Next == Walk \/ Retry \/ Cancel \/ Answer

\* The goroutine is scheduled and a request is eventually answered, be it by
\* a transport error; nobody has to cancel, retry or delete anything.
Spec == Init /\ [][Next]_vars /\ WF_vars(Walk) /\ WF_vars(Answer)

-----------------------------------------------------------------------------
(* Properties. *)

Ledger == [item : Item, outcome : Counted]

\* The type invariant.
TypeOK ==
  /\ op \in Operations /\ skip \subseteq Item /\ unmatched \in Nat
  /\ plan \in Seq(Item) /\ at \in Nat \ {0}
  /\ pc = "top" => at <= Len(plan) + 1
  /\ pc \in {"open", "top", "attempt", "inflight", "done"}
  /\ pc \in {"attempt", "inflight"} => at <= Len(plan)
  /\ cancelled \in BOOLEAN
  /\ failureStreak \in Nat /\ rateLimitStreak \in Nat
  /\ reply \in Reply \cup {"none"}
  /\ outstanding \in Int
  /\ sum \in Summary
  /\ log \in Seq(Ledger)
  /\ fate \in [Item -> Fate]
  /\ there \in [Item -> BOOLEAN] /\ effect \in [Item -> Nat]
  /\ asked \in [Item -> Nat] /\ passes \in Nat

Working(i) == pc \in {"attempt", "inflight"} /\ i = Here
HasLine(i) == \E k \in DOMAIN log : log[k].item = i

\* The log is never more than one attempt behind the walk (log.go, purge R29):
\* an Item a DELETE was issued for has a line, unless it is the one being
\* worked on or one whose result was not counted; and such a result is the
\* last thing its pass did.
LogTrailsByOne ==
  op = "delete" =>
    /\ \A i \in Item : asked[i] > 0 /\ fate[i] # "unrecorded" /\ ~Working(i) => HasLine(i)
    /\ \A k \in DOMAIN plan : fate[plan[k]] = "unrecorded" => pc = "done" /\ k = at

\* One line per attempt, telling what the summary says: an Item's last line
\* is the disposition it was counted under, and every earlier line is a
\* failure, because only failures are attempted again.
LastLine(k) == \A later \in DOMAIN log : log[later].item = log[k].item => later <= k
LogTellsFate ==
  op = "delete" =>
    /\ \A i \in Item : fate[i] \in Counted =>
         \E k \in DOMAIN log : LastLine(k) /\ log[k] = [item |-> i, outcome |-> fate[i]]
    /\ \A k \in DOMAIN log : LastLine(k) \/ log[k].outcome = "failed"

\* Every frame adds up: what is counted, what is outstanding and the skips
\* still ahead make the total; and a pass that ran to its end counted every
\* member of the set exactly once.
FramesAddUp ==
  /\ pc = "top" => Accounted + outstanding + Cardinality(PlanSkips(at)) = Total
  /\ pc = "done" /\ ~StoppedEarly => Accounted = Total /\ outstanding = 0

\* Counted a success means destroyed: an Item in Succeeded no longer exists,
\* and no deletion of ours takes effect twice.
SucceededIsGone ==
  op = "delete" => /\ \A i \in sum.succeeded : ~there[i]
                   /\ \A i \in Item : effect[i] <= 1

\* The two together: what a deletion destroyed is gone and is on record.
RecordedAndGone == LogTrailsByOne /\ SucceededIsGone

\* The attempts from one place of the walk on, skips apart.
TriedFrom(first) == {k \in first..Len(plan) : fate[plan[k]] \in Counted \ {"skipped"}}
AllFailed(first) == \A k \in TriedFrom(first) : fate[plan[k]] = "failed"

\* The breaker is exact: the pass is circuit-broken if and only if its last
\* Breaker attempts all failed, skips not counting either way (purge R21).
BreakerExact ==
  pc # "open" =>
    (sum.circuitBroke <=>
       \E first \in DOMAIN plan : AllFailed(first) /\ Cardinality(TriedFrom(first)) = Breaker)

\* The three together: the log, the frames and the breaker give one account of
\* the walk.
WalkAccounts == LogTellsFate /\ FramesAddUp /\ BreakerExact

\* Every pass ends: no answer the API gives keeps it going for ever.
PassEnds == pc = "open" ~> pc = "done"

\* The walk implements the promise of a confirmed set: requests only for Items
\* still pending under the confirmation, each closed at most once, and a retry
\* that reopens exactly the failures.
FS == INSTANCE FrozenSet
        WITH Items   <- Item,
             running <- pc # "done",
             state   <- [i \in Item |-> IF fate[i] \in {"pending", "failed", "out"}
                                       THEN fate[i] ELSE "closed"]
Authority == FS!Spec
=============================================================================
