---------------------------------- MODULE Feed ----------------------------------
(***************************************************************************)
(* The live run feed (internal/tui/feed): what it holds of each repository *)
(* and what it paints, the changes it defers while the operator is in the  *)
(* list, the selection and the set a key freezes from it, the confirmation *)
(* dialog over that set, the by-name form and its resolution, and the      *)
(* marks that outlive one message: a failed poll, a cancellation asked     *)
(* for.  The Feed handles one message at a time; polls, published filters, *)
(* resolutions and the walk of an operation run beside it.                 *)
(*                                                                         *)
(* GitHub and the scheduler are the environment: a poll answers with the   *)
(* repository's Runs under the filter published last, and is delivered in  *)
(* the step that makes it (what comes between is module Scheduler).  A     *)
(* launch is decided in the step that asks for it (module Launch has the   *)
(* rest), as is the way of a request for Runs from another tab.  The walk  *)
(* is module Pass: here each of its members succeeds or does not, and its  *)
(* frames carry the successes so far.                                      *)
(***************************************************************************)
EXTENDS Plan, Sequences

CONSTANTS Initial,      \* the Runs there are at launch, and which have completed
          Matching,     \* the Runs the narrow filter matches
          LaunchFilter, \* the filter the settings open with (settings R9)
          Flaky,        \* the repositories a poll of which may fail
          Verbs,        \* the operations whose keys the operator presses
          MaxKeys,      \* bound on the keys pressed
          MaxChanges    \* bound on what GitHub and discovery do unasked

ASSUME FeedAssumption ==
  /\ Run \subseteq Nat
  /\ Initial \in [Run -> {"unborn", "going", "done"}]
  /\ Matching \subseteq Run
  /\ LaunchFilter \in {"all", "narrow"}
  /\ Flaky \subseteq Repo /\ Verbs \subseteq Operation \ {"rerun-job"}
  /\ MaxKeys \in Nat /\ MaxChanges \in Nat

Filter == {"all", "narrow"}
Shown(f) == IF f = "all" THEN Run ELSE Matching

\* What a listing says of a Run.  start is run_started_at, advanced by a re-run,
\* of which there is one.
MaxStart == 1
NoRun    == [done |-> FALSE, start |-> -1]
Unborn   == [done |-> FALSE, start |-> -2]
Listed   == [done : BOOLEAN, start : 0..MaxStart]

NoDialog == [op |-> "none", items |-> {}, skip |-> {}]
NoWalk   == [op |-> "none", set |-> {}, todo |-> {}, acted |-> {}]

VARIABLES
  gh,             \* GitHub: every Run as it is
  member,         \* the repositories that are polled
  changes,        \* what GitHub may still do unasked
  pushed,         \* the scheduler's filter
  publishing,     \* filters on their way to it, as they were published
  outran,         \* history: the filter published last got there before another
  live,           \* m.live: the Runs of the latest listing of each repository
  rows, painted,  \* m.displayedIDs, m.current
  tally,          \* m.pending
  cursor,         \* a position in rows, from 1
  selected, engaged, active,
  filter, typing, \* m.filter, m.filterActive
  form,           \* m.jobNameSelection, empty when the form is closed
  resolving,      \* the set a resolution is out for; one at a time here
  dialog,         \* m.confirm's plan, or NoDialog
  known,          \* m.repos: repositories whose capability has arrived
  marks, failed,  \* m.cancelRequested, m.failed
  walk,           \* the engine's operation
  keys            \* keys the operator may still press

github  == <<gh, member, changes>>
query   == <<pushed, publishing, outran>>
frame   == <<rows, painted, tally, cursor>>
focus   == <<engaged, active, typing>>
opening == <<form, resolving, dialog>>
vars == <<github, query, live, frame, selected, focus, filter, opening, known,
          marks, failed, walk, keys>>

NoChange == [added |-> 0, removed |-> 0, moved |-> 0]

Init ==
  /\ gh = [r \in Run |-> IF Initial[r] = "unborn" THEN Unborn
                         ELSE [done |-> Initial[r] = "done", start |-> 0]]
  /\ member = Repo /\ changes = MaxChanges
  /\ filter = LaunchFilter /\ pushed = LaunchFilter
  /\ publishing = <<>> /\ outran = FALSE
  /\ live = [r \in Run |-> NoRun]
  /\ rows = <<>> /\ painted = [r \in Run |-> NoRun]
  /\ tally = NoChange /\ cursor = 1
  /\ selected = {} /\ engaged = FALSE /\ active = TRUE /\ typing = FALSE
  /\ form = {} /\ resolving = {} /\ dialog = NoDialog
  /\ known = {} /\ marks = {} /\ failed = {}
  /\ walk = NoWalk
  /\ keys = MaxKeys

-----------------------------------------------------------------------------
(* What the Feed derives from its state. *)

Exists(x) == x.start >= 0

RowSet == {rows[k] : k \in DOMAIN rows}
View(l, f) == {r \in Shown(f) : Exists(l[r])}

\* liveView: newest start first, the higher Run ID on a tie.
Before(l, a, b) == \/ l[a].start > l[b].start
                   \/ l[a].start = l[b].start /\ a > b
Sorted(l, S) ==
  [k \in 1..Cardinality(S) |->
     CHOOSE r \in S : Cardinality({q \in S : Before(l, q, r)}) = k - 1]

InList == active /\ ~typing /\ engaged
CursorRun == rows[cursor]     \* when rows is not empty

\* Mutant: the cursor falls back in front of the first row.
InFront(seq) == IF rows # <<>> /\ CursorRun \in {seq[k] : k \in DOMAIN seq} THEN cursor ELSE 0
Follow(seq) ==
  IF rows # <<>> /\ \E k \in DOMAIN seq : seq[k] = CursorRun
  THEN CHOOSE k \in DOMAIN seq : seq[k] = CursorRun
  ELSE 1

\* applyView: the painted frame becomes the truth under filter f.
Apply(l, f) ==
  LET seq == Sorted(l, View(l, f)) IN
  /\ rows' = seq
  /\ painted' = [r \in Run |-> IF r \in View(l, f) THEN l[r] ELSE NoRun]
  /\ tally' = NoChange
  /\ cursor' = Follow(seq)

\* Mutant: the tally of this poll is added to that of the polls before it.
AddUp(new) == [k \in DOMAIN new |-> tally[k] + new[k]]
Counted(new) == new

\* repaintAndDefer: rows keep their places and adopt their latest fields; what
\* would move one is counted.
Repaint(l, f) ==
  LET V == View(l, f) IN
  /\ painted' = [r \in Run |-> IF r \in RowSet \cap V THEN l[r] ELSE painted[r]]
  /\ tally' = Counted(
       [added   |-> Cardinality(V \ RowSet),
        removed |-> Cardinality(RowSet \ V),
        moved   |-> Cardinality({r \in RowSet \cap V : l[r].start # painted[r].start})])
  /\ UNCHANGED <<rows, cursor>>

\* frozenSelection: the selected Runs the Feed still holds, or the Run under
\* the cursor.
FrozenSelection ==
  IF selected # {} THEN {r \in selected : Exists(live[r])}
  ELSE IF rows = <<>> THEN {} ELSE {CursorRun}

\* The Status copied into an Item when it is frozen.
FrozenDone(r) == IF selected # {} THEN live[r].done ELSE painted[r].done

\* Ops.Plan over Items S and Item-less members U, refused for a repository whose
\* capability is not known.
Plannable(S) == \A r \in S : RepoOf[r] \in known
PlanOf(op, S, U) ==
  [op |-> op, items |-> S \cup U,
   skip |-> U \cup {r \in S : SkipFor(op, r, FrozenDone(r)) # "none"}]

\* launch: the plan's walk starts, unless one is running, which is ErrBusy.
Launch(p) ==
  walk' = IF walk # NoWalk THEN walk
          ELSE [op |-> p.op, set |-> p.items, todo |-> p.items \ p.skip, acted |-> {}]

\* openConfirm and its kin: a plan priced at nothing is launched at once.
Offer(p) ==
  IF FrictionFor(p.op, p.items) = "none"
  THEN Launch(p) /\ UNCHANGED dialog
  ELSE dialog' = p /\ UNCHANGED walk

-----------------------------------------------------------------------------
(* GitHub, and what the scheduler makes of it. *)

Surroundings == <<query, live, frame, selected, focus, filter, opening, known, marks,
                  failed, walk, keys>>

\* A Run is created and completes in its own time, which is no change of the
\* bounded kind.
Create(r) ==
  /\ gh[r] = Unborn
  /\ gh' = [gh EXCEPT ![r] = [done |-> FALSE, start |-> 0]]
  /\ UNCHANGED <<member, changes, Surroundings>>

Finish(r) ==
  /\ Exists(gh[r]) /\ ~gh[r].done
  /\ gh' = [gh EXCEPT ![r].done = TRUE]
  /\ UNCHANGED <<member, changes, Surroundings>>

\* Somebody else re-runs or deletes it.
Change(r) ==
  /\ changes > 0 /\ changes' = changes - 1
  /\ \/ /\ gh[r].done /\ gh[r].start < MaxStart
        /\ gh' = [gh EXCEPT ![r] = [done |-> FALSE, start |-> @.start + 1]]
     \/ /\ gh[r].done
        /\ gh' = [gh EXCEPT ![r] = NoRun]
  /\ UNCHANGED <<member, Surroundings>>

\* Discovery retires a repository.  It never retires the last one here: an empty
\* membership set is not broadcast.
Depart(o) ==
  /\ changes > 0 /\ changes' = changes - 1
  /\ member \ {o} # {}
  /\ member' = member \ {o}
  /\ UNCHANGED <<gh, Surroundings>>

Listing(o, f) ==
  [r \in Run |-> IF RepoOf[r] # o THEN live[r]
                 ELSE IF r \in Shown(f) /\ Exists(gh[r]) THEN gh[r] ELSE NoRun]

\* Mutant: a mark is cleared when its row is painted as completed.
ObservedOnScreen(l) == {r \in RowSet : l[r].done}
\* clearObservedCancellations
Observed(l) == {r \in Run : l[r].done}

\* scheduler.Update: a repository's Runs, replaced wholesale.
Update(o) ==
  LET l == Listing(o, pushed) IN
  /\ o \in member
  /\ live' = l
  /\ failed' = failed \ {o}
  /\ marks' = marks \ Observed(l)
  /\ IF InList THEN Repaint(l, filter) ELSE Apply(l, filter)
  /\ UNCHANGED <<github, query, selected, focus, filter, opening, known, walk, keys>>

\* scheduler.RepoPollFailed, which may be the last a retired repository's poll
\* has to say.
PollFailed(o) ==
  /\ o \in Flaky
  /\ failed' = failed \cup {o}
  /\ UNCHANGED <<github, query, live, frame, selected, focus, filter, opening,
                 known, marks, walk, keys>>

\* RepoMembership: both prunes.
Membership ==
  /\ failed' = failed \cap member
  /\ marks' = {r \in marks : RepoOf[r] \in member}
  /\ UNCHANGED <<github, query, live, frame, selected, focus, filter, opening, known,
                 walk, keys>>

\* ReposDiscovered: a capability snapshot, which prunes nothing.
ReposDiscovered(o) ==
  /\ o \in member \ known
  /\ known' = known \cup {o}
  /\ UNCHANGED <<github, query, live, frame, selected, focus, filter, opening, marks,
                 failed, walk, keys>>

\* A publish command runs: scheduler.SetFilter.  Each is on a goroutine of its
\* own, so they run in any order.
Publish(k) ==
  /\ k \in DOMAIN publishing
  /\ outran' = (outran \/ (k = Len(publishing) /\ k > 1))
  /\ pushed' = publishing[k]
  /\ publishing' = [j \in 1..(Len(publishing) - 1) |->
                      publishing[IF j < k THEN j ELSE j + 1]]
  /\ UNCHANGED <<github, live, frame, selected, focus, filter, opening, known, marks,
                 failed, walk, keys>>

-----------------------------------------------------------------------------
(* The operation that was launched. *)

WalkRest == <<member, changes, query, live, frame, selected, focus, filter, opening,
              known, failed, keys>>

\* A member is attempted.  A cancellation is accepted and takes effect when the
\* Run completes; the others take effect at once; either may fail.
Attempt(r) ==
  /\ r \in walk.todo
  /\ \/ /\ walk' = [walk EXCEPT !.todo = @ \ {r}]
        /\ UNCHANGED gh
     \/ /\ walk' = [walk EXCEPT !.todo = @ \ {r}, !.acted = @ \cup {r}]
        /\ \/ /\ walk.op \in {"cancel", "force-cancel"}
              /\ Exists(gh[r]) /\ ~gh[r].done
              /\ UNCHANGED gh
           \/ /\ walk.op = "delete" /\ gh[r].done
              /\ gh' = [gh EXCEPT ![r] = NoRun]
           \/ /\ walk.op \in Rerun /\ gh[r].done /\ gh[r].start < MaxStart
              /\ gh' = [gh EXCEPT ![r] = [done |-> FALSE, start |-> @.start + 1]]
  /\ UNCHANGED <<marks, WalkRest>>

\* ops.Progress: every frame carries the whole acted set, and a frame may come
\* again or not at all.
Frame ==
  /\ walk.op \in {"cancel", "force-cancel"}
  /\ marks' = marks \cup walk.acted
  /\ UNCHANGED <<gh, walk, WalkRest>>

WalkEnds ==
  /\ walk # NoWalk /\ walk.todo = {}
  /\ marks' = IF walk.op \in {"cancel", "force-cancel"} THEN marks \cup walk.acted
              ELSE marks
  /\ walk' = NoWalk
  /\ UNCHANGED <<gh, WalkRest>>

-----------------------------------------------------------------------------
(* The operator.  A key reaches the dialog, else the filter input, else the   *)
(* form, else the list, and only while the Feed has the focus.                *)

Key == keys > 0 /\ keys' = keys - 1
AtDialog == active /\ dialog # NoDialog
AtInput  == active /\ dialog = NoDialog /\ typing
AtForm   == active /\ dialog = NoDialog /\ ~typing /\ form # {}
AtList   == active /\ dialog = NoDialog /\ ~typing /\ form = {}

\* The motion keys.
MoveTo(k) ==
  /\ Key /\ AtList
  /\ k \in DOMAIN rows \cup {1}
  /\ cursor' = k /\ engaged' = TRUE
  /\ UNCHANGED <<github, query, live, rows, painted, tally, selected, active, typing,
                 filter, opening, known, marks, failed, walk>>

ToggleSelect ==
  /\ Key /\ AtList
  /\ engaged' = TRUE
  /\ selected' = IF rows = <<>> THEN selected
                 ELSE IF CursorRun \in selected THEN selected \ {CursorRun}
                 ELSE selected \cup {CursorRun}
  /\ UNCHANGED <<github, query, live, frame, active, typing, filter, opening, known,
                 marks, failed, walk>>

Refresh ==
  /\ Key /\ AtList
  /\ Apply(live, filter)
  /\ UNCHANGED <<github, query, live, selected, focus, filter, opening, known, marks,
                 failed, walk>>

\* openConfirm, behind openRerun for a re-run.
OpKey(op) ==
  /\ Key /\ AtList
  /\ FrozenSelection # {} /\ Plannable(FrozenSelection)
  /\ op = "rerun" => ~OrphanedOnly(FrozenSelection)
  /\ Offer(PlanOf(op, FrozenSelection, {}))
  /\ UNCHANGED <<github, query, live, frame, selected, focus, filter, form, resolving,
                 known, marks, failed>>

Accept ==
  /\ Key /\ AtDialog
  /\ dialog' = NoDialog
  /\ Launch(dialog)
  /\ UNCHANGED <<github, query, live, frame, selected, focus, filter, form, resolving,
                 known, marks, failed>>

Abort ==
  /\ Key /\ AtDialog
  /\ dialog' = NoDialog
  /\ UNCHANGED <<github, query, live, frame, selected, focus, filter, form, resolving,
                 known, marks, failed, walk>>

\* Mutant: the escalation reads the selection again.
Reread == FrozenSelection
Held == dialog.items

\* escalateToForceCancel: another verb over the set the dialog holds.
Escalate ==
  /\ Key /\ AtDialog /\ dialog.op = "cancel"
  /\ dialog' = [op |-> "force-cancel", items |-> Held,
                skip |-> {r \in Held : SkipFor("force-cancel", r, FALSE) # "none"}]
  /\ UNCHANGED <<github, query, live, frame, selected, focus, filter, form, resolving,
                 known, marks, failed, walk>>

\* Entering the filter input applies what was deferred.
OpenFilter ==
  /\ Key /\ AtList
  /\ typing' = TRUE
  /\ Apply(live, filter)
  /\ UNCHANGED <<github, query, live, selected, engaged, active, filter, opening, known,
                 marks, failed, walk>>

\* The input is parsed at every key; what does not parse leaves the last filter.
Type(f) ==
  /\ Key /\ AtInput
  /\ filter' = f
  /\ Apply(live, f)
  /\ UNCHANGED <<github, query, live, selected, focus, opening, known, marks, failed, walk>>

AcceptFilter ==
  /\ Key /\ AtInput
  /\ typing' = FALSE
  /\ Apply(live, filter)
  /\ publishing' = Append(publishing, filter) /\ outran' = FALSE
  /\ UNCHANGED <<github, pushed, live, selected, engaged, active, filter, opening, known,
                 marks, failed, walk>>

\* Mutant: only an accepted filter is published.
NotOnCancel(f) == publishing
PublishFilter(f) == Append(publishing, f)

CancelFilter ==
  /\ Key /\ AtInput
  /\ typing' = FALSE
  /\ filter' = "all"
  /\ Apply(live, "all")
  /\ publishing' = PublishFilter("all") /\ outran' = FALSE
  /\ UNCHANGED <<github, pushed, live, selected, engaged, active, opening, known, marks,
                 failed, walk>>

\* openJobNameForm: the set is frozen here; the cursor leaves the list, so what
\* was deferred is applied.
OpenForm ==
  /\ Key /\ AtList
  /\ FrozenSelection # {}
  /\ form' = FrozenSelection
  /\ Apply(live, filter)
  /\ UNCHANGED <<github, query, live, selected, focus, filter, resolving, dialog, known,
                 marks, failed, walk>>

CancelForm ==
  /\ Key /\ AtForm
  /\ form' = {}
  /\ UNCHANGED <<github, query, live, frame, selected, focus, filter, resolving, dialog,
                 known, marks, failed, walk>>

SubmitForm ==
  /\ Key /\ AtForm
  /\ resolving = {}
  /\ resolving' = form /\ form' = {}
  /\ UNCHANGED <<github, query, live, frame, selected, focus, filter, dialog, known,
                 marks, failed, walk>>

\* jobNameResolved: of the set asked about, got held a Job of that name, miss did
\* not, and the rest were not reached.  A resolution that failed or froze nothing
\* offers nothing.
Resolved(got, miss) ==
  /\ got \cup miss # {}
  /\ got \cup miss \subseteq resolving /\ got \cap miss = {}
  /\ resolving' = {}
  /\ IF Plannable(got \cup miss) THEN Offer(PlanOf("rerun-job", got, miss))
     ELSE UNCHANGED <<dialog, walk>>
  /\ UNCHANGED <<github, query, live, frame, selected, focus, filter, form, known,
                 marks, failed, keys>>

ResolvedNothing ==
  /\ resolving # {}
  /\ resolving' = {}
  /\ UNCHANGED <<github, query, live, frame, selected, focus, filter, form, dialog, known,
                 marks, failed, walk, keys>>

\* SetActive(false), by a tab key, which the root takes only from the list:
\* leaving is idle.
Leave ==
  /\ Key /\ AtList
  /\ active' = FALSE
  /\ Apply(live, filter)
  /\ UNCHANGED <<github, query, live, selected, engaged, typing, filter, opening, known,
                 marks, failed, walk>>

Return ==
  /\ Key /\ ~active
  /\ active' = TRUE
  /\ UNCHANGED <<github, query, live, frame, selected, engaged, typing, filter, opening,
                 known, marks, failed, walk>>

\* The Workflows tab asks for a workflow's Runs: the focus and a filter arrive.
ShowRuns(f) ==
  /\ Key /\ ~active
  /\ active' = TRUE
  /\ filter' = f
  /\ Apply(live, f)
  /\ publishing' = Append(publishing, f) /\ outran' = FALSE
  /\ UNCHANGED <<github, pushed, live, selected, engaged, typing, opening, known, marks,
                 failed, walk>>

Environment ==
  \/ \E r \in Run : Create(r) \/ Finish(r) \/ Change(r) \/ Attempt(r)
  \/ \E o \in Repo : Depart(o) \/ Update(o) \/ PollFailed(o) \/ ReposDiscovered(o)
  \/ Membership
  \/ \E k \in DOMAIN publishing : Publish(k)
  \/ Frame \/ WalkEnds
  \/ \E got \in SUBSET resolving, miss \in SUBSET resolving : Resolved(got, miss)
  \/ ResolvedNothing

Operator ==
  \/ \E k \in DOMAIN rows \cup {1} : MoveTo(k)
  \/ ToggleSelect \/ Refresh
  \/ \E op \in Verbs : OpKey(op)
  \/ Accept \/ Abort \/ Escalate
  \/ OpenFilter \/ AcceptFilter \/ CancelFilter
  \/ \E f \in Filter : Type(f) \/ ShowRuns(f)
  \/ OpenForm \/ CancelForm \/ SubmitForm
  \/ Leave \/ Return

Next == Environment \/ Operator

Spec == Init /\ [][Next]_vars

-----------------------------------------------------------------------------
(* Properties. *)

\* The type invariant.
TypeOK ==
  /\ gh \in [Run -> Listed \cup {NoRun, Unborn}]
  /\ member \subseteq Repo /\ changes \in 0..MaxChanges
  /\ pushed \in Filter /\ publishing \in Seq(Filter) /\ filter \in Filter /\ outran \in BOOLEAN
  /\ live \in [Run -> Listed \cup {NoRun}] /\ painted \in [Run -> Listed \cup {NoRun}]
  /\ rows \in Seq(Run) /\ cursor \in Nat \ {0}
  /\ tally \in [added : Nat, removed : Nat, moved : Nat]
  /\ selected \subseteq Run /\ marks \subseteq Run
  /\ engaged \in BOOLEAN /\ active \in BOOLEAN /\ typing \in BOOLEAN
  /\ form \subseteq Run /\ resolving \subseteq Run
  /\ dialog.items \subseteq Run /\ dialog.skip \subseteq dialog.items
  /\ known \subseteq Repo /\ failed \subseteq Repo
  /\ walk.set \subseteq Run /\ walk.todo \subseteq walk.set /\ walk.acted \subseteq walk.set
  /\ keys \in 0..MaxKeys

\* What is deferred is told exactly (live-run-feed R9, R11): whatever polls, keys
\* and filters came in whatever order, the counts of new and of removed Runs are
\* the differences between the painted rows and the truth under the filter, and
\* a row that survives shows its Run's latest fields.
TallyIsExact ==
  LET V == View(live, filter) IN
  /\ tally.added = Cardinality(V \ RowSet)
  /\ tally.removed = Cardinality(RowSet \ V)
  /\ \A r \in RowSet \cap V : painted[r] = live[r]
  /\ cursor \in DOMAIN rows \cup {1}

RunKept ==
  /\ InList /\ keys' = keys => UNCHANGED <<rows, cursor>>
  /\ rows' # rows /\ rows # <<>> /\ (\E k \in DOMAIN rows' : rows'[k] = CursorRun)
       => rows'[cursor'] = CursorRun

\* R10 and R12: while the operator is in the list, nothing but a key moves a row
\* or the cursor; and whenever the rows are repainted, for whatever reason, the
\* cursor is on the Run it was on if that Run is still there.
CursorKeepsRun == [][RunKept]_vars

DialogKept ==
  dialog # NoDialog /\ dialog' \notin {dialog, NoDialog} =>
    \/ keys' # keys /\ dialog'.items = dialog.items
    \/ resolving # {} /\ resolving' = {} /\ dialog'.items \subseteq resolving

\* A set of one may be launched with no dialog.
LaunchedAsShown ==
  walk' # walk /\ walk'.set # walk.set /\ walk' # NoWalk =>
    \/ dialog # NoDialog /\ dialog' = NoDialog /\ walk'.set = dialog.items
    \/ Cardinality(walk'.set) = 1 /\ (walk'.set = FrozenSelection \/ walk'.set \subseteq resolving)

FormKept ==
  /\ form # {} => form' \in {form, {}}
  /\ resolving = {} => resolving' \in {form, {}}

\* Run-lifecycle R6a, R16: the set under an open dialog or form is the one frozen
\* when it opened.  Polls, prunes, frames and failures leave it; the operator may
\* put another verb over the same set; only an arriving resolution puts another
\* set there.  What an answered dialog launches is that set.
FrozenStays == [][DialogKept /\ LaunchedAsShown /\ FormKept]_vars

\* The two together: what the operator is pointing at stays what it is.
RowsKept == CursorKeepsRun /\ FrozenStays

\* R22: once the published filters have arrived and the input is closed, the
\* scheduler polls under the filter the Feed shows, not under one that was typed
\* and given up, in whatever order the commands that carry them ran: but for the
\* one case that the filter published last got there before an earlier one, and
\* that only until the next is published.
FilterIsPushed == publishing = <<>> /\ ~typing /\ ~outran => pushed = filter

EndsObserved ==
  /\ \A r \in Run : ~live[r].done /\ live'[r].done => r \notin marks'
  /\ \A r \in marks \ marks' : live'[r].done \/ RepoOf[r] \notin member
  /\ \A o \in failed \ failed' :
       o \in member => \A r \in Run : RepoOf[r] = o => live'[r] = Listing(o, pushed)[r]

\* Run-lifecycle R4a and live-run-feed R37: an indicator ends when what it is
\* about is observed and by nothing else.  A poll that shows a Run completed ends
\* its cancellation mark, its row on screen or not; no key, filter, capability
\* or frame does; a failed poll stands until a listing arrives; and either goes
\* when the repository has left the poll set.
IndicatorsEnd == [][EndsObserved]_vars

\* R13a, and the comment on liveByID: a set frozen from a selection holds every
\* selected Run there still is, those the filter in force leaves out included.
SelectionIsWhole ==
  [][dialog = NoDialog /\ dialog' # NoDialog /\ resolving' = resolving /\ selected # {}
       => \A r \in selected : Exists(gh[r]) => r \in dialog'.items]_vars
=============================================================================
