# gh-runs: models, checks and proofs

gh-runs is a terminal program over the GitHub API: it discovers the
repositories a user can reach, polls their Actions runs into one live feed, and
deletes, cancels or re-runs selected runs under confirmation. This directory
holds TLA+ models of its concurrent and failure-prone parts, the TLC runs that
check them on small instances, and TLAPS proofs of what matters most for every
instance. References of the form `file.go:line` are under `src/internal/`, except
`main.go`, which is `src/main.go`.

* [The system](#the-system)
* [The modules](#the-modules)
* [The runs](#the-runs)
* [Where the code disagrees with its documents](#where-the-code-disagrees-with-its-documents)
* [What is proved](#what-is-proved)
* [What is abstracted, and what is not modelled](#what-is-abstracted-and-what-is-not-modelled)
* [Plan](#plan)

## The system

Every request travels one chain of HTTP round-trippers, assembled in `main.go`:

    surfaces (feed, storage tab, command line)
      -> operations engine (ops) | scheduler | discovery
        -> store      conditional GETs, the on-disk cache
          -> governor   write pacing, rate-limit holds, the Readout
            -> limiter    a semaphore over the wire
              -> GitHub

The terminal interface is one goroutine (the Bubble Tea loop) that receives
messages; engines run in goroutines of their own and reach it through channels.

| Component | State it keeps | Operations | What is hard | What makes it correct |
|---|---|---|---|---|
| Operations engine, the walk (`ops/execute.go`) | results by repository, failure streak, retry set, one counter of attempts | Execute, Retry, deleteItem, mutateItem | a lost or late answer, a rate limit, a cancelled request, a log that cannot be written, a retry of a retry | touches only what was confirmed; each request has one line in the log; the breaker stops at the right failure; it ends |
| Operations engine, launches (`ops/ops.go`, `ops/progress.go`) | the gate `launching`, the deletion-log gate, a one-slot channel per stream, single-use cells | Start, Retry, stream, Cancel | commands of two goroutines, messages that arrive in another order, dropped frames | at most one operation; the only cancel reaches the operation that runs; the terminal frame arrives |
| Deletion log (`ops/log.go`) | an append-only file and its generations | open, write, rotate | a write that fails after the deletion happened; a rotation killed half way, or refused a step and going on | the log is never more than one attempt behind, and a rotation loses only the oldest lines, or those of a generation it was refused to move |
| Plan and Confirm (`ops/plan.go`, `ops/confirm.go`) | none | Plan, Confirm | stale capabilities | every member of a selection is accounted for once |
| Governor (`governor/*.go`) | next write slot, interval, clean streak, two holds, dynamic ceiling | RoundTrip: pace, send, observe | answers observed in another order than they were sent; writes that wait with an old slot | writes are spaced; a hold is published until it expires; a write that claimed knowing a hold honours it |
| Limiter (`limiter/limiter.go`) | a semaphore | acquire, release | every way out of a request | no slot leaks, never more than its bound on the wire |
| Scheduler (`scheduler/*.go`) | poll set, tiers, last polls, ETags, in-flight set, wake channel, fast-path gate, pause | loop, poll, SetFilter, SetViewport, Stop | a filter changed under a poll, a wake that races the timer, stop with polls in flight, exhaustion | one poll per repository at a time; the feed converges on what GitHub holds; polling never dies; the channel closes last |
| Scheduler budget (`scheduler/budget.go`) | the demotion episode | the projection, the auto-scaled intervals, demotion | integer division, a shift at the width of a duration, pressure that comes and goes | the slower tiers together stay under the ceiling; no interval wraps; no promotion before the reset |
| Store (`store/*.go`) | files under one directory, a lock file, a mutex, the read-only flag | RoundTrip: load, revalidate, save, evict; invalidation after a write | two processes, kills, damaged files, two answers for one key | one writer; the bound holds; no outdated entry is served |
| Discovery (`discovery/*.go`) | a record per repository, definitive-failure counts | FastPath, Pass, Reprobe, adopt, Reload | three kinds of pass write the same records concurrently | an excluded repository gets nothing; an adopted clone does not outlive its session; a repository is retired by failures in a row and by nothing else |
| Live run feed and its dialog (`tui/feed`, `tui/confirm`) | the Runs held, the rows painted, what is deferred, cursor, selection, filter, form, dialog, marks | Update per message, a key at a time | rows that change under the cursor, a selection or an open dialog; a filter that is pushed to the scheduler meanwhile; a resolution that comes back late | nothing moves under the cursor; the confirmed set is the frozen one; a mark ends when what it is about is seen |
| Run detail, log view, approval (`tui/rundetail`, `tui/logview`, `tui/approval`) | the target Run and its Jobs, debounce and refresh timers; the parsed log, its folds and search; the decision, its environments, its comment | retarget, fetch, refresh, fold, search, delete; approve, review | answers and timers for a Run the pane has left; a fold that changes what a search found | what is shown is of the Run it is over; every wait ends |
| Storage tab (`tui/storage`) | lists and figures per repository, the selection, what was reclaimed, downloads | fetch, select, reclaim, download | three answers at three moments; listings that still name what was deleted; two downloads of one file | a figure counts what its rows list; a key acts on what is on screen; no half archive is left |
| Dispatch form, Workflows tab (`tui/dispatch`, `tui/workflows`) | the ref, the inputs of its YAML, the values, the re-submit guard; the list and the toggles under way | Open, cycleRef, submit; toggle | YAMLs of several refs in any order; a lost answer to the POST | one Run per Dispatch; the inputs are those of the ref shown |
| Settings, configuration (`tui/settings`, `config`) | the file, the running configuration, the baseline of the last write | resolve, edit, commit, Save | edits by hand between a read and a rename; a failed write; values out of range | what was not edited is left as it is; what was is on disk or said not to be |
| Root model, running strip (`tui/tui.go`, `tui/running`) | focus, overlays, profile, the strip | the order in which a key is offered; adoption of a stream | a surface that captures keys; frames of a stream that is over | one surface has the focus; all share the profile; the strip shows the live operation |
| Command line (`cli/*`) | none | delete, cancel, rerun, list | partial failure, interrupts, kills | exit codes tell what happened; nothing but what was asked for is touched |
| Filters, identities, presentation | none | pure conversions | | |

## The modules

`FrozenSet` — what an operation promises the user who confirmed it: a member of
the frozen set is pending, handled or given up, never handled twice, nothing
outside the set is ever touched, and a retry re-attempts only what was given up.

`Pass` — the walk of `ops/execute.go`, which implements `FrozenSet` (property
`Authority`). Each item is a request sent, an answer chosen by the server, and
its consequences: rate-limit re-attempts bounded at three and reclassified, 404
as success, 409 as skip, the failure streak and the breaker, a line in the log
(which may fail) before the next request, cancellation before, during and after
a request, and Retry over the failures. What is there on the server is a variable
of its own, so that an answer can be lost after the server acted.

`Launch` — the launch protocol around a walk: the confirm cell, the retry cell,
the gate, the goroutine with its one-slot channel, the root model that adapts
one stream at a time, and the strip with its cancel key and its offer to retry.
The walk is reduced to its frames. Results reach the root in any order, each from
a goroutine of its own; the history variable `overtook` has the walks whose handle
came before an earlier one's.

`DeletionLog` — the files of the log, and a rotation as the steps it is on the
disk: the last generation removed, the others shifted from the last, the active
file renamed, a new one created. Each may be refused, and a kill may come between
any two. As in the code (`ops/log.go:112`, `:116`), a removal or a shift that is
refused is ignored and the next rename goes on, over a generation that stayed; the
close, the last rename and the reopening fail the line. Two history variables say
what the files no longer can: `left`, the lines of the generations that were refused
a shift, and `whole`, that no rotation was cut short or refused one.

`Governor` — `RoundTrip` of the governor over the limiter over an external
server: claim a slot under the lock, pace outside it, queue for the semaphore,
send, and observe the answer whenever its goroutine gets the lock again. Time is
a clock that requests wait on.

`Budget` — the arithmetic of `scheduler/budget.go` as operators: projection, the
whole-set and medium intervals, the clamped shift at its width in bits, and the
episode of pressure as a record that Readouts and ticks act on.

`Scheduler` — the loop over `Budget` (exhausted or not, due polls spawned, one
wait, one wake channel), a poll as a goroutine of its own with its result applied
under the lock and its event sent on an unbuffered channel, tiers and pins, the
fast-path gate, the filter and the viewport, Stop, and the feed as the receiver
of events.

`Plan` — the operators by which a set of Runs becomes a plan: why a member is
skipped, what the set's size and spread price at, what a re-run is not offered
for.

`Feed` — the live run feed over `Plan`: each message of its Update and each key of
its list, filter input, by-name form and confirmation dialog is an action. Rows,
the frame painted and the Runs held are three variables, as in the code, since
what the properties are about is how they part and meet again: polls repaint in
place and defer the rest while the operator is in the list, and an idle moment,
a refresh or a filter applies it. The commands that carry a filter to the scheduler
run in any order; the history variable `outran` says that the last one published ran
before another. GitHub, discovery, the scheduler's filter, a
by-name resolution and the launched walk are the environment.

`Detail`, `LogView`, `Approval` — the three panes; `Panes` composes them with the
Feed's side that opens, retargets, feeds and closes them. A request or a timer is
a count per kind and Run of what is out, since it may land at any time and any
number of times after the pane has gone on to something else. A log is a sequence
of lines, found by the search or not, and of group markers; its blocks are what
the parse makes of them, and a fold, a search and the cursor work on the lines that
are visible.

`Storage` — the storage tab: a fetch is three requests with three answers, a
listing may go on naming what was deleted, and an object is its size in bytes, so
that a sum says which objects a figure counts.

`Dispatch` and `Workflows` — the form and the tab it opens over: reads by what
they were asked for, the re-submit guard by everything that is sent, toggles by
the state they name.

`Settings` and `Shell` — the configuration file, its resolution and the pane that
edits it; and the root model that decides which surface a key goes to and what it
tells its tabs. `Tabs` puts the storage tab, the Workflows tab and the root side
by side: they share no state and a key reaches one of them.

`Command` — the write commands over `Plan` and `DeletionLog`, an invocation after
another: guards, scope, crawl, resolution by name, plan, consent, walk, interrupt,
kill, exit code.

`Store` — processes that start, take the lock or go without, sweep, serve any
number of requests at once, and are killed; files with complete, outdated,
damaged and temporary contents; the ceiling, the bound, eviction, invalidation.

`Discovery` — sessions over one store: the reload at launch, the goroutine that
`main.go` starts behind the first poll (a pass unless the reload admitted
something, then the adoption of the launch repository), the refresh key with its
one-pass guard, and re-probes, all writing one map of records. Passes fan out to
a goroutine per repository; an answer lands whenever it does. The two documents
are written one after the other and either write may fail. The exclude list may
differ from one session to the next, and a session may be killed anywhere.

`WarmStart` — `Discovery` with two history variables, for the one question what a
session that spends no pass knows.

`PassProofs`, `LaunchProofs`, `GovernorProofs`, `SchedulerProofs`, `StoreProofs`,
`DiscoveryProofs`, `FeedProofs`, `TabsProofs` — the theorems. `MC*` — instances
for TLC. How each definition corresponds to the code is in `PROJECT.json`
("map"): the definition, the file and the lines.

Composition: `Pass` is composed with its abstract specification and with the
server; `Governor` contains the limiter and the transport's far end; `Scheduler`
extends `Budget` and contains the feed's receiving end; `Launch` contains the
engine, the root model and the strip; `Feed` the tab, the dialog, the planner and
the scheduler's filter; `Panes` the three overlays; `Tabs` the other tabs and the
root; `Command` the planner, the walk and the log.

## The runs

All of it is `tlc -config <cfg> <module>`; `PROJECT.json` ("runs") lists the
properties of each, and for every property of a passing run a mutant of the code
that breaks it ("mutants"). Properties of one component are gathered under one
name, a conjunction of named parts, so that one exploration answers one question.
Deadlock is not checked in any run: every one of these systems may stop (a pass
ends, a user quits, the requests and keys a bound allows are used up), and where
stopping would be wrong a liveness property says so.

| Run | Question | Answer |
|---|---|---|
| `pass` | Does one pass and its retry, for each kind of operation, keep the promise of `FrozenSet` while items vanish, answers get lost, rate limits come and the user cancels? | Yes: what a deletion destroyed is gone and on record but for the last attempt (`RecordedAndGone`), log, frames and breaker give one account (`WalkAccounts`), it ends (`PassEnds`), and it implements the abstract specification (`Authority`). |
| `launch` | Is there one operation at a time and is it the one in the strip, whatever the interleaving of commands, walks and receives, and does the strip end with it? | Yes (`AdmittedOnce`, `StripInReach`), in whatever order results come, but that an operation whose Started handle overtakes an earlier one's is not; and the terminal frame is never lost (`StripSettles`). |
| `governor` | Do slots leak, do writes bunch, is a hold forgotten, does a request hang, with answers observed in any order? | No (`SlotsKept`, `HoldsKept`, `EveryRequestEnds`). |
| `scheduler` | Is polling single-flight, is the channel closed last, does the schedule stay in its budget, does polling go on for ever, does the feed converge on what GitHub holds? | Yes (`PollsAreHeld`, `BudgetKept`, `PollsRecur`, `FeedConverges`), for as long as the account does not stay exhausted and nobody quits. |
| `store` | One writer, no live temporary swept, the bound, nothing stale served, no mutex left held? | Yes (`FilesInOrder`, `Bounded`, `ServedIsCurrent`). |
| `discovery` | Over sessions, exclude lists, clones and concurrent passes, what is in the set, and when does it leave? | Only what is listed or launched in, never what is excluded (`SetIsRight`); it leaves after failures in a row (`RetiredByFailures`). |
| `warm_start` | Does a session that spends no pass know the whole set? | Not when the pass it relies on was cut short. |
| `feed` | Whatever comes between two keys, does the operator act on what is on screen? | Yes: the cursor keeps its Run and a dialog the set it opened over (`RowsKept`), the tally of what is new and gone is exact, marks end when they should (`IndicatorsEnd`), and the scheduler polls under the filter shown (`FilterIsPushed`), unless the filter published last outran another. |
| `selection_lost` | Is every selected Run in the set a key freezes? | Not after a filter that leaves it out was accepted and polled under. |
| `panes` | Is what a pane shows of the Run it is over, is a log whole and its search exact, and does everything a pane sets going come to an end? | Yes: the Jobs, the log and its lines are of the Run, no line of a log is lost in a fold and no match of a search missed (`PanesShowRightly`), and it ends (`PanesSettle`). |
| `tabs` | Do figures, rows and archives of the storage tab agree with what there is, does a form send what it shows and once, does an edit reach the disk and every surface? | Yes (`StorageIsTrue`, `FormsKeepTheirWord`, `SettingsTakeEffect`), within what the next section says of each. |
| `command` | Does an exit code tell what happened, is only what was asked for and confirmed touched, is every deletion on record? | Yes (`WordIsKept`, `RecordIsKept`), but for one line at each kill, failed write or interrupted request; and what is on disk is the end of the record, but for the lines of a generation that was refused its shift. |

### Bounds, and why they are enough

* `pass` — three items, two retries of a rate limit, a breaker at two, one retry
  of the pass. Three items are needed for a breaker to trip with one item left
  and for a streak to be broken by a success; two passes for a retry set that
  is not the whole set. The code's own numbers (50 by default, and 3) change no branch.
* `launch` — two launches, four keys, one frame a walk. Overtaking needs two
  launches, and it does come about: without the exception it makes, `StripInReach`
  fails. Of the other two keys, which may confirm a second set, press retry again,
  stop or dismiss, each can race either launch. `LaunchProofs` covers any number.
* `governor` — two writers (spacing and a slot claimed before a hold), a reader
  (which depresses the ceiling and is not paced), one limiter slot so that a
  request queues, rates 1 to 3 so that the ramp can go up twice and be halved,
  three requests and four ticks so that a slot can be claimed in a hold, after
  it and before it. Bigger windows repeat the same order of events.
* `scheduler` — two repositories, of which one is the launch repository; two
  filters whose listings coincide at version 0, so that an ETag can carry over
  from one filter to the next; one change at GitHub; an unbuffered channel is
  modelled as such, and `MaxEvents` = 2 bounds what the environment does unasked.
  Fast and medium intervals of one tick, a slow one of two, and a ceiling that two
  repositories at the slow interval stay under and at the medium one do not;
  a demotion of one step, reached in one tick of pressure. `SchedulerProofs` covers
  every other number.
* `store` — two processes, so that one is degraded; two goroutines in the first,
  so that their calls interleave; two keys of one repository, one stored and
  one damaged at the start; sizes that exceed the bound together and the
  ceiling alone; one kill, three requests.
* `discovery` — one repository: repositories meet only in the two documents,
  where each record is admitted by itself. Three sessions, so that what one
  persists is reloaded, persisted and reloaded again; two refreshes or re-probes;
  retirement after two. `warm_start` needs two repositories and no more than two
  sessions.
* `feed` — two Runs in two repositories: a completed one where the account may
  write and one yet to be created, of a deleted Workflow, where it may only read and
  which alone the narrow filter matches; four keys, one re-run, deletion or
  departure by somebody else, failing polls of one repository. Repositories meet in
  the set a key freezes and in nothing else of the Feed, so two are enough, and one
  whose polls fail. Four keys reach
  everything the keys relate: move, select, ask, answer; type, accept, come back,
  ask; open the form, submit, ask for something else, answer what came instead.
  Force-cancel is reached from the dialog and not by its key (`Verbs`).
  `selection_lost` takes seven keys and no change. Any number of polls, failures,
  prunes and frames may come between two keys.
* `panes` — two Runs of two Jobs, one Run live at the start: two Runs for an answer
  of the Run that was left, two Jobs for a log that is not the first; a log of six
  lines, with matches inside two groups and outside them, where the second group
  starts in the first and neither is closed; `TabsProofs` covers every other log. A visit starts
  at the detail pane, at an open log or at the decision pane, with the keys and
  changes of the world each needs; any number of answers and timers come between.
* `tabs` — a visit to the storage tab has three keys over two Caches and two
  Artifacts (one of them expired) and one deletion elsewhere, two fetches and two
  downloads at once; to the Workflows tab two keys; to the form five, over two
  Workflows and two refs whose options differ, two equal reads at once; to the root
  six, over files that are missing, unreadable, no mapping, or hold values that are
  valid, of another type, out of range or malformed, and one edit by hand.
* `command` — three Runs, two of the repository that is here, of which one has lost its
  Workflow, and one of a repository that may only be read; a breaker at two, a log whose
  files hold a line each and which keeps two generations, so that every append
  rotates, and two invocations, so that the second opens what the first left. Both
  ways in which a rotation may lose a line are reached: the oldest generation is
  dropped, and one in the middle is renamed over when the removal and a shift are
  refused; a record without a gap is not what this run shows.

### Fairness

* `Pass`: the walk's goroutine is scheduled, and a request on the wire is
  answered, if only by a transport error (the client has a timeout). Nobody has
  to cancel or retry.
* `Launch`: commands, walks and the root's loop run; the Go scheduler and Bubble
  Tea's receive loop guarantee as much. One condition is enough since what they
  have to do between two keys is finite. Nobody has to press a key.
* `Governor`: time passes, a due timer fires, a free limiter slot is taken, a
  request comes back, RoundTrip's last part runs. A caller's cancellation is not
  assumed. Weak fairness of `Acquire` for every caller is what the channel's
  first-in-first-out queue of waiting senders gives.
* `Scheduler`: goroutines run, time passes, answers arrive, the feed receives.
  Neither the refill of the allowance nor other traffic is assumed; the
  properties that need them state so as their premise.
* `Panes`: what is out lands, a request by its answer or its failure and a timer by
  firing. Nobody has to press a key, and the world need not move; that Jobs arrive
  has as its premise that the account is not exhausted.
* `Store`, `Discovery`, `Feed`, `Tabs` and `Command` are checked for safety only and
  state no fairness.

## Where the code disagrees with its documents

Two runs have a single property, which is violated, with the quotation in
`PROJECT.json` ("findings").

* `warm_start` — `main.go:592` skips the pass because the store "already holds the
  whole classified set". A pass broken off by exhaustion or by failures is
  persisted all the same.
* `selection_lost` — R13a (`docs/features/live-run-feed/requirements.md:118`) wants to
  "filter to one repository's failures, select, filter to another's, select more,
  delete once". The selection does survive, but the set is resolved against the
  Runs of the last polls (`tui/feed/feed.go:851`), and an accepted filter makes
  those the Runs it matches (`:492`). The count says two, the dialog holds one.

What follows was seen while modelling and is part of the models' behaviour, so
the properties above are stated around it. No run is about it: either no
document promises the contrary plainly, or it takes a delay that is hard to bring
about, or the runs had better questions to answer.

Engines:

* a deletion cancelled on the wire leaves no line, also if the DELETE had been
  applied (`ops/execute.go:440`), where README and purge R29 promise one for every
  deletion;
* a poll answered with the remembered ETag emits no Update (`scheduler/engine.go:174`),
  so a failure mark outlives a successful poll, where `scheduler/scheduler.go:59` says
  that a later Update clears it;
* the loop declines to schedule "until the reset instant" (`scheduler/engine.go:41`),
  but the Readout stays exhausted until some response says otherwise, and an
  exhausted loop asks for none;
* an episode of pressure escalates by the time that has passed, a pause by exhaustion
  included, and a wait computed under demotion overshoots the reset; the projection
  prices the two slower tiers, not the fast one, nor the launch repository while it
  is polled outside the set;
* the strip follows whichever Started handle comes last (`tui/tui.go:541`), so one
  overtaken by a later launch's leaves the later walk without its cancel;
* a write that waits in its slot when a hold begins goes out in the hold
  (`governor/governor.go:389`);
* a rotation ignores a removal or a shift that fails and goes on (`ops/log.go:112`,
  `:116`), so the next generation is renamed over the one that stayed, which may leave
  a gap in the record (`RecordIsKept` says when, and that there is no other); and the
  gate on deletions is one process's: the interface and the command line at once may
  rotate over each other;
* a `delete` interrupted in its crawl exits 1 (`cli/delete.go:76`, `:106`), interrupted in
  its walk 2;
* two presses of the refresh key may start two passes.

Live feed and panes:

* a deferred reorder is counted once: the row adopts its new start
  (`tui/feed/feed.go:1410`), and the next poll of any repository finds nothing moved
  while the row is still to move;
* two filters published in quick succession travel on two commands
  (`tui/feed/feed.go:1486`) and may arrive in the other order;
* the comment on the Feed's map of failures says that an entry is cleared by an
  Update "and by nothing else" (`tui/feed/feed.go:324`), from before the prune below
  it (`:1265`);
* a detail pane hidden by a narrow width still takes what is routed to it
  (`tui/feed/feed.go:1081`), and keys in that width do not retarget it; one whose Run
  has left the list stays over it (`tui/rundetail/rundetail.go:455`); moving off a
  live Run and back within a refresh leaves two refresh loops;
* a search's matches are not recomputed when a fold is toggled, nor after a refetch
  that failed, so they may point at other lines, and past the last one, to which
  the cursor is then clamped; `LogIsWhole` is of the lines as the search left them,
  every fold open;
* the answers to a review and its environments carry no Run
  (`tui/approval/approval.go:148`): a pane reopened over another Run takes them.

Other tabs:

* a storage figure may take off reclaimed bytes twice when the usage and the list
  requests straddle a deletion (`tui/storage/storage.go:253`); two downloads of one
  Artifact write one file, and the one that fails removes the other's; a quit leaves
  the part that was written;
* while another ref's YAML is loading, the form on screen is still the last one's
  (`tui/dispatch/dispatch.go:616`), and an edit begun in it and committed after the
  other has landed may leave a choice outside its options (`:566`); a remembered value
  is the form's when the answer lands, not the one that was sent; answers are told
  apart by ref and not by Workflow or repository; an answer that is lost clears the
  guard, so the same Dispatch may be made again;
* the reads of the Workflows tab may land in another order than they were made;
* an edit of the file by hand between Save's read and its rename is lost; a commit that
  changes nothing writes nothing, also after a write that failed; reopening the
  pane clears the note of a failed write.

## What is proved

For every value of the constants that the named assumptions admit
(the ASSUMEs at the head of each module, evaluated by TLC in
the runs as well). `PROJECT.json` ("theorems") names each result and the
property it is about.

* **Pass** (`PassProofs`). `TypeOK` is inductive. `WalkInv` adds what the walk
  relies on: the plan lists no item twice, what is ahead of the cursor is
  pending, the failures are those listed for retry, and a pass opens fresh. Over
  both, `GoneInv` (a success is of an object that is gone, and an effect is
  counted once) gives `SucceededIsGone`, `LogTrailsByOne` is inductive, and every
  step is a step of `FrozenSet` or a stutter, which is `Authority`. The three parts of
  `WalkAccounts` have an invariant each. `FramesInv`: while it walks, the buckets
  count what is behind the cursor, and what is outstanding with the skips ahead
  is what lies ahead of it (`WalkAddsUp`), so a frame adds up at any moment, not
  only at the end. `LogInv`: the last line of an item says its fate (`TellsOf`), and
  an item still pending has only failures before it. `BreakInv`: the engine keeps a
  number where the property speaks of attempts, and the number is the length of the
  longest run of failures that the walk so far ends in (`EndsIn`).
* **Launch** (`LaunchProofs`). `Gated` says what the two gates and the retry cells keep
  between them: the launch gate has one holder, a walk that has not ended or a
  retry between its two tests, for whom a walk is left to be born; the log's gate
  is held by a walk that walks; and a Summary whose cell is unspent has no
  re-attempt. It is inductive and gives `AdmittedOnce`: a second walk at the log's
  gate would be a second holder of the first. `StripInv` says that walks are born in
  the order of their results, that one at the gate is the last born, that a terminal
  frame is of a walk that has let the gate go, and that the strip runs exactly while
  a stream is adapted. It gives `StripInReach`, for results in any order: every walk
  the root knows, but for those whose handle overtook another, is older than all it
  is still to be told of (`Ordered`), so none of those runs when a result is received.
  `LaunchInv` gives `TypeOK` with results in any order. Its part `Claimed` is what the
  types rest on: a stream has one claim on it, its result on the way, one receive or
  one frame received, so it is received from once at a time; `Paid` says that
  a key paid for each command.
* **Command** (`LaunchProofs` too; it shares no variable with `Launch`). `CommandInv`
  follows a selection through an invocation: `Selected` (nothing is held that the
  words do not ask for), `Confirmed` (a set is walked on the word that confirmed it),
  `Followed` (where each Run has got to, phase by phase, up to one cut off on the
  wire), `ExitTellsAll`, and `Typed`, which gives `CommandTypeOK`. Together they give
  `WordIsKept`. For `RecordIsKept`, `Recorded` counts the deletions on no line against the
  kills, failures and interrupts that excuse them, and `LogInv` is about the files: of a log
  no rotation of which was cut short or refused a shift, every generation stands where
  the number of lines alone says (`InPlace`); what a rotation renames to next is not
  there, is the oldest, or was refused its shift (`Shelved`); a line from some first one
  on is on disk or was left in the way of a shift (`Reaches`); and a file's worth of the
  latest is always on disk (`Recent`), since the active file is full when it rotates.
* **Governor** (`GovernorProofs`). `TypeOK` and `SlotsAccounted` are inductive
  only together: the counter of slots has a type because it counts requests.
  `Throttled` (the next slot lies a gap after every slot claimed) gives
  `SlotsSpaced`; `Holding` relates the hold to the last deadline observed and
  gives `HoldIsPublished`; the claim of a slot keeps `KnownHoldKept`.
* **Scheduler** (`SchedulerProofs`). `ScheduleAffordable` is about the two
  intervals as functions: for any set, any prioritised part of it and any numbers,
  what the medium and the slow tier cost together stays under the ceiling. It rests
  on a rounded-up quotient covering its dividend and on products compared one
  factor at a time. `Held` relates the in-flight set, the goroutines and the
  WaitGroup: a poll that is out has its flag set, the counter counts polls and
  loop, and at zero nobody is left. It is inductive and gives `PollsAreHeld`, and,
  with `ScheduleAffordable`, the part `ScheduleFits` of `BudgetKept`. `Timed`, the range
  of an episode, gives the part `NoPromotionInside`. The third part,
  `IntervalsStretch`, is about shifts at the width of a duration. That a power of two
  is a positive number and grows with its exponent would take induction; it is had
  by counting instead, since 2^n is the number of subsets of a set of n. The
  theorem has a hypothesis that the code does not check: the whole set's interval,
  doubled as often as the clamp lets it, is less than 2^(Width-1). With the constants of
  `scheduler/budget.go:16` that is so up to some eight thousand repositories; above,
  the interval may wrap. `TypeOK` follows from `Held` with what counts ticks (`Clocked`,
  the episode in the range it has), the flags (`Flagged`) and the pages (`Paged`).
* **Store** (`StoreProofs`). `TypeOK` with `ClockCounts`. `FilesInv` says who is at
  the files: the holder of the lock runs, one of its calls has the mutex, the
  temporaries are those of renames under way; it gives `WriterAlone`,
  `MutexHasHolder` and `TempsAreLive`. `Fresh`, a call's body was current since
  the call began, gives `ServedIsCurrent`. `Bounded`: a step leaves the files as they
  are or removes some, and lets go of no debt; or it owes a sweep from then on; or it
  is the sweep that found the store within its bound (`StepOwes`). That removing files
  makes the store no larger is a fact about a sum, which the community modules take over
  one member after another; two such sums are compared set by set (`SumMonotone`).
* **Discovery** (`DiscoveryProofs`). `TypeOK` needs that a task in the middle of an
  adoption has a launch repository, and so that a session starts with all tasks
  at rest (`OffAtRest`). `Closed` (excluded repositories are in no record and on
  no wire) gives `ExcludedGetNothing`. `Vouched` follows a record into a re-probe's
  snapshot, into what persist writes and into the document: one that no
  enumeration returned is adopted or unknown, and neither is reloaded; it gives
  `OutsidersAreLaunched`. `CountsTrail`, a record's count is at most the failures
  since the last success, gives `RetiredByFailures`; it needs `Closed`, because a
  success writes nothing for an excluded repository.
* **Feed** (`FeedProofs`). `Steps` sorts the actions by what they touch. `QueryInv`,
  the last filter published is the one shown unless the input is open, is
  inductive for commands that run in any order: one that runs leaves the filter
  published last the last, or is its own and the last, or has outrun the others, which
  `outran` remembers. It gives `FilterIsPushed`. `KeysCount` tells a key from what nobody
  pressed, which with the definition of `Follow` is what `CursorKeepsRun` needs;
  `WalkShape`, with what `Offer` may do, gives `FrozenStays`; `IndicatorsEnd` follows
  from the actions alone. `FeedInv` gives the type in four parts: the world, the
  screen, what is pointed at, the rest. The screen takes the work: rows are a set
  sorted, and that sorting lists each member of a set once (`SortedLists`) is proved
  from the choice that makes it; on it rest the cursor's row and what a deferred
  frame counts as new and gone, which is `TallyIsExact`.
* **Tabs** (`TabsProofs`). `FormInv`: a record of the guard in flight is exactly one
  POST that is out, and one that is away has left a Run only where an answer was
  lost; with what a key and an answer may put in a form it gives
  `FormsKeepTheirWord`. `SettingsInv` strengthens `SettingsReachDisk` to the write
  that is under way: what is about to be renamed into place already reads back as
  the pane's copy, in every setting nobody wrote by hand before it was read. It
  needs that whatever the pane holds resolves to itself (`Settled`), which is why a
  number is clamped before it is kept, and that a file that is no mapping has no
  nodes. With `FocusInv` it gives `SettingsTakeEffect`. Assumed of a file: a node of the
  wrong type has no entries; of the bounded number: its default is within the bound.
  For the Storage tab, `StorageParts` says what the API, the tab, the fetches, the
  Reclamation and the files may be: nothing destroyed is selected, the cursor is less
  than the number of rows, and an archive half written has somebody writing it
  (`HalfIsWritten`). It gives `StorageIsTrue` with two lemmas: the sum of a set of sizes
  splits along any part of it (`SumSplits`), so that a figure less what was reclaimed is
  the sum of what is listed; and in a finite set of numbers every rank is some member's
  (`Ranked`), so that a cursor within the rows is on one. The types of the other visits
  (`WorkflowsTypesHold`, `ShellTypesHold`) complete `TypeOK`.
* **Panes** (`TabsProofs` too). `PanesInv` ties each pane to the Feed that opened it: the
  Jobs held are of the Run the pane is over, which it is loaded for exactly when it
  holds them (`Over`), a log's lines are of its Job (`OfItsJob`), a pane on screen
  knows by the rows whether its Run is live (`Shows`). It gives `PanesTypeOK` and
  `PanesShowTheirRun`. `LogIsWhole` is about sequences made of sequences: the parse, the
  visible lines and the matches each concatenate what the members of another sequence
  contribute. `Joined` says so without recursion; such a concatenation exists, is
  the only one, regroups, and is what `FlattenSeq` returns. From it: a parse that takes in
  a fold with all that was in it keeps every line that is no marker (`ParseIsWhole`);
  blocks whose folds are open show every line they hold (`AllIsShown`); opening folds
  hides nothing (`ExpandedIsLonger`); and a fold toggled under its own header leaves
  that header, and so the cursor, in its place, which is the line after all of the blocks
  before it (`ToggleKeeps`). `LogParts`, what the view keeps true open or closed,
  is inductive with `PanesInv`. The two properties are `PanesShowRightly`.

Where a run's property gathers several parts, a theorem combines the theorems of
the parts and states the property as the run does. So every invariant and every
action property that a passing run checks is proved. Model-checked only: liveness
(`PassEnds`, `StripSettles`, `EveryRequestEnds`, `FeedConverges`, `PollsRecur`, `PanesSettle`),
which the prover does not reach, like `ENABLED`. Induction over data is avoided: what is
recursive in the models is a function (a parse) or a fold of the community modules
(a sum, a concatenation), and a claim about it that failed somewhere would fail at a
least number or in a smallest set. One theorem assumes more than its module does, and
says so: `BudgetKept`, the size of the poll set.

## What is abstracted, and what is not modelled

* `Pass`: what a request says is its outcome class. A rotation of the log is one
  more way for a write to fail; its steps are `DeletionLog`'s.
* `Launch`: a walk is its frames; it ends in any way.
* `Governor`: the burn rate, primary usage and pressure half of the Readout is
  left out; rates are integers and halving truncates; the interval is a constant
  function of the rate instead of a float; a caller cancels while pacing or
  queued (a request on the wire that is cancelled is one that fails).
* `Budget` and `Scheduler`: a minute is `Window` ticks and a listing a point; the burn
  rate that makes pressure is a Boolean that rises and falls off; pins are a
  constant; the Workflow listing is a second resource and is not modelled; holds
  without a date and headers on failed answers are left out; answer and decision
  are one step, deferred calls are merged into the poll's end, goroutines start at
  once; the outside does nothing after quit.
* `Store`: the clock is the number of process starts; the invalidation mark is
  read together with the load; eviction and invalidation take a file a step; a
  change at GitHub changes every resource of its repository; a file of another
  schema is one that does not decode; a failed CreateTemp is a failed write, and
  a Remove does not fail. LastRevalidated and LoadDoc only read; the hash of a
  key and the split of headers are data.
* `Discovery`: the server is arbitrary, so whatever the enumeration or a probe may
  return, it returns in some behaviour; the Readout may say exhausted at any
  moment. Any recorded repository may be due (the two tiers are left out), pages
  of an enumeration are merged, a default branch and permissions are data, a
  session without the store's lock is one whose writes do not land. FastPath and
  Discover are not called by `main.go` and are left out; Reprobe has no caller
  there either at this commit, and is modelled as the package offers it.
* `Feed`: a poll is delivered in the step that makes it; what comes between the two
  is `Scheduler`'s. One resolution is out at a time, and a Run has at most one Job of
  the name. A launch is decided, and a request for Runs from the Workflows tab
  arrives, in the step that asks for it. The digits of a typed count and the
  inspect view change nothing the dialog holds. The approvals badge and its filter,
  the cap totals, scrolling and layout are left out; re-run-failed is re-run here.
  A capability does not change once it is known.
* `Panes`: the list is its row under the cursor; timestamps, styles, wrapping and
  scrolling are left out; one query stands for all, and no group's label has it in
  it. The re-run and cancel keys of the detail pane are launches like the Feed's. A
  confirmed deletion of a log ends in the view, as it does in the code at this
  commit.
* `Storage`: two objects never have the same size, so that there are no ties to sort:
  the rows are a set of sizes, and the row under the cursor is the one of that rank;
  the walk of a Reclamation is an outcome per object; the launch is `Launch`'s.
* `Dispatch` and `Workflows`: one input, a choice or a text, stands for a form's; the
  environment inputs, the dispatch with no repository and the filter of the jump
  to a Workflow's Runs are left out. A toggle names the state it wants, which is
  what makes its answers commute.
* `Settings` and `Shell`: one key for each kind of setting; the syntax of YAML and the
  table of keys are data; the palette and the timestamp form are layout.
* `Command`: the walk is `Pass`'s without rate limits; a listing is one answer per
  repository; exit 4 is an exit 1; `list` only reads. Two processes that delete at
  once are left out, since nothing in the code orders them.
* Not modelled at all: filters and identities and the presentation packages, which are
  pure conversions with no state and no order of events; the wiring of the
  transport chain and the flags in `main.go`, which decide what runs and are
  constants here; the pressure arithmetic of the Readout
  (`governor/governor.go`), a quotient of measured rates whose outcome the
  scheduler's model takes as given. `PROJECT.json` ("components") has the reason for
  each part that is modelled in part.

## Plan

What would add most next, in this order:

1. A composition of `Scheduler` with the Readout half of `Governor`, in which resumption
   after a reset is a matter of both components' state.
2. Two processes over the deletion log and the configuration file.
3. The Workflow listing as the scheduler's second resource.
4. What an operation is priced at: that the friction of a plan never goes down when
   its set grows.
5. The abstract specification of `Feed`, a list whose order is the operator's until
   they let it go, with the deferred frame as its refinement.
