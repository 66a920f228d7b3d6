------------------------------- MODULE Launch -------------------------------
(***************************************************************************)
(* How a confirmed set becomes a running operation and how the operator    *)
(* sees it: the launch gate, the retry cell, the streaming goroutine and   *)
(* its one-slot channel (internal/ops/progress.go, ops.go), the commands   *)
(* that call Start and Retry (tui/feed, tui/storage, tui/running), and the *)
(* root model that adapts one stream at a time to the running strip        *)
(* (tui/tui.go, tui/running/running.go).                                   *)
(*                                                                         *)
(* Every command runs on a goroutine of its own, and so does every walk    *)
(* and every receive from a stream; the root handles one message at a      *)
(* time.  The walk itself is module Pass: here it publishes up to Frames   *)
(* snapshots and ends.  Every operation is a deletion, the class that also *)
(* takes the log.                                                          *)
(***************************************************************************)
EXTENDS Integers, Sequences, FiniteSets

CONSTANTS MaxWalks,     \* bound on the operations of a session
          MaxKeys,      \* bound on the sets confirmed and the keys pressed to
                        \* retry or to stop
          Frames        \* snapshots a walk publishes before its terminal one

ASSUME LaunchAssumption ==
  MaxWalks \in Nat /\ MaxKeys \in Nat /\ Frames \in Nat

WalkId == 1..MaxWalks
None   == 0

Frame == [walk : WalkId, n : 1..(Frames + 1), done : BOOLEAN]
NoFrame == [walk |-> None, n |-> 0, done |-> FALSE]
Terminal(w) == [walk |-> w, n |-> Frames + 1, done |-> TRUE]

VARIABLES
  launching, deleting,    \* the two gates of Ops
  stage,                  \* per walk: how far its goroutine is
  parent,                 \* per walk: the pass it retries, or None
  hasFailed,              \* per walk: its Summary records failures
  spent,                  \* per walk: its Summary's retry cell
  refused,                \* the walks that found the log held
  cancelled,              \* the walks whose context is cancelled
  published,              \* per walk: frames made so far
  chan,                   \* per walk: the slot of its channel
  launches,               \* launch commands not yet run
  retries, retryHeld,     \* retry commands not yet run; the one holding the gate
  cancels,                \* cancel commands not yet run
  pressed,                \* history: the walks whose cancel key was hit
  listeners,              \* per walk: receives in progress on its channel
  results,                \* launch results on their way to the root, as they were made
  overtook,               \* history: the walks whose handle reached the root before
                          \* that of an earlier walk
  frames,                 \* progressFrames on their way to the root
  progress,               \* the root's m.progress
  phase, shown, stopping, last,   \* the strip: whose cancel it holds, what it shows
  keys                    \* keys the operator may still press

gates  == <<launching, deleting>>
walks  == <<stage, parent, hasFailed, spent, refused, published>>
cmds   == <<launches, retries, retryHeld, cancels>>
strip  == <<phase, shown, stopping, last>>
vars   == <<gates, walks, cancelled, chan, cmds, pressed, listeners, results, overtook,
            frames, progress, strip, keys>>

Started(w)   == [kind |-> "started", walk |-> w]
LaunchFailed == [kind |-> "failed", walk |-> None]

Holding == {w \in WalkId : stage[w] \in {"born", "walking", "ended"}}

Init ==
  /\ launching = FALSE /\ deleting = FALSE
  /\ stage = [w \in WalkId |-> "unborn"]
  /\ parent = [w \in WalkId |-> None]
  /\ hasFailed = [w \in WalkId |-> FALSE]
  /\ spent = [w \in WalkId |-> FALSE]
  /\ refused = {} /\ cancelled = {} /\ pressed = {} /\ overtook = {}
  /\ published = [w \in WalkId |-> 0]
  /\ chan = [w \in WalkId |-> NoFrame]
  /\ launches = 0 /\ retryHeld = None /\ cancels = {}
  /\ retries = [w \in WalkId |-> 0]
  /\ listeners = [w \in WalkId |-> 0]
  /\ results = <<>> /\ frames = {}
  /\ progress = None
  /\ phase = "idle" /\ shown = None /\ stopping = FALSE /\ last = NoFrame
  /\ keys = MaxKeys

-----------------------------------------------------------------------------
(* The engine's two entries. *)

Unborn == {w \in WalkId : stage[w] = "unborn"}
NextId == CHOOSE w \in Unborn : \A v \in Unborn : w <= v

\* start: the goroutine is spawned and the handle goes back to the command.
Spawn(p) ==
  /\ stage' = [stage EXCEPT ![NextId] = "born"]
  /\ parent' = [parent EXCEPT ![NextId] = p]
  /\ results' = Append(results, Started(NextId))

\* A launch command: Confirm, then Start, which takes the gate before it spends
\* the confirmation.
ExecLaunch ==
  /\ launches > 0
  /\ launches' = launches - 1
  /\ \/ /\ launching                              \* ErrBusy
        /\ results' = Append(results, LaunchFailed)
        /\ UNCHANGED <<launching, stage, parent>>
     \/ /\ ~launching /\ Unborn # {}
        /\ launching' = TRUE
        /\ Spawn(None)
  /\ UNCHANGED <<deleting, hasFailed, spent, refused, published, cancelled,
                 chan, retries, retryHeld, cancels, pressed, overtook, listeners, frames,
                 progress, strip, keys>>

\* A retry command takes the gate first ...
RetryGate(w) ==
  /\ retries[w] > 0
  /\ retries' = [retries EXCEPT ![w] = @ - 1]
  /\ \/ /\ launching                              \* ErrBusy: the cell is untouched
        /\ results' = Append(results, LaunchFailed)
        /\ UNCHANGED <<launching, retryHeld>>
     \/ /\ ~launching /\ Unborn # {}
        /\ launching' = TRUE
        /\ retryHeld' = w
        /\ UNCHANGED results
  /\ UNCHANGED <<deleting, walks, cancelled, chan, launches, cancels, pressed, overtook,
                 listeners, frames, progress, strip, keys>>

\* ... then the Summary's cell: one pass authorises one re-attempt.
RetryCell ==
  /\ retryHeld # None
  /\ retryHeld' = None
  /\ \/ /\ spent[retryHeld]                   \* ErrNothingToRetry
        /\ launching' = FALSE
        /\ results' = Append(results, LaunchFailed)
        /\ UNCHANGED <<stage, parent, spent>>
     \/ /\ ~spent[retryHeld]
        /\ spent' = [spent EXCEPT ![retryHeld] = TRUE]
        /\ Spawn(retryHeld)
        /\ UNCHANGED launching
  /\ UNCHANGED <<deleting, hasFailed, refused, published, cancelled, chan,
                 launches, retries, cancels, pressed, overtook, listeners, frames, progress,
                 strip, keys>>

-----------------------------------------------------------------------------
(* The streaming goroutine of walk w. *)

StreamRest == <<parent, spent, cancelled, cmds, pressed, overtook, listeners, results, frames,
                progress, strip, keys>>

\* executeDelete takes the log for itself, or refuses: another deletion has it,
\* or it cannot be opened.
TakeLog(w) ==
  /\ stage[w] = "born"
  /\ \/ /\ ~deleting
        /\ stage' = [stage EXCEPT ![w] = "ended"]
        /\ UNCHANGED <<deleting, refused>>
     \/ /\ ~deleting
        /\ deleting' = TRUE
        /\ stage' = [stage EXCEPT ![w] = "walking"]
        /\ UNCHANGED refused
     \/ /\ deleting
        /\ refused' = refused \cup {w}
        /\ stage' = [stage EXCEPT ![w] = "ended"]
        /\ UNCHANGED deleting
  /\ UNCHANGED <<launching, hasFailed, published, chan, StreamRest>>

\* Mutant: a full slot keeps its frame and loses the newer one.
KeepOlder(w, f) == IF chan[w] = NoFrame THEN f ELSE chan[w]
\* offer: the slot's stale snapshot, if it still holds one, gives way.  There is
\* one producer, so its two turns amount to one step: a receiver that takes the
\* stale frame in between could have taken it just before.
Offered(w, f) == f

\* The walk publishes a snapshot.
Publish(w) ==
  /\ stage[w] = "walking" /\ published[w] < Frames
  /\ published' = [published EXCEPT ![w] = @ + 1]
  /\ chan' = [chan EXCEPT ![w] =
                Offered(w, [walk |-> w, n |-> published[w] + 1, done |-> FALSE])]
  /\ UNCHANGED <<gates, stage, hasFailed, refused, StreamRest>>

\* The walk returns, with or without failures on record, and the log is free.
EndWalk(w) ==
  /\ stage[w] = "walking"
  /\ stage' = [stage EXCEPT ![w] = "ended"]
  /\ deleting' = FALSE
  /\ \E b \in BOOLEAN : hasFailed' = [hasFailed EXCEPT ![w] = b]
  /\ UNCHANGED <<launching, refused, published, chan, StreamRest>>

\* The gate is released before the terminal frame goes out.
Release(w) ==
  /\ stage[w] = "ended"
  /\ stage' = [stage EXCEPT ![w] = "freed"]
  /\ launching' = FALSE
  /\ UNCHANGED <<deleting, hasFailed, refused, published, chan, StreamRest>>

Tell(w) ==
  /\ stage[w] = "freed"
  /\ stage' = [stage EXCEPT ![w] = "told"]
  /\ chan' = [chan EXCEPT ![w] = Offered(w, Terminal(w))]
  /\ UNCHANGED <<gates, hasFailed, refused, published, StreamRest>>

\* Mutant: the deferred release clears the gate again, whoever holds it by now.
ReleaseTwice == FALSE
DeferredRelease == launching

\* The deferred calls: the context is released, the gate is left alone because
\* this walk has released it already, the channel is closed.
Close(w) ==
  /\ stage[w] = "told"
  /\ stage' = [stage EXCEPT ![w] = "closed"]
  /\ launching' = DeferredRelease
  /\ UNCHANGED <<deleting, hasFailed, refused, published, chan, StreamRest>>

-----------------------------------------------------------------------------
(* The commands' and receivers' goroutines of the terminal program. *)

\* A cancel command calls the cancel it was made with.
ExecCancel(w) ==
  /\ w \in cancels
  /\ cancels' = cancels \ {w}
  /\ cancelled' = cancelled \cup {w}
  /\ UNCHANGED <<gates, walks, chan, launches, retries, retryHeld, pressed, overtook, listeners,
                 results, frames, progress, strip, keys>>

\* listenProgress: one frame is received, or the closed channel ends the loop.
Listen(w) ==
  /\ listeners[w] > 0
  /\ listeners' = [listeners EXCEPT ![w] = @ - 1]
  /\ \/ /\ chan[w] # NoFrame
        /\ frames' = frames \cup {chan[w]}
        /\ chan' = [chan EXCEPT ![w] = NoFrame]
     \/ /\ chan[w] = NoFrame /\ stage[w] = "closed"
        /\ UNCHANGED <<frames, chan>>
  /\ UNCHANGED <<gates, walks, cancelled, cmds, pressed, overtook, results, progress, strip, keys>>

-----------------------------------------------------------------------------
(* The root model's Update. *)

Without(k) == [j \in 1..(Len(results) - 1) |-> results[IF j < k THEN j ELSE j + 1]]
Rearm(w)   == IF w = None THEN listeners ELSE [listeners EXCEPT ![w] = @ + 1]

\* A handle that reaches the root before one made earlier.
Overtaking(k) ==
  IF results[k].kind = "started" /\ \E j \in 1..(k - 1) : results[j].kind = "started"
  THEN {results[k].walk} ELSE {}

\* Mutant: a refusal always takes the strip over.
FailAlways == phase \in {"idle", "running", "finished", "failed"}
FailTakesStrip == phase # "running"

\* ops.Started: the stream replaces whatever was adapted, the strip is reset.
\* ops.LaunchFailed: a note beside a running operation, else the strip's state.
\* Results come in any order: nothing makes a command's goroutine reach the
\* root's channel in its turn.
DeliverResult(k) ==
  /\ k \in DOMAIN results
  /\ results' = Without(k)
  /\ overtook' = overtook \cup Overtaking(k)
  /\ \/ /\ results[k].kind = "started"
        /\ progress' = results[k].walk
        /\ listeners' = Rearm(results[k].walk)
        /\ phase' = "running" /\ shown' = results[k].walk
        /\ stopping' = FALSE /\ last' = NoFrame
     \/ /\ results[k].kind = "failed" /\ FailTakesStrip
        /\ phase' = "failed" /\ shown' = None /\ stopping' = FALSE /\ last' = NoFrame
        /\ UNCHANGED <<progress, listeners>>
     \/ /\ results[k].kind = "failed" /\ ~FailTakesStrip
        /\ UNCHANGED <<progress, listeners, strip>>
  /\ UNCHANGED <<gates, walks, cancelled, chan, cmds, pressed, frames, keys>>

\* Mutant: any stream's frame is applied.
AnyStream(f) == FALSE
Foreign(f) == f.walk # progress

\* progressFrame: dropped unless it is the adapted stream's; the terminal frame
\* ends the adaptation, any other re-arms it.
DeliverFrame(f) ==
  /\ f \in frames
  /\ frames' = frames \ {f}
  /\ \/ /\ Foreign(f)
        /\ UNCHANGED <<listeners, progress, strip>>
     \/ /\ ~Foreign(f)
        /\ progress' = IF f.done THEN None ELSE progress
        /\ listeners' = IF f.done THEN listeners ELSE Rearm(progress)
        /\ last' = IF phase = "idle" THEN last ELSE f
        /\ phase' = IF phase # "idle" /\ f.done THEN "finished" ELSE phase
        /\ UNCHANGED <<shown, stopping>>
  /\ UNCHANGED <<gates, walks, cancelled, chan, cmds, pressed, overtook, results, keys>>

-----------------------------------------------------------------------------
(* The operator. *)

PressLaunch ==
  /\ keys > 0
  /\ keys' = keys - 1
  /\ launches' = launches + 1
  /\ UNCHANGED <<gates, walks, cancelled, chan, retries, retryHeld, cancels, pressed, overtook,
                 listeners, results, frames, progress, strip>>

\* Offered from a finished pass that has failures on record.
PressRetry ==
  /\ keys > 0
  /\ phase = "finished" /\ last # NoFrame /\ hasFailed[last.walk]
  /\ keys' = keys - 1
  /\ retries' = [retries EXCEPT ![last.walk] = @ + 1]
  /\ UNCHANGED <<gates, walks, cancelled, chan, launches, retryHeld, cancels, pressed, overtook,
                 listeners, results, frames, progress, strip>>

\* The cancel chord dismisses what is over and stops what runs, once.
PressCancel ==
  /\ \/ /\ phase \in {"finished", "failed"}
        /\ phase' = "idle" /\ shown' = None /\ stopping' = FALSE /\ last' = NoFrame
        /\ UNCHANGED <<cancels, pressed, keys>>
     \/ /\ phase = "running" /\ shown # None /\ ~stopping
        /\ keys > 0 /\ keys' = keys - 1
        /\ stopping' = TRUE
        /\ cancels' = cancels \cup {shown}
        /\ pressed' = pressed \cup {shown}
        /\ UNCHANGED <<phase, shown, last>>
  /\ UNCHANGED <<gates, walks, cancelled, chan, launches, retries, retryHeld, overtook, listeners,
                 results, frames, progress>>

Stream(w) == TakeLog(w) \/ Publish(w) \/ EndWalk(w) \/ Release(w) \/ Tell(w) \/ Close(w)

System == \/ ExecLaunch \/ RetryCell
          \/ \E w \in WalkId : Stream(w) \/ RetryGate(w) \/ ExecCancel(w) \/ Listen(w)
          \/ \E k \in DOMAIN results : DeliverResult(k)
          \/ \E f \in frames : DeliverFrame(f)

Operator == PressLaunch \/ PressRetry \/ PressCancel

Next == System \/ Operator

\* Goroutines are scheduled and the root takes its messages.  What they have to
\* do is finite between two keys, so one fairness condition on all of it is
\* enough.  Nobody has to press a key.
Spec == Init /\ [][Next]_vars /\ WF_vars(System)

-----------------------------------------------------------------------------
(* Properties. *)

\* The type invariant.
TypeOK ==
  /\ launching \in BOOLEAN /\ deleting \in BOOLEAN
  /\ stage \in [WalkId -> {"unborn", "born", "walking", "ended", "freed", "told", "closed"}]
  /\ parent \in [WalkId -> 0..MaxWalks]
  /\ hasFailed \in [WalkId -> BOOLEAN] /\ spent \in [WalkId -> BOOLEAN]
  /\ refused \subseteq WalkId /\ cancelled \subseteq WalkId
  /\ pressed \subseteq WalkId /\ cancels \subseteq WalkId /\ overtook \subseteq WalkId
  /\ published \in [WalkId -> 0..Frames]
  /\ chan \in [WalkId -> Frame \cup {NoFrame}]
  /\ launches \in 0..MaxKeys /\ retryHeld \in 0..MaxWalks
  /\ retries \in [WalkId -> 0..MaxKeys]
  /\ listeners \in [WalkId -> 0..1]
  /\ frames \subseteq Frame /\ progress \in 0..MaxWalks
  /\ phase \in {"idle", "running", "finished", "failed"} /\ shown \in 0..MaxWalks
  /\ stopping \in BOOLEAN /\ last \in Frame \cup {NoFrame}

\* Admission: the launch gate has one holder, never two walks that have not
\* ended nor a walk and a retry between its two tests; whoever wins it finds the
\* log free, not held by the operation before it; and one recorded pass
\* authorises one re-attempt, however often the key is hit (ops.go, progress.go,
\* purge R16, R23).
AdmittedOnce ==
  /\ Cardinality(Holding) + (IF retryHeld = None THEN 0 ELSE 1) <= 1
  /\ launching <=> Holding # {} \/ retryHeld # None
  /\ refused = {}
  /\ \A w \in WalkId : Cardinality({v \in WalkId : parent[v] = w}) <= 1

\* An operation the root has been told of and that is still running is the one
\* on the strip, so its cancel is within reach (ops.go, on launching), in whatever
\* order launch results arrive, and but for an operation whose own handle came
\* before that of an earlier one; and a cancel reaches the operation it was
\* pressed for and no other.
Told(w) == stage[w] # "unborn" /\ ~\E k \in DOMAIN results : results[k] = Started(w)
CancelWithinReach ==
  /\ \A w \in WalkId \ overtook :
       stage[w] \in {"born", "walking"} /\ Told(w) => phase = "running" /\ shown = w
  /\ cancelled \subseteq pressed

\* The strip never shows one operation's frames as another's: the terminal
\* frame of a finished pass, still in flight when the next operation takes the
\* strip, must not end it (tui.go).
StripShowsItsOwn ==
  last # NoFrame => last.walk = shown /\ (phase = "finished" <=> last.done)

\* The two together: the strip is of what runs, and of nothing else.
StripInReach == CancelWithinReach /\ StripShowsItsOwn

\* The terminal frame is never lost: the strip does not show an operation as
\* running for ever.
StripSettles ==
  \A w \in WalkId : (phase = "running" /\ shown = w) ~> ~(phase = "running" /\ shown = w)
=============================================================================
