------------------------------ MODULE FeedProofs ------------------------------
(***************************************************************************)
(* Proofs about the live run feed, for every set of Runs and repositories, *)
(* every way to spread the ones over the others, and any number of keys    *)
(* and changes.                                                            *)
(***************************************************************************)
EXTENDS Feed, SequenceTheorems, FiniteSetTheorems, TLAPS

\* The actions by what they leave alone.
EnvironmentOnly ==
  \/ \E r \in Run : Create(r) \/ Finish(r) \/ Change(r)
  \/ \E o \in Repo : Depart(o)

Walked == (\E r \in Run : Attempt(r)) \/ Frame \/ WalkEnds

Heard == \E o \in Repo : Update(o) \/ PollFailed(o) \/ ReposDiscovered(o)

Published == \E k \in DOMAIN publishing : Publish(k)

Came ==
  \/ \E got \in SUBSET resolving, miss \in SUBSET resolving : Resolved(got, miss)
  \/ ResolvedNothing

InTheList ==
  \/ \E k \in DOMAIN rows \cup {1} : MoveTo(k)
  \/ ToggleSelect \/ Refresh \/ OpenFilter \/ OpenForm \/ Leave
  \/ \E op \in Verbs : OpKey(op)

InTheDialog == Accept \/ Abort \/ Escalate
InTheInput  == AcceptFilter \/ CancelFilter \/ \E f \in Filter : Type(f)
InTheForm   == CancelForm \/ SubmitForm
Elsewhere   == Return \/ \E f \in Filter : ShowRuns(f)

LEMMA Steps ==
  ASSUME [Next]_vars
  PROVE  \/ EnvironmentOnly \/ Walked \/ Heard \/ Membership \/ Published \/ Came
         \/ InTheList \/ InTheDialog \/ InTheInput \/ InTheForm \/ Elsewhere
         \/ UNCHANGED vars
BY DEF Next, Environment, Operator, EnvironmentOnly, Walked, Heard, Published, Came,
       InTheList, InTheDialog, InTheInput, InTheForm, Elsewhere

(***************************************************************************)
(* A key is told from what nobody pressed by the count of keys left.       *)
(***************************************************************************)
KeysCount == keys \in Nat

LEMMA KeysStep ==
  ASSUME KeysCount, [Next]_vars
  PROVE  KeysCount'
<1>1. keys' = keys \/ Key
  <2>1. CASE EnvironmentOnly \/ Walked \/ Heard \/ Membership \/ Published \/ Came
             \/ UNCHANGED vars
    BY <2>1 DEF EnvironmentOnly, Walked, Heard, Published, Came, Create, Finish, Change, Depart,
         Attempt, Frame, WalkEnds, Update, PollFailed, ReposDiscovered, Membership,
         Publish, Resolved, ResolvedNothing, Surroundings, WalkRest, vars
  <2>2. CASE InTheList \/ InTheDialog \/ InTheInput \/ InTheForm \/ Elsewhere
    BY <2>2 DEF InTheList, InTheDialog, InTheInput, InTheForm, Elsewhere, MoveTo,
         ToggleSelect, Refresh, OpenFilter, OpenForm, Leave, OpKey, Accept, Abort,
         Escalate, AcceptFilter, CancelFilter, Type, CancelForm, SubmitForm, Return,
         ShowRuns
  <2> QED BY <2>1, <2>2, Steps
<1> QED BY <1>1 DEF KeysCount, Key

\* The keys pressed never pass their bound.
THEOREM KeysCorrect == Spec => []KeysCount
<1>1. Init => KeysCount
  BY FeedAssumption DEF Init, KeysCount
<1>2. KeysCount /\ [Next]_vars => KeysCount'
  BY KeysStep
<1> QED BY <1>1, <1>2, PTL DEF Spec

LEMMA KeyTakesOne ==
  ASSUME KeysCount, Key
  PROVE  keys' # keys
BY DEF KeysCount, Key

(***************************************************************************)
(* The filter last published, or on its way, is the one shown, unless it    *)
(* outran another.                                                         *)
(***************************************************************************)
Latest == IF publishing = <<>> THEN pushed ELSE publishing[Len(publishing)]

QueryInv ==
  /\ publishing \in Seq(Filter) /\ filter \in Filter
  /\ outran \in BOOLEAN
  /\ ~typing /\ ~outran => Latest = filter

LEMMA AppendIsLatest ==
  ASSUME QueryInv, NEW f \in Filter,
         publishing' = Append(publishing, f)
  PROVE  publishing' \in Seq(Filter) /\ Latest' = f
<1>1. /\ publishing' \in Seq(Filter)
      /\ Len(publishing') = Len(publishing) + 1
      /\ publishing'[Len(publishing) + 1] = f
      /\ Len(publishing) \in Nat
  BY AppendProperties, LenProperties DEF QueryInv
<1>2. publishing' # <<>>
  BY <1>1, EmptySeq
<1> QED BY <1>1, <1>2 DEF Latest

\* A command that runs leaves the filter published last the last, or is its own
\* and has outrun the others.
LEMMA PublishKeepsLatest ==
  ASSUME QueryInv, NEW k \in DOMAIN publishing, Publish(k)
  PROVE  publishing' \in Seq(Filter) /\ (outran' \/ Latest' = Latest)
<1> DEFINE n == Len(publishing)
<1>1. /\ pushed' = publishing[k]
      /\ publishing' = [j \in 1..(n - 1) |-> publishing[IF j < k THEN j ELSE j + 1]]
      /\ outran' = (outran \/ (k = n /\ k > 1))
  BY DEF Publish
<1>2. n \in Nat /\ k \in 1..n /\ n >= 1
  BY LenProperties DEF QueryInv
<1>3. \A j \in 1..n : publishing[j] \in Filter
  BY <1>2, ElementOfSeq DEF QueryInv
<1> HIDE DEF n
<1>4. publishing' \in Seq(Filter) /\ Len(publishing') = n - 1
  <2>1. \A j \in 1..(n - 1) : publishing[IF j < k THEN j ELSE j + 1] \in Filter
    BY <1>2, <1>3
  <2>2. publishing' \in [1..(n - 1) -> Filter]
    BY <1>1, <2>1
  <2> QED BY <1>2, <2>2, SeqDef, LenProperties
<1>5. publishing # <<>>
  BY <1>2, EmptySeq DEF n
<1>6. CASE n = 1
  <2>1. publishing' = <<>> /\ k = 1
    BY <1>2, <1>4, <1>6, EmptySeq
  <2> QED BY <1>1, <1>4, <1>5, <1>6, <2>1 DEF Latest, n
<1>7. ASSUME n > 1, ~outran'
      PROVE  Latest' = Latest
  <2>1. ~(k = n /\ k > 1)
    BY <1>1, <1>7
  <2>2. k < n
    BY <1>2, <1>7, <2>1
  <2>3. n - 1 \in 1..(n - 1) /\ ~(n - 1 < k) /\ (n - 1) + 1 = n
    BY <1>2, <1>7, <2>2
  <2>4. publishing'[n - 1] = publishing[n] /\ publishing' # <<>>
    BY <1>1, <1>4, <1>7, <2>3, EmptySeq
  <2> QED BY <1>4, <1>5, <2>4 DEF Latest, n
<1>8. outran' \in BOOLEAN
  BY <1>1 DEF QueryInv
<1> QED BY <1>2, <1>4, <1>6, <1>7, <1>8

LEMMA QueryStep ==
  ASSUME QueryInv, [Next]_vars
  PROVE  QueryInv'
<1>1. CASE Published
  <2>1. PICK k \in DOMAIN publishing : Publish(k)
    BY <1>1 DEF Published
  <2>2. UNCHANGED <<filter, typing>>
    BY <2>1 DEF Publish, focus
  <2>3. outran' \in BOOLEAN /\ (outran => outran')
    BY <2>1 DEF Publish, QueryInv
  <2> QED BY <2>1, <2>2, <2>3, PublishKeepsLatest DEF QueryInv
<1>2. CASE \/ EnvironmentOnly \/ Walked \/ Heard \/ Membership \/ Came \/ InTheDialog
           \/ InTheForm \/ UNCHANGED vars
  <2>1. UNCHANGED <<query, filter, typing>>
    BY <1>2 DEF EnvironmentOnly, Walked, Heard, Came, InTheDialog, InTheForm, Create,
         Finish, Change, Depart, Attempt, Frame, WalkEnds, Update, PollFailed, ReposDiscovered,
         Membership, Resolved, ResolvedNothing, Accept, Abort, Escalate, CancelForm,
         SubmitForm, Surroundings, WalkRest, focus, vars
  <2> QED BY <2>1 DEF query, QueryInv, Latest
<1>3. CASE InTheList
  <2>1. UNCHANGED <<query, filter>> /\ (typing' = typing \/ typing' = TRUE)
    BY <1>3 DEF InTheList, MoveTo, ToggleSelect, Refresh, OpenFilter, OpenForm, Leave,
         OpKey, focus
  <2> QED BY <2>1 DEF query, QueryInv, Latest
<1>4. CASE AcceptFilter
  BY <1>4, AppendIsLatest DEF AcceptFilter, QueryInv
<1>5. CASE CancelFilter
  <2>1. "all" \in Filter
    BY DEF Filter
  <2> QED BY <1>5, <2>1, AppendIsLatest DEF CancelFilter, PublishFilter, QueryInv
<1>6. ASSUME NEW f \in Filter, Type(f)
      PROVE  QueryInv'
  BY <1>6 DEF Type, AtInput, query, focus, QueryInv
<1>7. CASE Elsewhere
  <2>1. CASE Return
    BY <2>1 DEF Return, query, QueryInv, Latest
  <2>2. ASSUME NEW f \in Filter, ShowRuns(f)
        PROVE  QueryInv'
    BY <2>2, AppendIsLatest DEF ShowRuns, QueryInv
  <2> QED BY <1>7, <2>1, <2>2 DEF Elsewhere
<1> QED BY <1>1, <1>2, <1>3, <1>4, <1>5, <1>6, <1>7, Steps DEF InTheInput

\* publishFilter on accept, on cancel and on a request from another tab: for any
\* sequence of keys, arrivals and messages, and any order in which the commands
\* that carry the filters run, what they leave the scheduler with is the filter
\* the Feed shows, unless the one published last ran before an earlier one and
\* none was published since.
THEOREM FilterArrives == Spec => []FilterIsPushed
<1>1. Init => QueryInv
  BY FeedAssumption, EmptySeq DEF Init, QueryInv, Latest, Filter
<1>2. QueryInv /\ [Next]_vars => QueryInv'
  BY QueryStep
<1>3. QueryInv => FilterIsPushed
  BY DEF QueryInv, Latest, FilterIsPushed
<1> QED BY <1>1, <1>2, <1>3, PTL DEF Spec

(***************************************************************************)
(* The cursor and its Run.                                                 *)
(***************************************************************************)
LEMMA ApplyFollows ==
  ASSUME NEW l, NEW f, Apply(l, f), rows # <<>>,
         \E k \in DOMAIN rows' : rows'[k] = CursorRun
  PROVE  rows'[cursor'] = CursorRun
<1>1. PICK seq : rows' = seq /\ cursor' = Follow(seq)
  BY DEF Apply
<1>2. cursor' = CHOOSE k \in DOMAIN seq : seq[k] = CursorRun
  BY <1>1 DEF Follow
<1> QED BY <1>1, <1>2

LEMMA CursorStep ==
  ASSUME KeysCount, [Next]_vars
  PROVE  RunKept \/ UNCHANGED vars
<1>1. CASE \/ EnvironmentOnly \/ Walked \/ Membership \/ Published \/ Came \/ InTheDialog
           \/ InTheForm
  <2>1. UNCHANGED <<rows, cursor>>
    BY <1>1 DEF EnvironmentOnly, Walked, Published, Came, InTheDialog, InTheForm, Create,
         Finish, Change, Depart, Attempt, Frame, WalkEnds, Membership, Publish, Resolved,
         ResolvedNothing, Accept, Abort, Escalate, CancelForm, SubmitForm, Surroundings,
         WalkRest, frame
  <2> QED BY <2>1 DEF RunKept
<1>2. CASE Heard
  <2>1. ASSUME NEW o \in Repo, Update(o), InList
        PROVE  RunKept
    BY <2>1 DEF Update, Repaint, RunKept
  <2>2. ASSUME NEW o \in Repo, Update(o), ~InList
        PROVE  RunKept
    BY <2>2, ApplyFollows DEF Update, RunKept
  <2>3. ASSUME NEW o \in Repo, PollFailed(o) \/ ReposDiscovered(o)
        PROVE  RunKept
    BY <2>3 DEF PollFailed, ReposDiscovered, frame, RunKept
  <2> QED BY <1>2, <2>1, <2>2, <2>3 DEF Heard
<1>3. ASSUME Key, UNCHANGED rows \/ \E l, f : Apply(l, f)
      PROVE  RunKept
  BY <1>3, ApplyFollows, KeyTakesOne DEF RunKept
<1>4. CASE InTheList \/ InTheInput \/ Elsewhere
  <2>1. Key
    BY <1>4 DEF InTheList, InTheInput, Elsewhere, MoveTo, ToggleSelect, Refresh,
         OpenFilter, OpenForm, Leave, OpKey, AcceptFilter, CancelFilter, Type, Return,
         ShowRuns
  <2>2. UNCHANGED rows \/ \E l, f : Apply(l, f)
    <3>1. CASE \/ \E k \in DOMAIN rows \cup {1} : MoveTo(k)
               \/ \E op \in Verbs : OpKey(op)
               \/ ToggleSelect \/ Return
      BY <3>1 DEF MoveTo, OpKey, ToggleSelect, Return, frame
    <3>2. CASE Refresh \/ OpenFilter \/ OpenForm \/ Leave \/ AcceptFilter
      BY <3>2 DEF Refresh, OpenFilter, OpenForm, Leave, AcceptFilter
    <3>3. CASE CancelFilter \/ \E f \in Filter : Type(f) \/ ShowRuns(f)
      BY <3>3 DEF CancelFilter, Type, ShowRuns
    <3> QED BY <1>4, <3>1, <3>2, <3>3 DEF InTheList, InTheInput, Elsewhere
  <2> QED BY <1>3, <2>1, <2>2
<1> QED BY <1>1, <1>2, <1>4, Steps

\* recompute, applyView and repaintAndDefer: for any Runs, however they come and
\* go, no message moves a row while the operator is in the list, and no repaint
\* takes the cursor off a Run that is still there.
THEOREM CursorStaysOnItsRun == Spec => CursorKeepsRun
<1>1. KeysCount /\ [Next]_vars => [RunKept]_vars
  BY CursorStep
<1> QED BY <1>1, KeysCorrect, PTL DEF Spec, CursorKeepsRun

(***************************************************************************)
(* The frozen set.                                                         *)
(***************************************************************************)
WalkShape == \E o, s, t, a : walk = [op |-> o, set |-> s, todo |-> t, acted |-> a]

LEMMA LaunchShape ==
  ASSUME WalkShape, NEW p, Launch(p)
  PROVE  WalkShape' /\ (walk' = walk \/ walk'.set = p.items)
BY DEF WalkShape, Launch

LEMMA OfferShape ==
  ASSUME WalkShape, NEW p, Offer(p)
  PROVE  /\ WalkShape'
         /\ \/ UNCHANGED walk /\ dialog' \in {dialog, p}
            \/ UNCHANGED dialog /\ walk'.set = p.items /\ Cardinality(p.items) = 1
<1>1. CASE FrictionFor(p.op, p.items) = "none"
  <2>1. Cardinality(p.items) = 1
    BY <1>1 DEF FrictionFor
  <2>2. Launch(p) /\ UNCHANGED dialog
    BY <1>1 DEF Offer
  <2> QED BY <2>1, <2>2, LaunchShape
<1>2. CASE FrictionFor(p.op, p.items) # "none"
  BY <1>2 DEF Offer, WalkShape
<1> QED BY <1>1, <1>2

\* What a member of the walk does to it.
LEMMA WalkedShape ==
  ASSUME WalkShape, Walked
  PROVE  WalkShape' /\ (walk'.set = walk.set \/ walk' = NoWalk)
<1>1. PICK o, s, t, a : walk = [op |-> o, set |-> s, todo |-> t, acted |-> a]
  BY DEF WalkShape
<1>2. ASSUME NEW r \in Run, Attempt(r)
      PROVE  WalkShape' /\ walk'.set = walk.set
  <2>1. \/ walk' = [walk EXCEPT !.todo = @ \ {r}]
        \/ walk' = [walk EXCEPT !.todo = @ \ {r}, !.acted = @ \cup {r}]
    BY <1>2 DEF Attempt
  <2>2. \E t2, a2 : walk' = [op |-> o, set |-> s, todo |-> t2, acted |-> a2]
    BY <1>1, <2>1
  <2>3. walk.set = s /\ walk'.set = s
    BY <1>1, <2>2
  <2> QED BY <2>2, <2>3 DEF WalkShape
<1>3. CASE Frame
  BY <1>3 DEF Frame, WalkShape
<1>4. CASE WalkEnds
  BY <1>4 DEF WalkEnds, NoWalk, WalkShape
<1> QED BY <1>2, <1>3, <1>4 DEF Walked

FrozenKept == DialogKept /\ LaunchedAsShown /\ FormKept

LEMMA UntouchedSet ==
  ASSUME WalkShape, UNCHANGED <<form, resolving, dialog, walk>>
  PROVE  WalkShape' /\ FrozenKept
BY DEF WalkShape, FrozenKept, DialogKept, LaunchedAsShown, FormKept

LEMMA FrozenStep ==
  ASSUME KeysCount, WalkShape, [Next]_vars
  PROVE  WalkShape' /\ FrozenKept
<1>1. CASE \/ EnvironmentOnly \/ Heard \/ Membership \/ Published \/ InTheInput
           \/ Elsewhere \/ UNCHANGED vars
  <2>1. UNCHANGED <<opening, walk>>
    BY <1>1 DEF EnvironmentOnly, Heard, Published, InTheInput, Elsewhere, Create, Finish,
         Change, Depart, Update, PollFailed, ReposDiscovered, Membership, Publish, AcceptFilter,
         CancelFilter, Type, Return, ShowRuns, Surroundings, vars
  <2> QED BY <2>1, UntouchedSet DEF opening
<1>2. CASE Walked
  <2>1. UNCHANGED opening
    BY <1>2 DEF Walked, Attempt, Frame, WalkEnds, WalkRest
  <2>2. WalkShape' /\ (walk'.set = walk.set \/ walk' = NoWalk)
    BY <1>2, WalkedShape
  <2> QED BY <2>1, <2>2 DEF opening, FrozenKept, DialogKept, LaunchedAsShown, FormKept
<1>3. CASE Came
  <2>1. ASSUME NEW got \in SUBSET resolving, NEW miss \in SUBSET resolving,
               Resolved(got, miss)
        PROVE  WalkShape' /\ FrozenKept
    <3> DEFINE p == PlanOf("rerun-job", got, miss)
    <3>1. /\ resolving # {} /\ resolving' = {} /\ UNCHANGED form
          /\ Offer(p) \/ UNCHANGED <<dialog, walk>>
      BY <2>1 DEF Resolved
    <3>2. p.items \subseteq resolving
      BY DEF PlanOf
    <3> HIDE DEF p
    <3>3. /\ WalkShape'
          /\ \/ UNCHANGED walk /\ dialog' \in {dialog, p}
             \/ UNCHANGED dialog /\ walk'.set = p.items /\ Cardinality(p.items) = 1
      BY <3>1, OfferShape DEF WalkShape
    <3> QED BY <3>1, <3>2, <3>3 DEF FrozenKept, DialogKept, LaunchedAsShown, FormKept
  <2>2. CASE ResolvedNothing
    BY <2>2 DEF ResolvedNothing, WalkShape, FrozenKept, DialogKept, LaunchedAsShown,
         FormKept
  <2> QED BY <1>3, <2>1, <2>2 DEF Came
<1>4. CASE InTheList
  <2>1. ASSUME NEW op \in Verbs, OpKey(op)
        PROVE  WalkShape' /\ FrozenKept
    <3>1. dialog = NoDialog /\ UNCHANGED <<form, resolving>>
      BY <2>1 DEF OpKey, AtList
    <3>2. PICK p : Offer(p) /\ p.items = FrozenSelection
      BY <2>1 DEF OpKey, PlanOf
    <3>3. /\ WalkShape'
          /\ \/ UNCHANGED walk
             \/ walk'.set = p.items /\ Cardinality(p.items) = 1
      BY <3>2, OfferShape
    <3> QED BY <3>1, <3>2, <3>3 DEF FrozenKept, DialogKept, LaunchedAsShown, FormKept
  <2>2. CASE OpenForm
    BY <2>2 DEF OpenForm, AtList, WalkShape, FrozenKept, DialogKept, LaunchedAsShown,
         FormKept
  <2>3. CASE \/ \E k \in DOMAIN rows \cup {1} : MoveTo(k)
             \/ ToggleSelect \/ Refresh \/ OpenFilter \/ Leave
    <3>1. UNCHANGED <<opening, walk>>
      BY <2>3 DEF MoveTo, ToggleSelect, Refresh, OpenFilter, Leave
    <3> QED BY <3>1, UntouchedSet DEF opening
  <2> QED BY <1>4, <2>1, <2>2, <2>3 DEF InTheList
<1>5. CASE InTheForm
  BY <1>5 DEF InTheForm, CancelForm, SubmitForm, WalkShape, FrozenKept, DialogKept,
       LaunchedAsShown, FormKept
<1>6. CASE Accept
  <2>1. /\ dialog # NoDialog /\ dialog' = NoDialog /\ UNCHANGED <<form, resolving>>
        /\ Launch(dialog)
    BY <1>6 DEF Accept, AtDialog
  <2>2. WalkShape' /\ (walk' = walk \/ walk'.set = dialog.items)
    BY <2>1, LaunchShape
  <2> QED BY <2>1, <2>2 DEF FrozenKept, DialogKept, LaunchedAsShown, FormKept
<1>7. CASE Abort
  BY <1>7 DEF Abort, WalkShape, FrozenKept, DialogKept, LaunchedAsShown, FormKept
<1>8. CASE Escalate
  <2>1. /\ dialog'.items = dialog.items /\ UNCHANGED <<form, resolving, walk>>
        /\ keys' # keys
    BY <1>8, KeyTakesOne DEF Escalate, Held
  <2> QED BY <2>1 DEF WalkShape, FrozenKept, DialogKept, LaunchedAsShown, FormKept
<1> QED BY <1>1, <1>2, <1>3, <1>4, <1>5, <1>6, <1>7, <1>8, Steps DEF InTheDialog

\* frozenSelection, escalateToForceCancel, the by-name form and launch: for any
\* interleaving of keys, polls, frames and resolutions, the set a dialog or a
\* form was opened over is the one it keeps and the one that is launched.
THEOREM FrozenSetIsKept == Spec => FrozenStays
<1>1. Init => WalkShape
  BY DEF Init, NoWalk, WalkShape
<1>2. KeysCount /\ WalkShape /\ [Next]_vars => WalkShape'
  BY FrozenStep
<1>3. KeysCount /\ WalkShape /\ [Next]_vars =>
        [DialogKept /\ LaunchedAsShown /\ FormKept]_vars
  BY FrozenStep DEF FrozenKept
<1> QED BY <1>1, <1>2, <1>3, KeysCorrect, PTL DEF Spec, FrozenStays

(***************************************************************************)
(* The indicators.                                                         *)
(***************************************************************************)
LEMMA IndicatorStep ==
  ASSUME [Next]_vars
  PROVE  EndsObserved
<1>1. ASSUME NEW o \in Repo, Update(o)
      PROVE  EndsObserved
  <2> DEFINE l == Listing(o, pushed)
  <2>1. live' = l /\ failed' = failed \ {o} /\ marks' = marks \ Observed(l)
    BY <1>1 DEF Update
  <2> HIDE DEF l
  <2>2. \A r \in Run : live'[r].done => r \notin marks'
    BY <2>1 DEF Observed
  <2>3. \A r \in marks \ marks' : live'[r].done
    BY <2>1 DEF Observed
  <2>4. \A q \in failed \ failed' : q = o
    BY <2>1
  <2>5. live' = Listing(o, pushed)
    BY <2>1 DEF l
  <2> QED BY <2>2, <2>3, <2>4, <2>5 DEF EndsObserved
<1>2. CASE Membership
  BY <1>2 DEF Membership, EndsObserved
<1>3. CASE Walked
  <2>1. UNCHANGED <<live, failed>> /\ marks \subseteq marks'
    BY <1>3 DEF Walked, Attempt, Frame, WalkEnds, WalkRest
  <2> QED BY <2>1 DEF EndsObserved
<1>4. ASSUME NEW o \in Repo, PollFailed(o) \/ ReposDiscovered(o)
      PROVE  EndsObserved
  BY <1>4 DEF PollFailed, ReposDiscovered, EndsObserved
<1>5. CASE \/ EnvironmentOnly \/ Published \/ Came \/ InTheList \/ InTheDialog
           \/ InTheInput \/ InTheForm \/ Elsewhere \/ UNCHANGED vars
  <2>1. UNCHANGED <<live, marks, failed>>
    BY <1>5 DEF EnvironmentOnly, Published, Came, InTheList, InTheDialog, InTheInput,
         InTheForm, Elsewhere, Create, Finish, Change, Depart, Publish, Resolved, ResolvedNothing,
         MoveTo, ToggleSelect, Refresh, OpenFilter, OpenForm, Leave, OpKey, Accept, Abort,
         Escalate, AcceptFilter, CancelFilter, Type, CancelForm, SubmitForm, Return,
         ShowRuns, Surroundings, vars
  <2> QED BY <2>1 DEF EndsObserved
<1> QED BY <1>1, <1>2, <1>3, <1>4, <1>5, Steps DEF Heard

\* clearObservedCancellations and both prunes: for any Runs and repositories, a
\* mark or a failure goes away by an observation or with its repository only.
THEOREM IndicatorsEndObserved == Spec => IndicatorsEnd
<1>1. [Next]_vars => [EndsObserved]_vars
  BY IndicatorStep
<1> QED BY <1>1, PTL DEF Spec, IndicatorsEnd

\* applyView, frozenSelection and launch: for any Runs and messages, the row
\* under the cursor and the set under a dialog stay what they are.
THEOREM RowsStayKept == Spec => RowsKept
BY CursorStaysOnItsRun, FrozenSetIsKept, PTL DEF RowsKept

(***************************************************************************)
(* What is painted, and what is told of the rest.  The rows are a finite   *)
(* set put in order, so the frame is exact wherever it is painted, and the *)
(* tally is where it is not.                                               *)
(***************************************************************************)
\* What the Feed may hold of a Run.
Told == Listed \cup {NoRun}

LEMMA ToldIsRecord ==
  ASSUME NEW v \in Told
  PROVE  v = [done |-> v.done, start |-> v.start] /\ v.done \in BOOLEAN /\ v.start \in Int
<1>1. CASE v \in Listed
  BY <1>1 DEF Listed, MaxStart
<1>2. CASE v = NoRun
  BY <1>2 DEF NoRun
<1> QED BY <1>1, <1>2 DEF Told

\* The rows are counted off: of any finite set of Runs, each comes after as many
\* as come before it, and no two after as many.
LEMMA SortedLists ==
  ASSUME NEW l \in [Run -> Told], NEW S \in SUBSET Run
  PROVE  /\ Sorted(l, S) \in Seq(Run) /\ DOMAIN Sorted(l, S) = 1..Cardinality(S)
         /\ {Sorted(l, S)[k] : k \in DOMAIN Sorted(l, S)} = S
<1> DEFINE n == Cardinality(S)
           Down(r) == {q \in S : Before(l, q, r)}
           rank == [r \in S |-> Cardinality(Down(r))]
<1>1. IsFiniteSet(S) /\ n \in Nat
  BY PlanAssumption, FS_Subset, FS_CardinalityType
<1>2. \A a \in S : l[a].start \in Int /\ a \in Nat
  BY ToldIsRecord, FeedAssumption
<1>3. \A a, b \in S : Before(l, a, b) \/ Before(l, b, a) \/ a = b
  BY <1>2 DEF Before
<1>4. /\ \A a \in S : ~Before(l, a, a)
      /\ \A a, b, c \in S : Before(l, a, b) /\ Before(l, b, c) => Before(l, a, c)
  BY <1>2 DEF Before
<1>5. \A r \in S : Down(r) \subseteq S \ {r} /\ IsFiniteSet(Down(r))
  BY <1>1, <1>4, FS_Subset
<1>6. ASSUME NEW r \in S
      PROVE  Cardinality(Down(r)) \in 0..(n - 1)
  <2>1. IsFiniteSet(S \ {r}) /\ Cardinality(S \ {r}) = n - 1
    BY <1>1, FS_RemoveElement
  <2>2. Cardinality(Down(r)) <= n - 1 /\ Cardinality(Down(r)) \in Nat
    BY <1>5, <2>1, FS_Subset, FS_CardinalityType
  <2> QED BY <1>1, <2>2
<1>7. ASSUME NEW a \in S, NEW b \in S, Before(l, a, b)
      PROVE  Cardinality(Down(a)) < Cardinality(Down(b))
  <2>1. Down(a) \cup {a} \subseteq Down(b) /\ a \notin Down(a)
    BY <1>4, <1>7
  <2>2. Cardinality(Down(a) \cup {a}) = Cardinality(Down(a)) + 1
    BY <1>5, <2>1, FS_AddElement
  <2>3. Cardinality(Down(a) \cup {a}) <= Cardinality(Down(b))
    BY <1>5, <2>1, FS_Subset
  <2>4. Cardinality(Down(a)) \in Nat /\ Cardinality(Down(b)) \in Nat
    BY <1>5, FS_CardinalityType
  <2> QED BY <2>2, <2>3, <2>4
<1>8. \A a, b \in S : Cardinality(Down(a)) = Cardinality(Down(b)) => a = b
  <2> SUFFICES ASSUME NEW a \in S, NEW b \in S, Cardinality(Down(a)) = Cardinality(Down(b)),
                      a # b
               PROVE  FALSE
    OBVIOUS
  <2>1. Cardinality(Down(a)) < Cardinality(Down(b)) \/ Cardinality(Down(b)) < Cardinality(Down(a))
    BY <1>3, <1>7
  <2>2. Cardinality(Down(a)) \in Nat
    BY <1>6, <1>1
  <2> QED BY <2>1, <2>2
<1> HIDE DEF Down
<1>9. rank \in Injection(S, 0..(n - 1))
  BY <1>6, <1>8 DEF Injection, IsInjective
<1>10. IsFiniteSet(0..(n - 1)) /\ Cardinality(0..(n - 1)) = n
  BY <1>1, FS_Interval
<1>11. rank \in Surjection(S, 0..(n - 1))
  BY <1>9, <1>10, FS_Injection
<1>12. \A i \in 0..(n - 1) : \E r \in S : rank[r] = i
  BY <1>11 DEF Surjection
<1> DEFINE pick(k) == CHOOSE r \in S : Cardinality(Down(r)) = k - 1
<1>13. ASSUME NEW k \in 1..n
       PROVE  pick(k) \in S /\ Cardinality(Down(pick(k))) = k - 1
  <2>1. k - 1 \in 0..(n - 1)
    BY <1>1
  <2>2. \E r \in S : Cardinality(Down(r)) = k - 1
    BY <1>12, <2>1
  <2> QED BY <2>2
<1>14. ASSUME NEW r \in S
       PROVE  \E k \in 1..n : pick(k) = r
  <2>1. PICK k \in 1..n : Cardinality(Down(r)) = k - 1
    <3>1. Cardinality(Down(r)) + 1 \in 1..n
          /\ Cardinality(Down(r)) = (Cardinality(Down(r)) + 1) - 1
      BY <1>1, <1>6
    <3> QED BY <3>1
  <2>2. Cardinality(Down(pick(k))) = Cardinality(Down(r)) /\ pick(k) \in S
    BY <1>13, <2>1
  <2>3. pick(k) = r
    BY <1>8, <2>2
  <2> QED BY <2>3
<1>15. Sorted(l, S) = [k \in 1..n |-> pick(k)]
  BY DEF Sorted, Down
<1> HIDE DEF pick
<1>16. Sorted(l, S) \in [1..n -> Run]
  BY <1>13, <1>15
<1>17. Sorted(l, S) \in Seq(Run)
  BY <1>1, <1>16, SeqDef
<1> QED BY <1>13, <1>14, <1>15, <1>17

\* What GitHub has, and what the Feed has of it and paints.
WorldTyped ==
  /\ gh \in [Run -> Told \cup {Unborn}]
  /\ member \subseteq Repo /\ changes \in 0..MaxChanges
  /\ known \subseteq Repo /\ failed \subseteq Repo
ScreenInv ==
  /\ live \in [Run -> Told] /\ painted \in [Run -> Told]
  /\ rows \in Seq(Run) /\ filter \in Filter
  /\ tally \in [added : Nat, removed : Nat, moved : Nat]
  /\ TallyIsExact

LEMMA FilterMatches ==
  ASSUME NEW l, NEW f \in Filter
  PROVE  View(l, f) \subseteq Run
BY FeedAssumption DEF View, Shown

\* applyView leaves nothing to tell.
LEMMA AppliedIsExact ==
  ASSUME NEW l \in [Run -> Told], NEW f \in Filter, Apply(l, f), live' = l, filter' = f
  PROVE  ScreenInv'
<1> DEFINE V == View(l, f)
           seq == Sorted(l, V)
<1>1. V \subseteq Run
  BY FilterMatches
<1>2. seq \in Seq(Run) /\ {seq[k] : k \in DOMAIN seq} = V
  BY <1>1, SortedLists
<1>3. /\ rows' = seq /\ tally' = NoChange /\ cursor' = Follow(seq)
      /\ painted' = [r \in Run |-> IF r \in V THEN l[r] ELSE NoRun]
  BY DEF Apply
<1>4. RowSet' = V /\ View(live', filter') = V
  BY <1>2, <1>3 DEF RowSet
<1> HIDE DEF V, seq
<1>5. Follow(seq) \in DOMAIN seq \cup {1}
  BY DEF Follow
<1>6. painted' \in [Run -> Told] /\ \A r \in V : painted'[r] = l[r]
  BY <1>1, <1>3 DEF Told
<1>7. tally' \in [added : Nat, removed : Nat, moved : Nat] /\ tally'.added = 0
      /\ tally'.removed = 0
  BY <1>3 DEF NoChange
<1>8. Cardinality(V \ V) = 0
  BY FS_EmptySet
<1>9. TallyIsExact'
  BY <1>3, <1>4, <1>5, <1>6, <1>7, <1>8 DEF TallyIsExact
<1> QED BY <1>2, <1>3, <1>6, <1>7, <1>9 DEF ScreenInv

\* The rows are of finitely many Runs.
LEMMA RowsAreRuns ==
  ASSUME ScreenInv
  PROVE  /\ RowSet \subseteq Run /\ \A k \in DOMAIN rows : rows[k] \in Run
         /\ rows # <<>> => cursor \in DOMAIN rows /\ CursorRun \in Run
<1>1. /\ DOMAIN rows = 1..Len(rows) /\ Len(rows) \in Nat
      /\ \A k \in 1..Len(rows) : rows[k] \in Run
  BY LenProperties, ElementOfSeq DEF ScreenInv
<1>2. rows # <<>> => Len(rows) > 0
  BY <1>1, EmptySeq DEF ScreenInv
<1>3. cursor \in DOMAIN rows \cup {1}
  BY DEF ScreenInv, TallyIsExact
<1> QED BY <1>1, <1>2, <1>3 DEF RowSet, CursorRun

\* repaintAndDefer tells what it does not show.
LEMMA RepaintedIsExact ==
  ASSUME ScreenInv, NEW l \in [Run -> Told], Repaint(l, filter), live' = l, filter' = filter
  PROVE  ScreenInv'
<1> DEFINE V == View(l, filter)
           moved == {r \in RowSet \cap V : l[r].start # painted[r].start}
<1>1. V \subseteq Run /\ RowSet \subseteq Run
  BY FilterMatches, RowsAreRuns DEF ScreenInv
<1>2. /\ UNCHANGED <<rows, cursor>>
      /\ tally' = [added |-> Cardinality(V \ RowSet), removed |-> Cardinality(RowSet \ V),
                   moved |-> Cardinality(moved)]
      /\ painted' = [r \in Run |-> IF r \in RowSet \cap V THEN l[r] ELSE painted[r]]
  BY DEF Repaint, Counted
<1>3. RowSet' = RowSet /\ View(live', filter') = V
  BY <1>2 DEF RowSet
<1>4. /\ Cardinality(V \ RowSet) \in Nat /\ Cardinality(RowSet \ V) \in Nat
      /\ Cardinality(moved) \in Nat
  <2>1. /\ IsFiniteSet(V \ RowSet) /\ IsFiniteSet(RowSet \ V) /\ IsFiniteSet(moved)
    <3>1. /\ V \ RowSet \subseteq Run /\ RowSet \ V \subseteq Run /\ moved \subseteq Run
      BY <1>1
    <3> HIDE DEF V, moved
    <3> QED BY <3>1, PlanAssumption, FS_Subset
  <2> HIDE DEF V, moved
  <2> QED BY <2>1, FS_CardinalityType
<1> HIDE DEF V, moved
<1>5. painted' \in [Run -> Told] /\ \A r \in RowSet \cap V : painted'[r] = l[r]
  BY <1>1, <1>2 DEF ScreenInv
<1>6. /\ tally' \in [added : Nat, removed : Nat, moved : Nat]
      /\ tally'.added = Cardinality(V \ RowSet) /\ tally'.removed = Cardinality(RowSet \ V)
  BY <1>2, <1>4
<1>7. cursor' \in DOMAIN rows' \cup {1}
  BY <1>2 DEF ScreenInv, TallyIsExact
<1>8. TallyIsExact'
  BY <1>3, <1>5, <1>6, <1>7 DEF TallyIsExact
<1> QED BY <1>2, <1>5, <1>6, <1>8 DEF ScreenInv

\* A listing is of Runs there are.
LEMMA ListingIsTold ==
  ASSUME WorldTyped, ScreenInv, NEW o, NEW f
  PROVE  Listing(o, f) \in [Run -> Told]
<1>1. ASSUME NEW r \in Run, Exists(gh[r])
      PROVE  gh[r] \in Told
  BY <1>1 DEF WorldTyped, Exists, Unborn
<1> QED BY <1>1 DEF Listing, ScreenInv, Told

LEMMA ScreenStep ==
  ASSUME WorldTyped, ScreenInv, [Next]_vars
  PROVE  ScreenInv'
<1>1. CASE UNCHANGED <<live, frame, filter>>
  BY <1>1 DEF frame, ScreenInv, TallyIsExact, RowSet, View, Shown
<1>2. ASSUME NEW o \in Repo, Update(o)
      PROVE  ScreenInv'
  <2> DEFINE l == Listing(o, pushed)
  <2>1. l \in [Run -> Told]
    BY ListingIsTold
  <2>2. /\ live' = l /\ filter' = filter
        /\ IF InList THEN Repaint(l, filter) ELSE Apply(l, filter)
    BY <1>2 DEF Update
  <2>3. filter \in Filter
    BY DEF ScreenInv
  <2> HIDE DEF l
  <2> QED BY <2>1, <2>2, <2>3, RepaintedIsExact, AppliedIsExact
<1>3. ASSUME NEW f \in Filter, Apply(live, f), filter' = f, live' = live
      PROVE  ScreenInv'
  <2>1. live \in [Run -> Told]
    BY DEF ScreenInv
  <2> QED BY <1>3, <2>1, AppliedIsExact
<1>4. CASE \/ EnvironmentOnly \/ Walked \/ Membership \/ Published \/ Came
           \/ InTheDialog \/ InTheForm \/ UNCHANGED vars
  <2>1. UNCHANGED <<live, frame, filter>>
    BY <1>4 DEF EnvironmentOnly, Walked, Published, Came, InTheDialog, InTheForm, Create,
         Finish, Change, Depart, Attempt, Frame, WalkEnds, Membership, Publish, Resolved,
         ResolvedNothing, Accept, Abort, Escalate, CancelForm, SubmitForm, Surroundings,
         WalkRest, vars
  <2> QED BY <1>1, <2>1
<1>5. CASE Heard
  <2>1. ASSUME NEW o \in Repo, PollFailed(o) \/ ReposDiscovered(o)
        PROVE  UNCHANGED <<live, frame, filter>>
    BY <2>1 DEF PollFailed, ReposDiscovered
  <2> QED BY <1>1, <1>2, <1>5, <2>1 DEF Heard
<1>6. ASSUME NEW k \in DOMAIN rows \cup {1}, MoveTo(k)
      PROVE  ScreenInv'
  BY <1>6 DEF MoveTo, ScreenInv, TallyIsExact, RowSet, View, Shown
<1>7. CASE InTheList \/ InTheInput \/ Elsewhere
  <2>1. filter \in Filter /\ "all" \in Filter
    BY DEF ScreenInv, Filter
  <2>2. CASE ToggleSelect \/ (\E op \in Verbs : OpKey(op)) \/ Return
    BY <1>1, <2>2 DEF ToggleSelect, OpKey, Return
  <2>3. CASE Refresh \/ OpenFilter \/ OpenForm \/ Leave \/ AcceptFilter
    <3>1. Apply(live, filter) /\ filter' = filter /\ live' = live
      BY <2>3 DEF Refresh, OpenFilter, OpenForm, Leave, AcceptFilter
    <3> QED BY <1>3, <2>1, <3>1
  <2>4. CASE CancelFilter
    BY <1>3, <2>1, <2>4 DEF CancelFilter
  <2>5. ASSUME NEW f \in Filter, Type(f) \/ ShowRuns(f)
        PROVE  ScreenInv'
    BY <1>3, <2>5 DEF Type, ShowRuns
  <2> QED BY <1>6, <1>7, <2>2, <2>3, <2>4, <2>5 DEF InTheList, InTheInput, Elsewhere
<1> QED BY <1>4, <1>5, <1>7, Steps

\* What the world does, a Run at a time.
LEMMA WorldStep ==
  ASSUME WorldTyped, WalkShape, [Next]_vars
  PROVE  WorldTyped'
<1>1. CASE UNCHANGED <<gh, member, changes, known, failed>>
  BY <1>1 DEF WorldTyped
<1>2. \A b \in BOOLEAN, s \in 0..MaxStart : [done |-> b, start |-> s] \in Listed
  BY DEF Listed
<1>3. ASSUME NEW r \in Run, NEW v \in Told, gh' = [gh EXCEPT ![r] = v],
             UNCHANGED <<member, known, failed>>, changes' \in 0..MaxChanges
      PROVE  WorldTyped'
  <2>1. gh' \in [Run -> Told \cup {Unborn}]
    BY <1>3 DEF WorldTyped
  <2> QED BY <1>3, <2>1 DEF WorldTyped
<1>4. ASSUME NEW r \in Run, gh[r].start < MaxStart, gh[r].done
      PROVE  [done |-> FALSE, start |-> gh[r].start + 1] \in Told
  <2>1. gh[r].start + 1 \in 0..MaxStart
    <3>1. gh[r] \in Listed
      BY <1>4 DEF WorldTyped, Told, Unborn, NoRun
    <3> QED BY <1>4, <3>1 DEF Listed, MaxStart
  <2> QED BY <1>2, <2>1 DEF Told
<1>5. ASSUME NEW r \in Run, Create(r)
      PROVE  WorldTyped'
  <2>1. /\ gh' = [gh EXCEPT ![r] = [done |-> FALSE, start |-> 0]]
        /\ UNCHANGED <<member, known, failed, changes>>
    BY <1>5 DEF Create, Surroundings
  <2>2. [done |-> FALSE, start |-> 0] \in Told
    BY DEF Told, Listed, MaxStart
  <2>3. changes' \in 0..MaxChanges
    BY <2>1 DEF WorldTyped
  <2> QED BY <1>3, <2>1, <2>2, <2>3
<1>6. ASSUME NEW r \in Run, Finish(r)
      PROVE  WorldTyped'
  <2>1. /\ gh' = [gh EXCEPT ![r].done = TRUE] /\ Exists(gh[r])
        /\ UNCHANGED <<member, known, failed, changes>>
    BY <1>6 DEF Finish, Surroundings
  <2>2. gh[r] \in Listed
    BY <2>1 DEF WorldTyped, Told, Exists, Unborn, NoRun
  <2>3. gh'[r] \in Listed
    BY <2>1, <2>2 DEF WorldTyped, Listed
  <2>4. gh' = [q \in Run |-> IF q = r THEN gh'[r] ELSE gh[q]]
    BY <2>1 DEF WorldTyped
  <2>5. gh' \in [Run -> Told \cup {Unborn}]
    BY <2>3, <2>4 DEF WorldTyped, Told
  <2> QED BY <2>1, <2>5 DEF WorldTyped
<1>7. NoRun \in Told
  BY DEF Told
<1>8. ASSUME NEW r \in Run, Change(r)
      PROVE  WorldTyped'
  <2>1. changes > 0 /\ changes' = changes - 1 /\ UNCHANGED <<member, known, failed>>
    BY <1>8 DEF Change, Surroundings
  <2>2. changes' \in 0..MaxChanges
    BY <2>1, FeedAssumption DEF WorldTyped
  <2>3. CASE /\ gh[r].done /\ gh[r].start < MaxStart
             /\ gh' = [gh EXCEPT ![r] = [done |-> FALSE, start |-> gh[r].start + 1]]
    BY <1>3, <1>4, <2>1, <2>2, <2>3
  <2>4. CASE gh' = [gh EXCEPT ![r] = NoRun]
    BY <1>3, <1>7, <2>1, <2>2, <2>4
  <2> QED BY <1>8, <2>3, <2>4 DEF Change
<1>9. ASSUME NEW r \in Run, Attempt(r)
      PROVE  WorldTyped'
  <2>1. UNCHANGED <<member, changes, known, failed>> /\ changes' \in 0..MaxChanges
    BY <1>9 DEF Attempt, WalkRest, WorldTyped
  <2>2. CASE UNCHANGED gh
    BY <1>1, <2>1, <2>2
  <2>3. CASE gh' = [gh EXCEPT ![r] = NoRun]
    BY <1>3, <1>7, <2>1, <2>3
  <2>4. CASE /\ gh[r].done /\ gh[r].start < MaxStart
             /\ gh' = [gh EXCEPT ![r] = [done |-> FALSE, start |-> gh[r].start + 1]]
    BY <1>3, <1>4, <2>1, <2>4
  <2> QED BY <1>9, <2>2, <2>3, <2>4 DEF Attempt
<1>10. ASSUME NEW o \in Repo, Depart(o)
       PROVE  WorldTyped'
  BY <1>10, FeedAssumption DEF Depart, Surroundings, WorldTyped
<1>11. CASE EnvironmentOnly
  BY <1>5, <1>6, <1>8, <1>10, <1>11 DEF EnvironmentOnly
<1>12. CASE Walked
  <2>1. CASE Frame \/ WalkEnds
    BY <1>1, <2>1 DEF Frame, WalkEnds, WalkRest
  <2> QED BY <1>9, <1>12, <2>1 DEF Walked
<1>13. CASE Heard
  BY <1>13 DEF Heard, Update, PollFailed, ReposDiscovered, github, WorldTyped
<1>14. CASE Membership
  BY <1>14 DEF Membership, github, WorldTyped
<1>15. CASE \/ Published \/ Came \/ InTheList \/ InTheDialog \/ InTheInput \/ InTheForm
            \/ Elsewhere \/ UNCHANGED vars
  <2>1. UNCHANGED <<github, known, failed>>
    BY <1>15 DEF Published, Came, InTheList, InTheDialog, InTheInput, InTheForm, Elsewhere,
         Publish, Resolved, ResolvedNothing, MoveTo, ToggleSelect, Refresh, OpenFilter,
         OpenForm, Leave, OpKey, Accept, Abort, Escalate, AcceptFilter, CancelFilter, Type,
         CancelForm, SubmitForm, Return, ShowRuns, vars
  <2> QED BY <1>1, <2>1 DEF github
<1> QED BY <1>11, <1>12, <1>13, <1>14, <1>15, Steps

\* The sets the operator points at.
PointedTyped ==
  /\ selected \subseteq Run /\ marks \subseteq Run
  /\ form \subseteq Run /\ resolving \subseteq Run
  /\ dialog.items \subseteq Run /\ dialog.skip \subseteq dialog.items
  /\ walk.set \subseteq Run /\ walk.todo \subseteq walk.set /\ walk.acted \subseteq walk.set

LEMMA OfferedIsPointed ==
  ASSUME PointedTyped, NEW op, NEW S, NEW U, S \cup U \subseteq Run,
         \/ Offer(PlanOf(op, S, U)) \/ UNCHANGED <<dialog, walk>>,
         UNCHANGED <<selected, marks, form>>, resolving' = resolving \/ resolving' = {}
  PROVE  PointedTyped'
<1> DEFINE p == PlanOf(op, S, U)
<1>1. p.items \subseteq Run /\ p.skip \subseteq p.items
  BY DEF PlanOf
<1> HIDE DEF p
<1>2. dialog' = dialog \/ dialog' = p
  BY DEF Offer, p
<1>3. walk' = walk \/ walk' = [op |-> p.op, set |-> p.items, todo |-> p.items \ p.skip, acted |-> {}]
  BY DEF Offer, Launch, p
<1>4. dialog'.items \subseteq Run /\ dialog'.skip \subseteq dialog'.items
  BY <1>1, <1>2 DEF PointedTyped
<1>5. walk'.set \subseteq Run /\ walk'.todo \subseteq walk'.set /\ walk'.acted \subseteq walk'.set
  BY <1>1, <1>3 DEF PointedTyped
<1> QED BY <1>4, <1>5 DEF PointedTyped

LEMMA PointedStep ==
  ASSUME ScreenInv, WalkShape, PointedTyped, [Next]_vars
  PROVE  PointedTyped'
<1>1. CASE UNCHANGED <<selected, marks, opening, walk>>
  BY <1>1 DEF opening, PointedTyped
<1>2. FrozenSelection \subseteq Run
  BY RowsAreRuns DEF FrozenSelection, PointedTyped
<1>3. CASE EnvironmentOnly \/ Published \/ InTheInput \/ Elsewhere \/ UNCHANGED vars
  <2>1. UNCHANGED <<selected, marks, opening, walk>>
    BY <1>3 DEF EnvironmentOnly, Published, InTheInput, Elsewhere, Create, Finish, Change,
         Depart, Publish, AcceptFilter, CancelFilter, Type, Return, ShowRuns, Surroundings,
         vars
  <2> QED BY <1>1, <2>1
<1>4. CASE Heard \/ Membership
  <2>1. UNCHANGED <<selected, opening, walk>> /\ marks' \subseteq marks
    BY <1>4 DEF Heard, Update, PollFailed, ReposDiscovered, Membership
  <2> QED BY <2>1 DEF opening, PointedTyped
<1>5. ASSUME NEW r \in Run, Attempt(r)
      PROVE  PointedTyped'
  <2>1. UNCHANGED <<selected, marks, opening>> /\ r \in walk.todo
    BY <1>5 DEF Attempt, WalkRest
  <2>2. PICK o, s, t, a : walk = [op |-> o, set |-> s, todo |-> t, acted |-> a]
    BY DEF WalkShape
  <2>3. \/ walk' = [walk EXCEPT !.todo = @ \ {r}]
        \/ walk' = [walk EXCEPT !.todo = @ \ {r}, !.acted = @ \cup {r}]
    BY <1>5 DEF Attempt
  <2>4. /\ walk'.set = walk.set /\ walk'.todo \subseteq walk.todo
        /\ walk'.acted \subseteq walk.acted \cup {r}
    BY <2>2, <2>3
  <2> QED BY <2>1, <2>4 DEF opening, PointedTyped
<1>6. CASE Frame \/ WalkEnds
  <2>1. /\ UNCHANGED <<selected, opening>> /\ walk' \in {walk, NoWalk}
        /\ marks' = marks \/ marks' = marks \cup walk.acted
    BY <1>6 DEF Frame, WalkEnds, WalkRest
  <2>2. NoWalk.set = {} /\ NoWalk.todo = {} /\ NoWalk.acted = {}
    BY DEF NoWalk
  <2> QED BY <2>1, <2>2 DEF opening, PointedTyped
<1>7. CASE Came
  <2>1. ASSUME NEW got \in SUBSET resolving, NEW miss \in SUBSET resolving,
               Resolved(got, miss)
        PROVE  PointedTyped'
    <3>1. /\ got \cup miss \subseteq Run /\ UNCHANGED <<selected, marks, form>> /\ resolving' = {}
          /\ Offer(PlanOf("rerun-job", got, miss)) \/ UNCHANGED <<dialog, walk>>
      BY <2>1 DEF Resolved, PointedTyped
    <3> QED BY <3>1, OfferedIsPointed
  <2>2. CASE ResolvedNothing
    BY <2>2 DEF ResolvedNothing, PointedTyped
  <2> QED BY <1>7, <2>1, <2>2 DEF Came
<1>8. CASE InTheList
  <2>1. ASSUME NEW op \in Verbs, OpKey(op)
        PROVE  PointedTyped'
    <3>1. /\ UNCHANGED <<selected, marks, form, resolving>>
          /\ Offer(PlanOf(op, FrozenSelection, {}))
      BY <2>1 DEF OpKey
    <3> QED BY <1>2, <3>1, OfferedIsPointed
  <2>2. CASE ToggleSelect
    <3>1. /\ UNCHANGED <<marks, opening, walk>>
          /\ selected' \subseteq selected \cup (IF rows = <<>> THEN {} ELSE {CursorRun})
      BY <2>2 DEF ToggleSelect
    <3> QED BY <3>1, RowsAreRuns DEF opening, PointedTyped
  <2>3. CASE OpenForm
    BY <1>2, <2>3 DEF OpenForm, PointedTyped
  <2>4. CASE \/ \E k \in DOMAIN rows \cup {1} : MoveTo(k)
             \/ Refresh \/ OpenFilter \/ Leave
    BY <1>1, <2>4 DEF MoveTo, Refresh, OpenFilter, Leave
  <2> QED BY <1>8, <2>1, <2>2, <2>3, <2>4 DEF InTheList
<1>9. NoDialog.items = {} /\ NoDialog.skip = {}
  BY DEF NoDialog
<1>10. CASE Accept
  <2>1. /\ dialog' = NoDialog /\ UNCHANGED <<selected, marks, form, resolving>>
        /\ walk' = walk \/ walk' = [op |-> dialog.op, set |-> dialog.items,
                                    todo |-> dialog.items \ dialog.skip, acted |-> {}]
    BY <1>10 DEF Accept, Launch
  <2>2. walk'.set \subseteq Run /\ walk'.todo \subseteq walk'.set /\ walk'.acted \subseteq walk'.set
    BY <2>1 DEF PointedTyped
  <2> QED BY <1>9, <2>1, <2>2 DEF PointedTyped
<1>11. CASE Abort
  BY <1>9, <1>11 DEF Abort, PointedTyped
<1>12. CASE Escalate
  <2>1. /\ UNCHANGED <<selected, marks, form, resolving, walk>>
        /\ dialog'.items = dialog.items /\ dialog'.skip \subseteq dialog'.items
    BY <1>12 DEF Escalate, Held
  <2> QED BY <2>1 DEF PointedTyped
<1>13. CASE InTheForm
  BY <1>13 DEF InTheForm, CancelForm, SubmitForm, PointedTyped
<1> QED BY <1>3, <1>4, <1>5, <1>6, <1>7, <1>8, <1>10, <1>11, <1>12, <1>13, Steps
     DEF Walked, InTheDialog

\* The flags, the keys left and the filters on their way.
RestTyped ==
  /\ pushed \in Filter /\ publishing \in Seq(Filter) /\ outran \in BOOLEAN
  /\ engaged \in BOOLEAN /\ active \in BOOLEAN /\ typing \in BOOLEAN
  /\ keys \in 0..MaxKeys

LEMMA RestStep ==
  ASSUME ScreenInv, RestTyped, [Next]_vars
  PROVE  RestTyped'
<1>1. CASE UNCHANGED <<query, focus, keys>>
  BY <1>1 DEF query, focus, RestTyped
<1>2. CASE \/ EnvironmentOnly \/ Walked \/ Heard \/ Membership \/ Came \/ UNCHANGED vars
  <2>1. UNCHANGED <<query, focus, keys>>
    BY <1>2 DEF EnvironmentOnly, Walked, Heard, Came, Create, Finish, Change, Depart,
         Attempt, Frame, WalkEnds, Update, PollFailed, ReposDiscovered, Membership, Resolved,
         ResolvedNothing, Surroundings, WalkRest, vars
  <2> QED BY <1>1, <2>1
<1>3. CASE Published
  <2>1. PICK k \in DOMAIN publishing : Publish(k)
    BY <1>3 DEF Published
  <2> DEFINE n == Len(publishing)
  <2>2. n \in Nat /\ DOMAIN publishing = 1..n /\ \A j \in 1..n : publishing[j] \in Filter
    BY LenProperties, ElementOfSeq DEF RestTyped
  <2>3. /\ pushed' = publishing[k] /\ UNCHANGED <<focus, keys>>
        /\ publishing' = [j \in 1..(n - 1) |-> publishing[IF j < k THEN j ELSE j + 1]]
        /\ outran' \in BOOLEAN
    BY <2>1 DEF Publish, RestTyped
  <2> HIDE DEF n
  <2>4. publishing' \in [1..(n - 1) -> Filter] /\ n - 1 \in Nat
    BY <2>2, <2>3
  <2>5. publishing' \in Seq(Filter)
    BY <2>4, SeqDef
  <2> QED BY <2>2, <2>3, <2>5 DEF focus, RestTyped
<1>4. ASSUME NEW f \in Filter, publishing' \in {publishing, Append(publishing, f)}
      PROVE  publishing' \in Seq(Filter)
  BY <1>4, AppendProperties DEF RestTyped
<1>5. Key => keys' \in 0..MaxKeys
  BY FeedAssumption DEF Key, RestTyped
<1>6. CASE InTheList \/ InTheDialog \/ InTheForm
  <2>1. /\ Key /\ UNCHANGED query
        /\ engaged' = engaged \/ engaged' = TRUE
        /\ active' = active \/ active' = FALSE
        /\ typing' = typing \/ typing' = TRUE
    BY <1>6 DEF InTheList, InTheDialog, InTheForm, MoveTo, ToggleSelect, Refresh, OpenFilter,
         OpenForm, Leave, OpKey, Accept, Abort, Escalate, CancelForm, SubmitForm, focus
  <2> QED BY <1>5, <2>1 DEF query, RestTyped
<1>7. CASE InTheInput \/ Elsewhere
  <2>1. /\ Key /\ UNCHANGED pushed
        /\ UNCHANGED engaged /\ (active' = active \/ active' = TRUE)
        /\ typing' = typing \/ typing' = FALSE
        /\ outran' \in {outran, FALSE}
        /\ \E f \in Filter : publishing' \in {publishing, Append(publishing, f)}
    <3>1. filter \in Filter /\ "all" \in Filter
      BY DEF ScreenInv, Filter
    <3>2. CASE AcceptFilter \/ CancelFilter \/ Return
      BY <3>1, <3>2 DEF AcceptFilter, CancelFilter, PublishFilter, Return, query
    <3>3. ASSUME NEW f \in Filter, Type(f) \/ ShowRuns(f)
          PROVE  /\ Key /\ UNCHANGED <<pushed, engaged>> /\ (active' = active \/ active' = TRUE)
                 /\ typing' = typing
                 /\ outran' \in {outran, FALSE}
                 /\ publishing' \in {publishing, Append(publishing, f)}
      BY <3>3 DEF Type, ShowRuns, query, focus
    <3> QED BY <1>7, <3>2, <3>3 DEF InTheInput, Elsewhere
  <2>2. publishing' \in Seq(Filter)
    BY <1>4, <2>1
  <2> QED BY <1>5, <2>1, <2>2 DEF RestTyped
<1> QED BY <1>2, <1>3, <1>6, <1>7, Steps

FeedInv == WorldTyped /\ ScreenInv /\ PointedTyped /\ RestTyped /\ WalkShape

LEMMA FeedInit ==
  Init => FeedInv
<1> SUFFICES ASSUME Init
             PROVE  FeedInv
  OBVIOUS
<1>1. WorldTyped
  <2>1. [done |-> FALSE, start |-> 0] \in Told /\ [done |-> TRUE, start |-> 0] \in Told
    BY DEF Told, Listed, MaxStart
  <2>2. \A b \in BOOLEAN : [done |-> b, start |-> 0] \in Told
    BY <2>1
  <2>3. gh \in [Run -> Told \cup {Unborn}]
    BY <2>2 DEF Init
  <2> QED BY <2>3, FeedAssumption DEF Init, WorldTyped
<1>2. ScreenInv
  <2>1. /\ live = [r \in Run |-> NoRun] /\ painted = live
        /\ rows = <<>> /\ cursor = 1 /\ tally = NoChange /\ filter \in Filter
    BY FeedAssumption DEF Init, Filter
  <2>2. View(live, filter) = {}
    BY <2>1, FilterMatches DEF View, Exists, NoRun
  <2>3. RowSet = {} /\ rows \in Seq(Run)
    BY <2>1, EmptySeq DEF RowSet
  <2>4. tally \in [added : Nat, removed : Nat, moved : Nat] /\ tally.added = 0
        /\ tally.removed = 0
    BY <2>1 DEF NoChange
  <2>5. TallyIsExact
    BY <2>1, <2>2, <2>3, <2>4, FS_EmptySet DEF TallyIsExact
  <2> QED BY <2>1, <2>3, <2>4, <2>5 DEF ScreenInv, Told
<1>3. PointedTyped /\ WalkShape
  BY DEF Init, NoDialog, NoWalk, PointedTyped, WalkShape
<1>4. RestTyped
  <2>1. pushed \in Filter /\ keys \in 0..MaxKeys
    BY FeedAssumption DEF Init, Filter
  <2>2. publishing \in Seq(Filter)
    BY EmptySeq DEF Init
  <2>3. /\ engaged \in BOOLEAN /\ active \in BOOLEAN /\ typing \in BOOLEAN
        /\ outran \in BOOLEAN
    BY DEF Init
  <2> QED BY <2>1, <2>2, <2>3 DEF RestTyped
<1> QED BY <1>1, <1>2, <1>3, <1>4 DEF FeedInv

LEMMA FeedStays ==
  FeedInv /\ [Next]_vars => FeedInv'
<1> SUFFICES ASSUME FeedInv, [Next]_vars
             PROVE  FeedInv'
  OBVIOUS
<1>1. WalkShape'
  <2>1. KeysCount
    BY FeedAssumption DEF FeedInv, RestTyped, KeysCount
  <2> QED BY <2>1, FrozenStep DEF FeedInv
<1> QED BY <1>1, WorldStep, ScreenStep, PointedStep, RestStep DEF FeedInv

\* The Feed's invariant, which the theorems after it rest on: the record of the
\* last walk, what is on screen and what a launch points at keep their shape.
THEOREM FeedCorrect == Spec => []FeedInv
BY FeedInit, FeedStays, PTL DEF Spec

\* Every message, key and change leaves the Feed well typed: for any Runs over
\* any repositories, any filters and any number of keys.
THEOREM FeedTypes == Spec => []TypeOK
<1>1. FeedInv => TypeOK
  <2> SUFFICES ASSUME FeedInv
               PROVE  TypeOK
    OBVIOUS
  <2>1. cursor \in Nat \ {0}
    <3>1. DOMAIN rows = 1..Len(rows) /\ Len(rows) \in Nat
      BY LenProperties DEF FeedInv, ScreenInv
    <3> QED BY <3>1 DEF FeedInv, ScreenInv, TallyIsExact
  <2>2. gh \in [Run -> Listed \cup {NoRun, Unborn}]
    BY DEF FeedInv, WorldTyped, Told
  <2>3. live \in [Run -> Listed \cup {NoRun}] /\ painted \in [Run -> Listed \cup {NoRun}]
    BY DEF FeedInv, ScreenInv, Told
  <2> QED BY <2>1, <2>2, <2>3
       DEF FeedInv, WorldTyped, ScreenInv, PointedTyped, RestTyped, TypeOK
<1> QED BY <1>1, FeedCorrect, PTL

\* recompute, applyView and repaintAndDefer, with liveView's order: whatever Runs
\* a listing holds, however many, and whatever came before, the rows are the
\* Runs under the filter once painted, and what is deferred after that is told
\* exactly.
THEOREM TallyStaysExact == Spec => []TallyIsExact
<1>1. FeedInv => TallyIsExact
  BY DEF FeedInv, ScreenInv
<1> QED BY <1>1, FeedCorrect, PTL
=============================================================================
