------------------------------- MODULE Workflows -------------------------------
(***************************************************************************)
(* The Workflows tab (internal/tui/workflows, internal/ops/workflow.go):   *)
(* the held list with each Workflow's state, the reversible toggle of it,  *)
(* and the dispatch form opened over a row.  An answer is about the moment *)
(* it was given; only a toggle that acted is followed by a read of its     *)
(* own, and nothing here polls.                                            *)
(***************************************************************************)
EXTENDS Dispatch, Sequences, SequencesExt

CONSTANTS
  Named,        \* Workflow -> the default branch discovery knows, "" for none
  MaxToggles    \* bound: toggles out at once

ASSUME WorkflowsAssumption ==
  /\ IsFiniteSet(Workflow) /\ Workflow \subseteq Nat
  /\ Named \in [Workflow -> Ref \cup {""}] /\ MaxToggles \in Nat

WorkflowState == {"active", "disabled", "deleted", "other"}
Grant == {"unknown", "ours", "readonly"}

VARIABLES
  state,    \* each Workflow's state, at the API
  grants,   \* what discovery says of its repository
  list,     \* Model: cap, held, cursor
  reads,    \* reads of a repository's Workflows, out or answered
  toggles   \* toggles, out or answered

workflowsVars == <<dispatchVars, state, grants, list, reads, toggles>>

WorkflowsInit ==
  /\ DispatchInit
  /\ state \in [Workflow -> WorkflowState] /\ grants \in [Workflow -> Grant]
  /\ list = [cap |-> [w \in Workflow |-> "unknown"], held |-> [w \in Workflow |-> "none"], cursor |-> 0]
  /\ reads = <<>> /\ toggles = <<>>

\* Or later: the list is loaded, and every row is one to dispatch.
AtRowsInit ==
  /\ DispatchInit
  /\ state = [w \in Workflow |-> "active"] /\ grants = [w \in Workflow |-> "ours"]
  /\ list = [cap |-> grants, held |-> state, cursor |-> 0]
  /\ reads = <<>> /\ toggles = <<>>

WorkflowsTypeOK ==
  /\ DispatchTypeOK
  /\ state \in [Workflow -> WorkflowState] /\ grants \in [Workflow -> Grant]
  /\ list \in [cap : [Workflow -> Grant], held : [Workflow -> WorkflowState \cup {"none"}],
               cursor : 0..Cardinality(Workflow)]
  /\ reads \in Seq([wf : Workflow, got : WorkflowState \cup {"out", "failed"}])
  /\ toggles \in Seq([wf : Workflow, op : {"enable", "disable"}, got : {"out", "acted", "failed"}])
  /\ Len(toggles) <= MaxToggles

\* The rows, in order, and the one the cursor is on.
ListRows(l) == {w \in Workflow : l.held[w] # "none"}
AtCursor(l) == {w \in ListRows(l) : Cardinality({v \in ListRows(l) : v < w}) = l.cursor}

\* startFetch: the capability data as it is now, and a read of each repository.
Ask(w) == [wf |-> w, got |-> "out"]
StartReads ==
  /\ Len(reads) = 0 /\ list' = [list EXCEPT !.cap = grants]
  /\ reads' = SetToSeq({Ask(w) : w \in {x \in Workflow : grants[x] # "unknown"}})

\* actionFor: the toggle a row offers, for its state and the gate.
Offered(l, w) ==
  CASE l.cap[w] # "ours" -> {}
    [] l.cap[w] = "ours" /\ l.held[w] = "active" -> {"disable"}
    [] l.cap[w] = "ours" /\ l.held[w] = "disabled" -> {"enable"}
    [] OTHER -> {}
StartToggle ==
  \E w \in AtCursor(list) : \E op \in Offered(list, w) :
    /\ Len(toggles) < MaxToggles /\ toggles' = Append(toggles, [wf |-> w, op |-> op, got |-> "out"])

\* openDispatch refuses what is deleted, disabled, or may not be written to.
OpenDispatch ==
  \E w \in AtCursor(list) :
    /\ list.held[w] \notin {"deleted", "disabled"} /\ list.cap[w] = "ours"
    /\ OpenForm(w, Named[w])

MoveListCursor ==
  \E c \in {list.cursor - 1, list.cursor + 1} \cap (0..(Cardinality(ListRows(list)) - 1)) : list' = [list EXCEPT !.cursor = c]

\* Update: an open form has every key.
WorkflowsKey ==
  IF form.open THEN FormKey /\ UNCHANGED <<state, grants, list, reads, toggles>>
  ELSE \/ OpenDispatch /\ UNCHANGED <<state, grants, list, reads, toggles>>
       \/ StartReads /\ UNCHANGED <<dispatchVars, state, grants, toggles>>
       \/ StartToggle /\ UNCHANGED <<dispatchVars, state, grants, list, reads>>
       \/ MoveListCursor /\ UNCHANGED <<dispatchVars, state, grants, reads, toggles>>

-----------------------------------------------------------------------------
\* A read is answered for the moment it is, or fails; applyFetched keeps the
\* held list on a failure.
ReadAnswers(i) ==
  /\ reads[i].got = "out"
  /\ \E got \in {state[reads[i].wf], "failed"} : reads' = [reads EXCEPT ![i].got = got]
  /\ UNCHANGED <<state, list, toggles>>
ReadLands(i) ==
  /\ reads[i].got # "out" /\ reads' = RemoveAt(reads, i)
  /\ list' = IF reads[i].got = "failed" THEN list
             ELSE [list EXCEPT !.held[reads[i].wf] = reads[i].got]
  /\ UNCHANGED <<state, toggles>>

\* ToggleWorkflow names the state it wants, so a second press asks for the
\* same; a toggle of what is deleted, or that is refused, did not act.
Wanted(op) == IF op = "enable" THEN "active" ELSE "disabled"
ToggleAnswers(i) ==
  LET t == toggles[i]
  IN  /\ t.got = "out"
      /\ \/ /\ state[t.wf] \in {"active", "disabled"}
            /\ state' = [state EXCEPT ![t.wf] = Wanted(t.op)]
            /\ toggles' = [toggles EXCEPT ![i].got = "acted"]
         \/ toggles' = [toggles EXCEPT ![i].got = "failed"] /\ UNCHANGED state
      /\ UNCHANGED <<list, reads>>
\* applyToggle: what acted is read again.
ReadAgain(w) == Append(reads, Ask(w))
ToggleLands(i) ==
  /\ toggles[i].got # "out" /\ toggles' = RemoveAt(toggles, i)
  /\ reads' = IF toggles[i].got = "acted" THEN ReadAgain(toggles[i].wf) ELSE reads
  /\ UNCHANGED <<state, list>>

WorkflowsLand ==
  \/ DispatchLand /\ UNCHANGED <<state, grants, list, reads, toggles>>
  \/ /\ \/ \E i \in DOMAIN reads : ReadAnswers(i) \/ ReadLands(i)
        \/ \E i \in DOMAIN toggles : ToggleAnswers(i) \/ ToggleLands(i)
     /\ UNCHANGED <<dispatchVars, grants>>

WorkflowsWorld ==
  /\ \/ \E w \in Workflow, s \in WorkflowState \ {"other"} :
          state[w] # s /\ state[w] # "deleted" /\ state' = [state EXCEPT ![w] = s] /\ UNCHANGED grants
     \/ \E w \in Workflow, g \in Grant : g # grants[w] /\ grants' = [grants EXCEPT ![w] = g] /\ UNCHANGED state
  /\ UNCHANGED <<dispatchVars, list, reads, toggles>>
=============================================================================
