-------------------------------- MODULE Approval --------------------------------
(***************************************************************************)
(* The decision pane (internal/tui/approval) over a Run that awaits a      *)
(* human decision, and the two writes behind it (internal/ops/approve.go). *)
(* A fork's Run is approved with one POST; a deployment is reviewed, with  *)
(* the environments the pane fetched and a comment.  An answer carries no  *)
(* Run: whatever pane is open when it lands takes it.                      *)
(***************************************************************************)
EXTENDS Naturals, SequencesExt

CONSTANTS Asker       \* the Runs that may await a decision

VARIABLES
  waits,      \* Classify of each Run's fields, by the rows the Feed holds
  ask,        \* the pane's Model; envs is the Run its environments are of
  loads,      \* environment fetches on their way, by Run
  writes      \* approvals and reviews on their way

approvalVars == <<waits, ask, loads, writes>>

Kind == {"none", "fork", "deploy"}

\* Classify of what a listing serves: a fork's Run is completed and its
\* conclusion action_required, a deployment's has the status waiting.
Classify(status, conclusion) ==
  CASE status = "completed" /\ conclusion = "action_required" -> "fork"
    [] status = "waiting" -> "deploy"
    [] OTHER -> "none"
Fields == {<<"completed", "action_required">>, <<"completed", "success">>,
           <<"waiting", "null">>, <<"in_progress", "null">>}

ClosedAsk == [open |-> FALSE, run |-> 0, kind |-> "none", envs |-> 0, loading |-> FALSE,
              approve |-> TRUE, comment |-> FALSE, editing |-> FALSE, typed |-> FALSE,
              submitting |-> FALSE, done |-> FALSE]

ApprovalInit ==
  /\ waits \in [Asker -> {Classify(f[1], f[2]) : f \in Fields} \ {"none"}]
  /\ ask = ClosedAsk /\ loads = [r \in Asker |-> 0] /\ writes = <<>>

ApprovalTypeOK ==
  /\ waits \in [Asker -> Kind] /\ loads \in [Asker -> Nat]
  /\ ask \in [open : BOOLEAN, run : {0} \cup Asker, kind : Kind, envs : {0} \cup Asker,
              loading : BOOLEAN, approve : BOOLEAN, comment : BOOLEAN, editing : BOOLEAN,
              typed : BOOLEAN, submitting : BOOLEAN, done : BOOLEAN]
  /\ \A k \in DOMAIN writes : writes[k] \in
       [to : Asker, kind : {"fork", "deploy"}, envs : {0} \cup Asker, approve : BOOLEAN]

-----------------------------------------------------------------------------
\* openApproval: inert over a Run that awaits nothing.
OpenApproval(r) ==
  /\ waits[r] # "none"
  /\ ask' = [ClosedAsk EXCEPT !.open = TRUE, !.run = r, !.kind = waits[r],
                              !.loading = waits[r] = "deploy"]
  /\ loads' = IF waits[r] = "deploy" THEN [loads EXCEPT ![r] = @ + 1] ELSE loads
  /\ UNCHANGED <<waits, writes>>

\* PendingDeployments answers with the environments the Run awaits, or with
\* none for a status other than 200.
Environments(r) == {0, r}

\* applyDeployments.
DeploymentsLoaded(r) ==
  /\ loads[r] > 0
  /\ loads' = [loads EXCEPT ![r] = @ - 1]
  /\ \/ ask.open /\ \E e \in Environments(r) : ask' = [ask EXCEPT !.loading = FALSE, !.envs = e]
     \/ ~ask.open /\ UNCHANGED ask
     \/ ask.open /\ ask' = [ask EXCEPT !.loading = FALSE]   \* the fetch failed
  /\ UNCHANGED <<waits, writes>>

\* applyReviewed: a success and a 403 are final, another failure is not.
Outcome(final) == [ask EXCEPT !.submitting = FALSE, !.done = final]
Reviewed(k) ==
  /\ k \in DOMAIN writes
  /\ writes' = RemoveAt(writes, k)
  /\ \E final \in BOOLEAN : ask' = IF ask.open THEN Outcome(final) ELSE ask
  /\ UNCHANGED <<waits, loads>>

\* submit: what costs no request is refused first.
MaySubmit == ~ask.submitting /\ ~ask.done
Ready == ask.kind = "deploy" => ~ask.loading /\ ask.comment /\ ask.envs # 0
\* ApproveRun and ReviewDeployment: what the one POST carries.
Decision == [to |-> ask.run, kind |-> ask.kind, approve |-> ask.approve,
             envs |-> IF ask.kind = "deploy" THEN ask.envs ELSE 0]
Submit ==
  /\ MaySubmit /\ Ready
  /\ ask' = [ask EXCEPT !.submitting = TRUE]
  /\ writes' = Append(writes, Decision)

EditKey ==     \* enter keeps the comment, esc drops the edit, text fills it
  /\ ask.editing
  /\ ask' \in {[ask EXCEPT !.comment = ask.typed, !.editing = FALSE],
               [ask EXCEPT !.editing = FALSE], [ask EXCEPT !.typed = ~@]}
  /\ UNCHANGED writes
Deciding == ask.kind = "deploy" /\ ~ask.done
PaneKey ==
  /\ ~ask.editing
  /\ \/ ask' = [ask EXCEPT !.open = FALSE] /\ UNCHANGED writes
     \/ Deciding /\ ask' = [ask EXCEPT !.approve = ~@] /\ UNCHANGED writes
     \/ Deciding /\ ask' = [ask EXCEPT !.editing = TRUE, !.typed = ask.comment]
        /\ UNCHANGED writes
     \/ Submit
ApprovalKey == ask.open /\ (EditKey \/ PaneKey) /\ UNCHANGED <<waits, loads>>

\* GitHub moves a Run on, by a decision or by itself, and a poll shows it.
Moves(r) == /\ \E f \in Fields : waits' = [waits EXCEPT ![r] = Classify(f[1], f[2])]
            /\ waits' # waits
            /\ UNCHANGED <<ask, loads, writes>>

AnswerLands == \/ \E r \in Asker : DeploymentsLoaded(r)
               \/ \E k \in DOMAIN writes : Reviewed(k)
=================================================================================
