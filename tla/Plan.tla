---------------------------------- MODULE Plan ----------------------------------
(***************************************************************************)
(* How a set of members becomes a plan (internal/ops/plan.go): the reason  *)
(* each member is skipped, and the friction the set's size and its spread  *)
(* over repositories price at.  Pure operators: a member is known by its   *)
(* repository and the facts a skip depends on.                             *)
(***************************************************************************)
EXTENDS Integers, FiniteSets

CONSTANTS Run, Repo,
          RepoOf,       \* the repository of a Run
          Capability,   \* what the account may do there
          Orphans,      \* the Runs whose Workflow is deleted
          Threshold     \* the size from which a set's count has to be typed

ASSUME PlanAssumption ==
  /\ RepoOf \in [Run -> Repo]
  /\ Capability \in [Repo -> {"writable", "read-only", "archived"}]
  /\ Orphans \subseteq Run
  /\ Threshold \in Nat \ {0}
  /\ IsFiniteSet(Run) /\ IsFiniteSet(Repo)

Operation == {"delete", "cancel", "force-cancel", "rerun", "rerun-job"}
Rerun     == {"rerun", "rerun-job"}

\* skipFor: the repository's refusal comes before the Run's.  done is the Run's
\* Status at the instant it was frozen.
SkipFor(op, r, done) ==
  IF Capability[RepoOf[r]] # "writable" THEN Capability[RepoOf[r]]
  ELSE IF op = "delete" /\ ~done THEN "not-completed"
  ELSE IF op = "rerun" /\ r \in Orphans THEN "deleted"
  ELSE "none"

\* repoSpan, over the Items and the Item-less members alike.
Span(S) == Cardinality({RepoOf[r] : r \in S})

\* frictionFor over the whole set, its skipped members included.
FrictionFor(op, S) ==
  IF op \in Rerun /\ Cardinality(S) = 1 THEN "none"
  ELSE IF Span(S) > 1 \/ Cardinality(S) >= Threshold THEN "typed-count"
  ELSE "y/n"

\* orphanedOnly: the re-run key offers nothing for such a set.
OrphanedOnly(S) == S # {} /\ S \subseteq Orphans

=============================================================================
