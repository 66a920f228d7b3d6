------------------------------ MODULE MCCommand ------------------------------
EXTENDS Command

\* Two Runs in the repository that is here, one of them orphaned, and one in a
\* repository that may only be read.
MCRepoOf == <<"h", "h", "o">>
MCCapability == [h |-> "writable", o |-> "read-only"]

Line(verb, select, ids, job, dry, yes, wide) ==
  [verb |-> verb, select |-> select, ids |-> ids, job |-> job, dry |-> dry, yes |-> yes, wide |-> wide]
\* Neither flag, --dry-run, --yes.
Consent == {<<FALSE, FALSE>>, <<TRUE, FALSE>>, <<FALSE, TRUE>>}

MCInvocations ==
  {Line("delete", s, {}, "no", c[1], c[2], w) :
     s \in {"none", "filter", "all"}, c \in Consent, w \in BOOLEAN} \cup
  {Line("cancel", s, i, "no", c[1], c[2], w) :
     s \in {"none", "all"}, i \in {{}, {1, 2}}, c \in Consent, w \in BOOLEAN} \cup
  {Line("rerun", s, i, j, c[1], c[2], FALSE) :
     s \in {"none", "all"}, i \in {{}, {1}}, j \in {"no", "id", "name", "both"}, c \in Consent}
=============================================================================
