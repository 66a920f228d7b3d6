------------------------------ MODULE WarmStart ------------------------------
(***************************************************************************)
(* Discovery with no repository failing for good, and with a note of what  *)
(* each pass enumerated: what main.go's comment on discoverBehind promises *)
(* the next session.                                                       *)
(***************************************************************************)
EXTENDS Discovery

VARIABLES
    asked,      \* history: per task, what its pass enumerated
    saved       \* history: what the last pass to be saved had enumerated

warm_vars == <<vars, asked, saved>>

WarmInit == Init /\ asked = [t \in Task |-> {}] /\ saved = {}

Note(t) ==
    /\ asked' = [asked EXCEPT ![t] = IF pc[t] = "enumerate" THEN todo'[t] ELSE @]
    /\ saved' = IF pc[t] = "save pass" /\ pc'[t] = "mark pass" /\ doc' = snap[t]
                THEN asked[t] ELSE saved

WarmNext ==
    \/ SessionNext /\ UNCHANGED <<asked, saved>>
    \/ Primed /\ UNCHANGED <<asked, saved>>
    \/ \E t \in Task :
          /\ TaskNext(t) /\ Note(t)
          /\ \A r \in Repo : ~FailsForGood(t, r)

WarmSpec == WarmInit /\ [][WarmNext]_warm_vars

\* "A warm local-store already holds the whole classified set, so no pass is
\* spent": a session that will spend none knows every repository the pass it
\* relies on enumerated, the excluded ones apart.
WarmStartIsWhole ==
    [][life = "off" /\ seeded' => saved \ exclude' \subseteq {r \in Repo : records'[r] # None}]_warm_vars
===============================================================================
