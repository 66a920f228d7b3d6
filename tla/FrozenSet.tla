------------------------------ MODULE FrozenSet ------------------------------
(***************************************************************************)
(* What a confirmed set promises, whatever the operation.                  *)
(*                                                                         *)
(* A confirmation authorises a finite set of Items.  While the walk runs,  *)
(* only an Item that is still pending may be asked of the API, and an Item *)
(* leaves the pending state once: it is closed (done, skipped, or of       *)
(* unknown fate) or it has failed.  When the walk is over a retry may      *)
(* reopen the failed Items, and nothing else: an Item the walk never       *)
(* reached falls out of the authority with the walk.                       *)
(***************************************************************************)
EXTENDS Naturals

CONSTANT Items

VARIABLES state,    \* where each Item stands
          running,  \* a walk is in progress
          asked     \* how many requests have named each Item

vars == <<state, running, asked>>

Pending == {i \in Items : state[i] = "pending"}
Failed  == {i \in Items : state[i] = "failed"}

Init == /\ \E frozen \in SUBSET Items :
             state = [i \in Items |-> IF i \in frozen THEN "pending" ELSE "out"]
        /\ running = TRUE
        /\ asked = [i \in Items |-> 0]

Ask(i) == /\ running
          /\ i \in Pending
          /\ asked' = [asked EXCEPT ![i] = @ + 1]
          /\ UNCHANGED <<state, running>>

\* An Item is closed or fails; the breaker may end the walk in the same step.
Settle(i) == /\ running
             /\ i \in Pending
             /\ \E s \in {"closed", "failed"} : state' = [state EXCEPT ![i] = s]
             /\ running' \in BOOLEAN
             /\ UNCHANGED asked

Stop == running /\ running' = FALSE /\ UNCHANGED <<state, asked>>

Retry == /\ ~running
         /\ Failed # {}
         /\ running' = TRUE
         /\ state' = [i \in Items |-> CASE i \in Failed  -> "pending"
                                        [] i \in Pending -> "out"
                                        [] OTHER         -> state[i]]
         /\ UNCHANGED asked

Next == \/ \E i \in Items : Ask(i) \/ Settle(i)
        \/ Stop
        \/ Retry

Spec == Init /\ [][Next]_vars
=============================================================================
