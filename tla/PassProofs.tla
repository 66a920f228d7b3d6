----------------------------- MODULE PassProofs -----------------------------
(***************************************************************************)
(* Proofs about the engine's pass, for every number of Items, breaker      *)
(* threshold, rate-limit bound and number of retries.                      *)
(***************************************************************************)
EXTENDS Pass, SequenceTheorems, FiniteSetTheorems, TLAPS


LEMMA HereIsItem ==
  ASSUME TypeOK, at <= Len(plan)
  PROVE  Here \in Item /\ at \in DOMAIN plan
<1>1. plan \in Seq(Item) /\ at \in 1..Len(plan)
  BY LenProperties DEF TypeOK
<1> QED BY <1>1, ElementOfSeq, LenProperties DEF Here

LEMMA LandedCounted ==
  ASSUME TypeOK, Terminal
  PROVE  Landed \in Counted
BY DEF TypeOK, Terminal, Landed, Disposition, Reply, Counted

LEMMA TallyType ==
  ASSUME NEW s \in Summary, NEW i \in Item, NEW d \in Counted
  PROVE  Tally(s, i, d) \in Summary
<1>1. CASE d = "deleted"
  <2> DEFINE n == s.deleted + 1
             T == s.succeeded \cup {i}
  <2>1. n \in Nat /\ T \in SUBSET Item
    BY DEF Summary
  <2>2. Tally(s, i, d) = [s EXCEPT !.deleted = n, !.succeeded = T]
    BY <1>1 DEF Tally
  <2> HIDE DEF n, T
  <2> QED BY <2>1, <2>2 DEF Summary
<1>2. CASE d = "gone"
  <2> DEFINE n == s.gone + 1
             T == s.succeeded \cup {i}
  <2>1. n \in Nat /\ T \in SUBSET Item
    BY DEF Summary
  <2>2. Tally(s, i, d) = [s EXCEPT !.gone = n, !.succeeded = T]
    BY <1>2 DEF Tally
  <2> HIDE DEF n, T
  <2> QED BY <2>1, <2>2 DEF Summary
<1>3. CASE d = "acted"
  <2> DEFINE n == s.acted + 1
             T == s.succeeded \cup {i}
  <2>1. n \in Nat /\ T \in SUBSET Item
    BY DEF Summary
  <2>2. Tally(s, i, d) = [s EXCEPT !.acted = n, !.succeeded = T]
    BY <1>3 DEF Tally
  <2> HIDE DEF n, T
  <2> QED BY <2>1, <2>2 DEF Summary
<1>4. CASE d = "skipped"
  BY <1>4 DEF Tally, Summary
<1>5. CASE d = "failed"
  <2>1. Append(s.failed, i) \in Seq(Item)
    BY DEF Summary
  <2> QED BY <1>5, <2>1 DEF Tally, Summary
<1> QED BY <1>1, <1>2, <1>3, <1>4, <1>5 DEF Counted

LEMMA LoggedType ==
  ASSUME TypeOK, at <= Len(plan), NEW d \in Counted
  PROVE  Logged(d) \in Seq(Ledger)
<1>1. Line(d) \in Ledger
  BY HereIsItem DEF Line, Ledger
<1> QED BY <1>1 DEF Logged, TypeOK

LEMMA InitType == Init => TypeOK
<1> SUFFICES ASSUME Init PROVE TypeOK
  OBVIOUS
<1>1. plan \in Seq(Item)
  BY PassAssumption DEF Init
<1>2. sum \in Summary
  BY DEF Init, EmptySummary, Summary
<1>3. unmatched \in Nat
  BY PassAssumption DEF Init
<1>4. log \in Seq(Ledger)
  BY DEF Init
<1>5. /\ fate \in [Item -> Fate] /\ there \in [Item -> BOOLEAN]
      /\ effect \in [Item -> Nat] /\ asked \in [Item -> Nat]
  BY DEF Init, Fate
<1>6. op \in Operations /\ skip \subseteq Item
  BY DEF Init
<1>7. pc = "open" /\ reply = "none" /\ cancelled \in BOOLEAN
  BY DEF Init
<1>8. /\ at \in Nat \ {0} /\ failureStreak \in Nat /\ rateLimitStreak \in Nat
      /\ outstanding \in Int /\ passes \in Nat
  BY DEF Init
<1> QED BY <1>1, <1>2, <1>3, <1>4, <1>5, <1>6, <1>7, <1>8 DEF TypeOK

(***************************************************************************)
(* Types are preserved.                                                    *)
(***************************************************************************)

LEMMA SettleFate ==
  ASSUME TypeOK, at <= Len(plan), NEW f \in Fate
  PROVE  [fate EXCEPT ![Here] = f] \in [Item -> Fate]
BY HereIsItem DEF TypeOK

LEMMA StopType ==
  ASSUME NEW s \in Summary
  PROVE  /\ [s EXCEPT !.cancelled = TRUE] \in Summary
         /\ [s EXCEPT !.logFailed = TRUE] \in Summary
         /\ \A n \in Nat : [s EXCEPT !.skipped = n] \in Summary
         /\ \A b \in BOOLEAN : [s EXCEPT !.circuitBroke = b] \in Summary
         /\ s.skipped + 1 \in Nat
<1>1. [s EXCEPT !.cancelled = TRUE] \in Summary
  BY DEF Summary
<1>2. [s EXCEPT !.logFailed = TRUE] \in Summary
  BY DEF Summary
<1>3. \A n \in Nat : [s EXCEPT !.skipped = n] \in Summary
  BY DEF Summary
<1>4. \A b \in BOOLEAN : [s EXCEPT !.circuitBroke = b] \in Summary
  BY DEF Summary
<1>5. s.skipped + 1 \in Nat
  BY DEF Summary
<1> QED BY <1>1, <1>2, <1>3, <1>4, <1>5

LEMMA EmptyType == EmptySummary \in Summary
BY DEF EmptySummary, Summary

LEMMA OpeningOutstandingType ==
  ASSUME TypeOK
  PROVE  OpeningOutstanding \in Int
<1>1. PlanSkips(1) \subseteq 1..Len(plan) /\ Len(plan) \in Nat
  BY LenProperties DEF PlanSkips, TypeOK
<1>2. IsFiniteSet(1..Len(plan))
  BY <1>1, FS_Interval
<1>3. Cardinality(PlanSkips(1)) \in Nat
  BY <1>1, <1>2, FS_Subset, FS_CardinalityType
<1> QED BY <1>1, <1>3 DEF OpeningOutstanding, Total, TypeOK

LEMMA NextType == TypeOK /\ [Next]_vars => TypeOK'
<1> SUFFICES ASSUME TypeOK, [Next]_vars PROVE TypeOK'
  OBVIOUS
<1>1. CASE LogUnavailable
  <2>1. sum' \in Summary
    BY <1>1, EmptyType, StopType DEF LogUnavailable
  <2> QED BY <1>1, <2>1 DEF LogUnavailable, TypeOK, planVars, serverVars
<1>2. CASE Open
  <2>1. sum' \in Summary
    BY <1>2, EmptyType, StopType DEF Open, OpeningSum, TypeOK
  <2>2. outstanding' \in Int
    BY <1>2, OpeningOutstandingType DEF Open
  <2>3. Len(plan) \in Nat
    BY LenProperties DEF TypeOK
  <2> QED BY <1>2, <2>1, <2>2, <2>3 DEF Open, FirstIndex, TypeOK, planVars, serverVars
<1>3. CASE Finish
  BY <1>3 DEF Finish, TypeOK, planVars, serverVars
<1>4. CASE StopCancelled
  <2>1. sum' \in Summary
    BY <1>4, StopType DEF StopCancelled, TypeOK
  <2> QED BY <1>4, <2>1 DEF StopCancelled, TypeOK, planVars, serverVars
<1>5. CASE SkipItem
  <2>1. Here \in Item /\ [fate EXCEPT ![Here] = "skipped"] \in [Item -> Fate]
    BY <1>5, HereIsItem, SettleFate DEF SkipItem, Fate, Counted
  <2>2. Logged("skipped") \in Seq(Ledger)
    BY <1>5, LoggedType DEF SkipItem, Counted
  <2>3. /\ [sum EXCEPT !.skipped = @ + 1] \in Summary
        /\ [sum EXCEPT !.logFailed = TRUE] \in Summary
    BY StopType DEF TypeOK
  <2>4. Len(plan) \in Nat
    BY LenProperties DEF TypeOK
  <2>5. sum' \in Summary /\ log' \in Seq(Ledger) /\ fate' \in [Item -> Fate]
    BY <1>5, <2>1, <2>2, <2>3 DEF SkipItem, TypeOK
  <2>6. /\ at' \in Nat \ {0} /\ pc' \in {"top", "done"} /\ at' <= Len(plan) + 1
        /\ UNCHANGED <<planVars, serverVars, cancelled, reply, asked, passes, plan,
                       failureStreak, rateLimitStreak, outstanding>>
    BY <1>5, <2>4 DEF SkipItem, TypeOK
  <2> QED BY <2>5, <2>6 DEF TypeOK, planVars, serverVars
<1>6. CASE Attempt
  BY <1>6 DEF Attempt, TypeOK, planVars, serverVars
<1>7. CASE Request
  <2>1. asked' \in [Item -> Nat]
    BY <1>7, HereIsItem DEF Request, TypeOK
  <2> QED BY <1>7, <2>1 DEF Request, TypeOK, planVars, serverVars
<1>8. CASE AttemptCancelled
  <2>1. fate' \in [Item -> Fate]
    BY <1>8, SettleFate DEF AttemptCancelled, TypeOK, Fate
  <2>2. sum' \in Summary
    BY <1>8, StopType DEF AttemptCancelled, TypeOK
  <2> QED BY <1>8, <2>1, <2>2 DEF AttemptCancelled, TypeOK, planVars, serverVars
<1>9. CASE LostCancelled
  <2>1. fate' \in [Item -> Fate]
    BY <1>9, SettleFate DEF LostCancelled, TypeOK, Fate
  <2>2. sum' \in Summary
    BY <1>9, StopType DEF LostCancelled, TypeOK
  <2> QED BY <1>9, <2>1, <2>2 DEF LostCancelled, TypeOK, planVars, serverVars
<1>10. CASE Backoff
  BY <1>10 DEF Backoff, NextRateLimitStreak, TypeOK, planVars, serverVars
<1>11. CASE Land
  <2>1. at <= Len(plan) /\ Len(plan) \in Nat /\ Here \in Item
    BY <1>11, HereIsItem, LenProperties DEF Land, Terminal, TypeOK
  <2>2. Landed \in Counted
    BY <1>11, LandedCounted DEF Land
  <2>3. Tally(sum, Here, Landed) \in Summary
    BY <2>1, <2>2, TallyType DEF TypeOK
  <2>4. sum' \in Summary
    BY <1>11, <2>3, StopType DEF Land
  <2>5. failureStreak' \in Nat
    BY <1>11, <2>2 DEF Land, Streak, Counted, TypeOK
  <2>6. log' \in Seq(Ledger)
    BY <1>11, <2>1, <2>2, LoggedType DEF Land
  <2>7. fate' \in [Item -> Fate]
    BY <1>11, <2>1, <2>2, SettleFate DEF Land, Fate
  <2>8. /\ pc' \in {"top", "done"}
        /\ at' \in Nat \ {0}
        /\ at' <= Len(plan) + 1
    BY <1>11, <2>1 DEF Land, TypeOK
  <2>9. /\ rateLimitStreak' = 0 /\ reply' = "none" /\ outstanding' \in Int
        /\ UNCHANGED <<planVars, serverVars, cancelled, asked, passes, plan>>
    BY <1>11 DEF Land, TypeOK
  <2> QED BY <2>4, <2>5, <2>6, <2>7, <2>8, <2>9 DEF TypeOK, planVars, serverVars
<1>12. CASE LandUnlogged
  <2>1. fate' \in [Item -> Fate]
    BY <1>12, SettleFate DEF LandUnlogged, Terminal, TypeOK, Fate
  <2>2. sum' \in Summary
    BY <1>12, StopType DEF LandUnlogged, TypeOK
  <2> QED BY <1>12, <2>1, <2>2 DEF LandUnlogged, Terminal, TypeOK, planVars, serverVars
<1>13. CASE Retry
  <2>1. plan' \in Seq(Item)
    BY <1>13 DEF Retry, RetrySet, TypeOK, Summary
  <2>2. fate' \in [Item -> Fate]
    BY <1>13 DEF Retry, TypeOK, Fate, Counted
  <2>3. sum' \in Summary
    BY <1>13, EmptyType DEF Retry
  <2>4. /\ pc' = "open" /\ unmatched' = 0 /\ cancelled' = FALSE /\ passes' \in Nat
        /\ UNCHANGED <<op, skip, serverVars, reply, asked, at, failureStreak,
                       rateLimitStreak, outstanding, log>>
    BY <1>13 DEF Retry, TypeOK
  <2> QED BY <2>1, <2>2, <2>3, <2>4 DEF TypeOK, serverVars
<1>14. CASE Cancel
  BY <1>14 DEF Cancel, TypeOK, planVars, walkVars, serverVars
<1>15. CASE Answer
  <2>1. Here \in Item
    BY <1>15, HereIsItem DEF Answer, TypeOK
  <2>2. reply' \in Reply
    BY <1>15 DEF Answer, Reply
  <2>3. \A b \in BOOLEAN : [there EXCEPT ![Here] = b] \in [Item -> BOOLEAN]
    BY <2>1 DEF TypeOK
  <2>4. [effect EXCEPT ![Here] = @ + 1] \in [Item -> Nat]
    BY <2>1 DEF TypeOK
  <2>5. (op # "delete") \in BOOLEAN
    OBVIOUS
  <2>6. there' \in [Item -> BOOLEAN]
    BY <1>15, <2>3, <2>5 DEF Answer, TypeOK, serverVars
  <2>7. effect' \in [Item -> Nat]
    BY <1>15, <2>4 DEF Answer, TypeOK, serverVars
  <2> QED BY <1>15, <2>2, <2>6, <2>7 DEF Answer, TypeOK, planVars, walkVars
<1>16. CASE UNCHANGED vars
  BY <1>16 DEF TypeOK, vars, planVars, walkVars, serverVars
<1> QED BY <1>1, <1>2, <1>3, <1>4, <1>5, <1>6, <1>7, <1>8, <1>9, <1>10, <1>11, <1>12,
           <1>13, <1>14, <1>15, <1>16 DEF Next, Walk

\* Every variable keeps its type, whatever the constants (the walk of
\* executeSet and the engine's summary).
THEOREM TypeCorrect == Spec => []TypeOK
BY InitType, NextType, PTL DEF Spec

(***************************************************************************)
(* The walk's order.  Everything below rests on these facts: the plan      *)
(* names an Item once, nothing from the loop index on has been settled,    *)
(* and the summary's failures are exactly the Items whose fate is to have  *)
(* failed, so a retry reopens them and only them.                          *)
(***************************************************************************)

Injective(s) == \A j, k \in DOMAIN s : s[j] = s[k] => j = k

AheadIsPending ==
  \A k \in DOMAIN plan :
    pc = "open" \/ (pc # "done" /\ k >= at) => fate[plan[k]] = "pending"

FailuresAreListed ==
  /\ \A k \in DOMAIN sum.failed : fate[sum.failed[k]] = "failed"
  /\ \A i \in Item : fate[i] = "failed" => \E k \in DOMAIN sum.failed : sum.failed[k] = i

OpenIsFresh == pc = "open" => sum.failed = <<>>

WalkInv == Injective(plan) /\ Injective(sum.failed) /\ AheadIsPending
             /\ FailuresAreListed /\ OpenIsFresh

LEMMA InitWalk == Init => WalkInv
BY DEF Init, WalkInv, Injective, AheadIsPending, FailuresAreListed, OpenIsFresh,
       EmptySummary, Item

\* What settling the Item at the loop index leaves true, whatever its fate.
LEMMA SettleAhead ==
  ASSUME TypeOK, Injective(plan), AheadIsPending, at <= Len(plan), pc # "done",
         NEW f \in Fate
  PROVE  /\ Here \in Item
         /\ fate[Here] = "pending"
         /\ \A k \in DOMAIN plan : k > at => /\ plan[k] # Here
                                             /\ fate[plan[k]] = "pending"
         /\ [fate EXCEPT ![Here] = f][Here] = f
         /\ \A i \in Item \ {Here} : [fate EXCEPT ![Here] = f][i] = fate[i]
<1>1. Here \in Item /\ at \in DOMAIN plan
  BY HereIsItem
<1>2. DOMAIN plan = 1..Len(plan) /\ Len(plan) \in Nat /\ at \in Nat
  BY LenProperties DEF TypeOK
<1>3. \A k \in DOMAIN plan : plan[k] \in Item
  BY <1>2, ElementOfSeq DEF TypeOK
<1>4. fate[Here] = "pending"
  BY <1>1, <1>2 DEF AheadIsPending, Here
<1>5. \A k \in DOMAIN plan : k > at => plan[k] # Here /\ fate[plan[k]] = "pending"
  BY <1>1, <1>2 DEF AheadIsPending, Here, Injective
<1>6. fate \in [Item -> Fate]
  BY DEF TypeOK
<1> QED BY <1>1, <1>4, <1>5, <1>6

\* A step that settles nothing.
LEMMA KeepWalk ==
  ASSUME TypeOK, WalkInv, fate' = fate, plan' = plan, sum'.failed = sum.failed,
         pc' # "open", pc' = "done" \/ (pc # "done" /\ (at' = at \/ pc = "open"))
  PROVE  WalkInv'
BY DEF WalkInv, Injective, AheadIsPending, FailuresAreListed, OpenIsFresh

\* A step that settles the Item at the loop index without failing it.
LEMMA SettleWalk ==
  ASSUME TypeOK, WalkInv, at <= Len(plan), pc # "done", pc' # "open",
         NEW f \in Fate, f # "failed", fate' = [fate EXCEPT ![Here] = f],
         plan' = plan, sum'.failed = sum.failed, pc' = "done" \/ at' = at + 1
  PROVE  WalkInv'
<1> USE DEF WalkInv
<1>1. /\ Here \in Item /\ fate[Here] = "pending"
      /\ \A k \in DOMAIN plan : k > at => plan[k] # Here /\ fate[plan[k]] = "pending"
      /\ fate'[Here] = f
      /\ \A i \in Item \ {Here} : fate'[i] = fate[i]
  BY SettleAhead
<1>2. DOMAIN plan = 1..Len(plan) /\ at \in Nat /\ Len(plan) \in Nat
  BY LenProperties DEF TypeOK
<1>3. \A k \in DOMAIN plan : plan[k] \in Item
  BY <1>2, ElementOfSeq DEF TypeOK
<1>4. \A k \in DOMAIN sum.failed : sum.failed[k] \in Item
  <2>1. sum.failed \in Seq(Item)
    BY DEF TypeOK, Summary
  <2> QED BY <2>1, ElementOfSeq, LenProperties
<1>5. AheadIsPending'
  BY <1>1, <1>2, <1>3 DEF AheadIsPending
<1>6. FailuresAreListed'
  BY <1>1, <1>4 DEF FailuresAreListed
<1> QED BY <1>5, <1>6 DEF Injective, OpenIsFresh

\* The one step that fails the Item.
LEMMA FailWalk ==
  ASSUME TypeOK, WalkInv, at <= Len(plan), pc # "done", pc' # "open",
         fate' = [fate EXCEPT ![Here] = "failed"],
         plan' = plan, sum'.failed = Append(sum.failed, Here),
         pc' = "done" \/ at' = at + 1
  PROVE  WalkInv'
<1> USE DEF WalkInv
<1>1. /\ Here \in Item /\ fate[Here] = "pending"
      /\ \A k \in DOMAIN plan : k > at => plan[k] # Here /\ fate[plan[k]] = "pending"
      /\ fate'[Here] = "failed"
      /\ \A i \in Item \ {Here} : fate'[i] = fate[i]
  BY SettleAhead DEF Fate, Counted
<1>2. DOMAIN plan = 1..Len(plan) /\ at \in Nat /\ Len(plan) \in Nat
  BY LenProperties DEF TypeOK
<1>3. \A k \in DOMAIN plan : plan[k] \in Item
  BY <1>2, ElementOfSeq DEF TypeOK
<1>4. sum.failed \in Seq(Item)
  BY DEF TypeOK, Summary
<1>5. \A k \in DOMAIN sum.failed : sum.failed[k] \in Item /\ sum.failed[k] # Here
  BY <1>1, <1>4, ElementOfSeq, LenProperties DEF FailuresAreListed
<1>6. /\ DOMAIN sum.failed = 1..Len(sum.failed) /\ Len(sum.failed) \in Nat
      /\ DOMAIN sum'.failed = 1..(Len(sum.failed) + 1)
      /\ \A k \in DOMAIN sum.failed : sum'.failed[k] = sum.failed[k]
      /\ sum'.failed[Len(sum.failed) + 1] = Here
  BY <1>1, <1>4, LenProperties, AppendProperties
<1>7. AheadIsPending'
  BY <1>1, <1>2, <1>3 DEF AheadIsPending
<1>8. FailuresAreListed'
  <2>1. \A k \in DOMAIN sum'.failed : fate'[sum'.failed[k]] = "failed"
    BY <1>1, <1>5, <1>6 DEF FailuresAreListed
  <2>2. \A i \in Item : fate'[i] = "failed" => \E k \in DOMAIN sum'.failed : sum'.failed[k] = i
    BY <1>1, <1>6 DEF FailuresAreListed
  <2> QED BY <2>1, <2>2 DEF FailuresAreListed
<1>9. Injective(sum.failed)'
  BY <1>5, <1>6 DEF Injective
<1> QED BY <1>7, <1>8, <1>9 DEF Injective, OpenIsFresh

LEMMA NextWalk == TypeOK /\ WalkInv /\ [Next]_vars => WalkInv'
<1> SUFFICES ASSUME TypeOK, WalkInv, [Next]_vars PROVE WalkInv'
  OBVIOUS
<1>1. CASE LogUnavailable
  <2>1. sum'.failed = sum.failed
    BY <1>1 DEF LogUnavailable, EmptySummary, WalkInv, OpenIsFresh
  <2> QED BY <1>1, <2>1, KeepWalk DEF LogUnavailable
<1>2. CASE Open
  <2>1. sum'.failed = sum.failed
    BY <1>2 DEF Open, OpeningSum, EmptySummary, WalkInv, OpenIsFresh
  <2> QED BY <1>2, <2>1, KeepWalk DEF Open
<1>3. CASE Finish
  BY <1>3, KeepWalk DEF Finish
<1>4. CASE StopCancelled
  <2>1. sum'.failed = sum.failed
    BY <1>4 DEF StopCancelled, TypeOK, Summary
  <2> QED BY <1>4, <2>1, KeepWalk DEF StopCancelled
<1>5. CASE SkipItem
  <2>1. sum'.failed = sum.failed
    BY <1>5 DEF SkipItem, TypeOK, Summary
  <2>2. CASE fate' = [fate EXCEPT ![Here] = "skipped"] /\ at' = at + 1 /\ pc' = pc
    BY <1>5, <2>1, <2>2, SettleWalk DEF SkipItem, Fate, Counted
  <2>3. CASE fate' = fate /\ pc' = "done"
    BY <1>5, <2>1, <2>3, KeepWalk DEF SkipItem
  <2> QED BY <1>5, <2>2, <2>3 DEF SkipItem
<1>6. CASE Attempt
  BY <1>6, KeepWalk DEF Attempt
<1>7. CASE Request
  BY <1>7, KeepWalk DEF Request
<1>8. CASE AttemptCancelled
  <2>1. sum'.failed = sum.failed
    BY <1>8 DEF AttemptCancelled, TypeOK, Summary
  <2> QED BY <1>8, <2>1, SettleWalk DEF AttemptCancelled, TypeOK, Fate
<1>9. CASE LostCancelled
  <2>1. sum'.failed = sum.failed
    BY <1>9 DEF LostCancelled, TypeOK, Summary
  <2> QED BY <1>9, <2>1, SettleWalk DEF LostCancelled, TypeOK, Fate
<1>10. CASE Backoff
  BY <1>10, KeepWalk DEF Backoff
<1>11. CASE Land
  <2>1. /\ at <= Len(plan) /\ pc # "done" /\ Landed \in Counted
        /\ pc' # "open" /\ (pc' = "done" \/ at' = at + 1)
        /\ fate' = [fate EXCEPT ![Here] = Landed] /\ plan' = plan
    BY <1>11, LandedCounted DEF Land, Terminal, TypeOK
  <2>2. CASE Landed = "failed"
    <3>1. sum'.failed = Append(sum.failed, Here)
      BY <1>11, <2>2 DEF Land, Tally, TypeOK, Summary
    <3> QED BY <2>1, <2>2, <3>1, FailWalk
  <2>3. CASE Landed # "failed"
    <3>1. sum'.failed = sum.failed
      BY <1>11, <2>1, <2>3 DEF Land, Tally, TypeOK, Summary, Counted
    <3> QED BY <2>1, <2>3, <3>1, SettleWalk DEF Fate
  <2> QED BY <2>2, <2>3
<1>12. CASE LandUnlogged
  <2>1. sum'.failed = sum.failed
    BY <1>12 DEF LandUnlogged, TypeOK, Summary
  <2> QED BY <1>12, <2>1, SettleWalk DEF LandUnlogged, Terminal, TypeOK, Fate
<1>13. CASE Retry
  <2>1. plan' = sum.failed /\ sum'.failed = <<>>
    BY <1>13 DEF Retry, RetrySet, EmptySummary
  <2>2. \A k \in DOMAIN sum.failed : sum.failed[k] \in Item
    <3>1. sum.failed \in Seq(Item)
      BY DEF TypeOK, Summary
    <3> QED BY <3>1, ElementOfSeq, LenProperties
  <2>3. \A i \in Item : /\ fate[i] = "failed" => fate'[i] = "pending"
                        /\ fate'[i] # "failed"
    BY <1>13 DEF Retry
  <2>4. AheadIsPending'
    BY <2>1, <2>2, <2>3 DEF AheadIsPending, WalkInv, FailuresAreListed
  <2> QED BY <2>1, <2>3, <2>4 DEF WalkInv, Injective, FailuresAreListed, OpenIsFresh
<1>14. CASE Cancel
  BY <1>14 DEF Cancel, walkVars, WalkInv, Injective, AheadIsPending,
               FailuresAreListed, OpenIsFresh
<1>15. CASE Answer
  BY <1>15 DEF Answer, walkVars, WalkInv, Injective, AheadIsPending,
               FailuresAreListed, OpenIsFresh
<1>16. CASE UNCHANGED vars
  BY <1>16 DEF vars, walkVars, WalkInv, Injective, AheadIsPending,
               FailuresAreListed, OpenIsFresh
<1> QED BY <1>1, <1>2, <1>3, <1>4, <1>5, <1>6, <1>7, <1>8, <1>9, <1>10, <1>11, <1>12,
           <1>13, <1>14, <1>15, <1>16 DEF Next, Walk

LEMMA WalkCorrect == Spec => [](TypeOK /\ WalkInv)
BY InitType, NextType, InitWalk, NextWalk, PTL DEF Spec

(***************************************************************************)
(* A success means destroyed.  The strengthening ties the answer in flight *)
(* to the API: an acceptance or a 404 is only ever held for an object that *)
(* is already gone, and no answer is held outside a request.               *)
(***************************************************************************)

AnswerIsTrue ==
  /\ pc # "inflight" => reply = "none"
  /\ op = "delete" /\ pc = "inflight" /\ reply \in {"accepted", "missing"} => ~there[Here]

EffectIsGone ==
  op = "delete" => \A i \in Item : effect[i] > 0 => effect[i] = 1 /\ ~there[i]

GoneInv == AnswerIsTrue /\ EffectIsGone /\ SucceededIsGone

LEMMA InitGone == Init => GoneInv
BY DEF Init, GoneInv, AnswerIsTrue, EffectIsGone, SucceededIsGone, EmptySummary, Item

\* A step that leaves the API and the successes alone.
LEMMA KeepGone ==
  ASSUME GoneInv, op' = op, there' = there, effect' = effect,
         sum'.succeeded \subseteq sum.succeeded, AnswerIsTrue'
  PROVE  GoneInv'
BY DEF GoneInv, EffectIsGone, SucceededIsGone

LEMMA NextGone == TypeOK /\ GoneInv /\ [Next]_vars => GoneInv'
<1> SUFFICES ASSUME TypeOK, GoneInv, [Next]_vars PROVE GoneInv'
  OBVIOUS
<1>1. CASE LogUnavailable
  BY <1>1, KeepGone DEF LogUnavailable, planVars, serverVars, EmptySummary,
                        GoneInv, AnswerIsTrue
<1>2. CASE Open
  BY <1>2, KeepGone DEF Open, planVars, serverVars, OpeningSum, EmptySummary,
                        GoneInv, AnswerIsTrue
<1>3. CASE Finish
  BY <1>3, KeepGone DEF Finish, planVars, serverVars, GoneInv, AnswerIsTrue
<1>4. CASE StopCancelled
  <2>1. sum'.succeeded = sum.succeeded
    BY <1>4 DEF StopCancelled, TypeOK, Summary
  <2> QED BY <1>4, <2>1, KeepGone DEF StopCancelled, planVars, serverVars,
                                      GoneInv, AnswerIsTrue
<1>5. CASE SkipItem
  <2>1. sum'.succeeded = sum.succeeded
    BY <1>5 DEF SkipItem, TypeOK, Summary
  <2> QED BY <1>5, <2>1, KeepGone DEF SkipItem, planVars, serverVars,
                                      GoneInv, AnswerIsTrue
<1>6. CASE Attempt
  BY <1>6, KeepGone DEF Attempt, planVars, serverVars, GoneInv, AnswerIsTrue
<1>7. CASE Request
  BY <1>7, KeepGone DEF Request, planVars, serverVars, GoneInv, AnswerIsTrue
<1>8. CASE AttemptCancelled
  <2>1. sum'.succeeded = sum.succeeded
    BY <1>8 DEF AttemptCancelled, TypeOK, Summary
  <2> QED BY <1>8, <2>1, KeepGone DEF AttemptCancelled, planVars, serverVars,
                                      GoneInv, AnswerIsTrue
<1>9. CASE LostCancelled
  <2>1. sum'.succeeded = sum.succeeded
    BY <1>9 DEF LostCancelled, TypeOK, Summary
  <2> QED BY <1>9, <2>1, KeepGone DEF LostCancelled, planVars, serverVars,
                                      GoneInv, AnswerIsTrue
<1>10. CASE Backoff
  BY <1>10, KeepGone DEF Backoff, planVars, serverVars, GoneInv, AnswerIsTrue
<1>11. CASE Land
  <2>1. AnswerIsTrue'
    BY <1>11 DEF Land, AnswerIsTrue
  <2>2. op = "delete" /\ Landed \in {"deleted", "gone", "acted"} => ~there[Here]
    BY <1>11 DEF Land, Terminal, Landed, Disposition, GoneInv, AnswerIsTrue, TypeOK, Reply
  <2>3. sum'.succeeded \subseteq
          IF Landed \in {"deleted", "gone", "acted"} THEN sum.succeeded \cup {Here}
                                                     ELSE sum.succeeded
    <3>1. Landed \in Counted
      BY <1>11, LandedCounted DEF Land
    <3> QED BY <1>11, <3>1 DEF Land, Tally, TypeOK, Summary, Counted
  <2>4. op' = op /\ there' = there /\ effect' = effect
    BY <1>11 DEF Land, planVars, serverVars
  <2> QED BY <2>1, <2>2, <2>3, <2>4 DEF GoneInv, EffectIsGone, SucceededIsGone
<1>12. CASE LandUnlogged
  <2>1. sum'.succeeded = sum.succeeded
    BY <1>12 DEF LandUnlogged, TypeOK, Summary
  <2> QED BY <1>12, <2>1, KeepGone DEF LandUnlogged, planVars, serverVars,
                                       GoneInv, AnswerIsTrue
<1>13. CASE Retry
  BY <1>13, KeepGone DEF Retry, EmptySummary, serverVars, GoneInv, AnswerIsTrue
<1>14. CASE Cancel
  BY <1>14, KeepGone DEF Cancel, planVars, walkVars, serverVars, GoneInv,
                         AnswerIsTrue, Here
<1>15. CASE Answer
  <2>1. Here \in Item /\ Here' = Here
    BY <1>15, HereIsItem DEF Answer, TypeOK, walkVars, Here
  <2>2. /\ op' = op /\ pc' = pc /\ pc = "inflight" /\ sum' = sum
        /\ \A i \in Item \ {Here} : there'[i] = there[i] /\ effect'[i] = effect[i]
    BY <1>15, <2>1 DEF Answer, TypeOK, planVars, walkVars, serverVars
  <2>3. op = "delete" =>
          /\ reply' \in {"accepted", "missing"} => ~there'[Here]
          /\ there'[Here] => there[Here] /\ effect'[Here] = effect[Here]
          /\ effect'[Here] > 0 => ~there'[Here]
          /\ effect'[Here] # effect[Here] => there[Here] /\ effect'[Here] = effect[Here] + 1
    BY <1>15, <2>1 DEF Answer, TypeOK, serverVars, GoneInv, EffectIsGone
  <2>4. AnswerIsTrue'
    BY <2>1, <2>2, <2>3 DEF AnswerIsTrue, GoneInv
  <2>5. effect \in [Item -> Nat] /\ effect' \in [Item -> Nat]
    BY NextType DEF TypeOK
  <2>6. ASSUME op = "delete", NEW i \in Item
        PROVE  /\ effect'[i] > 0 => effect'[i] = 1 /\ ~there'[i]
               /\ ~there[i] => ~there'[i]
    <3>1. effect[i] > 0 => effect[i] = 1 /\ ~there[i]
      BY <2>6 DEF GoneInv, EffectIsGone
    <3>2. effect[i] \in Nat /\ effect'[i] \in Nat
      BY <2>5
    <3>3. CASE i = Here
      BY <2>3, <2>6, <3>1, <3>2, <3>3
    <3>4. CASE i # Here
      BY <2>2, <2>6, <3>1, <3>4
    <3> QED BY <3>3, <3>4
  <2>7. EffectIsGone'
    BY <2>2, <2>6 DEF EffectIsGone
  <2>8. ASSUME op = "delete", NEW i \in Item
        PROVE  effect'[i] <= 1
    BY <2>5, <2>6, <2>8
  <2>9. sum.succeeded \subseteq Item
    BY DEF TypeOK, Summary
  <2>10. SucceededIsGone'
    BY <2>2, <2>6, <2>8, <2>9 DEF SucceededIsGone, GoneInv
  <2> QED BY <2>4, <2>7, <2>10 DEF GoneInv
<1>16. CASE UNCHANGED vars
  BY <1>16, KeepGone DEF vars, planVars, walkVars, serverVars, GoneInv,
                         AnswerIsTrue, Here
<1> QED BY <1>1, <1>2, <1>3, <1>4, <1>5, <1>6, <1>7, <1>8, <1>9, <1>10, <1>11, <1>12,
           <1>13, <1>14, <1>15, <1>16 DEF Next, Walk

\* Counted a success means destroyed, and no deletion takes effect twice
\* (Succeeded, and the 404 a retry of a lost DELETE meets, purge R18).
THEOREM SuccessIsDestruction == Spec => []SucceededIsGone
<1>1. TypeOK /\ GoneInv /\ [Next]_vars => TypeOK' /\ GoneInv'
  BY NextType, NextGone
<1> QED BY <1>1, InitType, InitGone, PTL DEF Spec, GoneInv

(***************************************************************************)
(* The log is never more than one attempt behind.                          *)
(***************************************************************************)

\* A step that settles nothing and leaves the Item in hand in hand.
LEMMA KeepLog ==
  ASSUME LogTrailsByOne, pc # "done", op' = op, plan' = plan, log' = log, fate' = fate,
         \A i \in Item : Working(i) => Working(i)',
         \A i \in Item : asked'[i] > 0 /\ ~Working(i)' => asked[i] > 0
  PROVE  LogTrailsByOne'
BY DEF LogTrailsByOne, HasLine

\* A step that settles the Item at the loop index and writes its line.
LEMMA LineWritten ==
  ASSUME TypeOK, WalkInv, LogTrailsByOne, pc # "done", at <= Len(plan),
         pc' \in {"top", "done"},
         op' = op, plan' = plan, asked' = asked, NEW d \in Counted,
         fate' = [fate EXCEPT ![Here] = d], log' = Logged(d)
  PROVE  LogTrailsByOne'
<1> SUFFICES ASSUME op = "delete" PROVE LogTrailsByOne'
  BY DEF LogTrailsByOne
<1>1. /\ Here \in Item
      /\ fate'[Here] = d
      /\ \A i \in Item \ {Here} : fate'[i] = fate[i]
  BY SettleAhead DEF WalkInv, Fate
<1>2. log \in Seq(Ledger) /\ log' = Append(log, Line(d))
  BY DEF TypeOK, Logged
<1>3. Line(d) \in Ledger /\ Line(d).item = Here
  BY <1>1 DEF Line, Ledger
<1>4. /\ DOMAIN log = 1..Len(log) /\ DOMAIN log' = 1..(Len(log) + 1) /\ Len(log) \in Nat
      /\ \A k \in DOMAIN log : log'[k] = log[k]
      /\ log'[Len(log) + 1] = Line(d)
  BY <1>2, <1>3, LenProperties, AppendProperties
<1>5. \A i \in Item : HasLine(i) => HasLine(i)'
  BY <1>4 DEF HasLine
<1>6. \E k \in DOMAIN log' : log'[k].item = Here
  BY <1>3, <1>4
<1>7. ASSUME NEW i \in Item, asked'[i] > 0, fate'[i] # "unrecorded"
      PROVE  HasLine(i)'
  <2>1. CASE i = Here
    BY <1>6, <2>1 DEF HasLine
  <2>2. CASE i # Here
    <3>1. ~Working(i)
      BY <2>2 DEF Working
    <3>2. HasLine(i)
      BY <1>1, <1>7, <2>2, <3>1 DEF LogTrailsByOne, HasLine
    <3> QED BY <1>5, <3>2
  <2> QED BY <2>1, <2>2
<1>8. \A k \in DOMAIN plan : plan[k] \in Item
  BY ElementOfSeq, LenProperties DEF TypeOK
<1>9. \A k \in DOMAIN plan : fate'[plan[k]] # "unrecorded"
  BY <1>1, <1>8 DEF LogTrailsByOne, Counted
<1> QED BY <1>7, <1>9 DEF LogTrailsByOne, HasLine

\* A step that stops the pass on the Item in hand, uncounted.
LEMMA LineMissing ==
  ASSUME TypeOK, WalkInv, LogTrailsByOne, pc \in {"attempt", "inflight"},
         at <= Len(plan), pc' = "done", op' = op, plan' = plan, asked' = asked,
         at' = at, log' = log, fate' = [fate EXCEPT ![Here] = "unrecorded"]
  PROVE  LogTrailsByOne'
<1>1. /\ Here \in Item
      /\ fate'[Here] = "unrecorded"
      /\ \A i \in Item \ {Here} : fate'[i] = fate[i]
      /\ \A k \in DOMAIN plan : k > at => plan[k] # Here
  BY SettleAhead DEF WalkInv, Fate
<1>2. \A k \in DOMAIN plan : plan[k] \in Item
  BY ElementOfSeq, LenProperties DEF TypeOK
<1>3. \A k \in DOMAIN plan : plan[k] = Here => k = at
  <2>1. at \in DOMAIN plan
    BY HereIsItem
  <2> QED BY <2>1 DEF WalkInv, Injective, Here
<1>4. \A i \in Item : Working(i) <=> i = Here
  BY DEF Working
<1> QED BY <1>1, <1>2, <1>3, <1>4 DEF LogTrailsByOne, HasLine

LEMMA NextLog == TypeOK /\ WalkInv /\ LogTrailsByOne /\ [Next]_vars => LogTrailsByOne'
<1> SUFFICES ASSUME TypeOK, WalkInv, LogTrailsByOne, [Next]_vars PROVE LogTrailsByOne'
  OBVIOUS
<1>1. CASE LogUnavailable
  BY <1>1, KeepLog DEF LogUnavailable, planVars, Working
<1>2. CASE Open
  BY <1>2, KeepLog DEF Open, planVars, Working
<1>3. CASE Finish
  BY <1>3, KeepLog DEF Finish, planVars, Working
<1>4. CASE StopCancelled
  BY <1>4, KeepLog DEF StopCancelled, planVars, Working
<1>5. CASE SkipItem
  <2>1. CASE fate' = fate
    <3>1. log' = log /\ op' = op /\ plan' = plan /\ asked' = asked /\ pc = "top"
      <4>1. Here \in Item /\ fate[Here] = "pending" /\ fate \in [Item -> Fate]
        BY <1>5, SettleAhead DEF SkipItem, WalkInv, Fate, TypeOK
      <4>2. fate' # [fate EXCEPT ![Here] = "skipped"]
        BY <2>1, <4>1
      <4> QED BY <1>5, <4>2 DEF SkipItem, planVars
    <3> QED BY <2>1, <3>1, KeepLog DEF Working
  <2>2. CASE /\ fate' = [fate EXCEPT ![Here] = "skipped"]
             /\ log' = Logged("skipped") /\ pc' = pc
    BY <1>5, <2>2, LineWritten DEF SkipItem, Counted, planVars
  <2> QED BY <1>5, <2>1, <2>2 DEF SkipItem
<1>6. CASE Attempt
  BY <1>6, KeepLog DEF Attempt, planVars, Working
<1>7. CASE Request
  <2>1. pc = "attempt" /\ pc' = "inflight" /\ Here' = Here /\ Here \in Item
    BY <1>7, HereIsItem DEF Request, TypeOK, Here
  <2>2. \A i \in Item : i # Here => asked'[i] = asked[i]
    BY <1>7, <2>1 DEF Request, TypeOK
  <2> QED BY <1>7, <2>1, <2>2, KeepLog DEF Request, planVars, Working
<1>8. CASE AttemptCancelled
  BY <1>8, LineMissing DEF AttemptCancelled, planVars, TypeOK
<1>9. CASE LostCancelled
  BY <1>9, LineMissing DEF LostCancelled, planVars, TypeOK
<1>10. CASE Backoff
  BY <1>10, KeepLog DEF Backoff, planVars, Working, Here
<1>11. CASE Land
  <2>1. Landed \in Counted /\ pc # "done" /\ at <= Len(plan) /\ pc' \in {"top", "done"}
    BY <1>11, LandedCounted DEF Land, Terminal, TypeOK
  <2> QED BY <1>11, <2>1, LineWritten DEF Land, planVars
<1>12. CASE LandUnlogged
  BY <1>12, LineMissing DEF LandUnlogged, Terminal, planVars, TypeOK
<1>13. CASE Retry
  <2>1. /\ op' = op /\ asked' = asked /\ log' = log /\ plan' = sum.failed
        /\ pc = "done" /\ pc' = "open"
    BY <1>13 DEF Retry, RetrySet
  <2>2. \A i \in Item : fate'[i] = "unrecorded" <=> fate[i] = "unrecorded"
    BY <1>13 DEF Retry
  <2>3. \A k \in DOMAIN plan' : fate'[plan'[k]] # "unrecorded"
    <3>1. sum.failed \in Seq(Item)
      BY DEF TypeOK, Summary
    <3>2. \A k \in DOMAIN sum.failed : sum.failed[k] \in Item /\ fate[sum.failed[k]] = "failed"
      BY <3>1, ElementOfSeq, LenProperties DEF WalkInv, FailuresAreListed
    <3> QED BY <2>1, <2>2, <3>2
  <2> QED BY <2>1, <2>2, <2>3 DEF LogTrailsByOne, HasLine, Working
<1>14. CASE Cancel
  BY <1>14, KeepLog DEF Cancel, planVars, walkVars, Working, Here
<1>15. CASE Answer
  BY <1>15, KeepLog DEF Answer, planVars, walkVars, Working, Here
<1>16. CASE UNCHANGED vars
  BY <1>16 DEF LogTrailsByOne, HasLine, vars, planVars, walkVars, Working, Here
<1> QED BY <1>1, <1>2, <1>3, <1>4, <1>5, <1>6, <1>7, <1>8, <1>9, <1>10, <1>11, <1>12,
           <1>13, <1>14, <1>15, <1>16 DEF Next, Walk

\* The log is never more than one attempt behind the walk, and an attempt
\* without a line ends its pass (the deletion log's contract, purge R29).
THEOREM LogTrails == Spec => []LogTrailsByOne
<1>1. Init => LogTrailsByOne
  BY DEF Init, LogTrailsByOne
<1>2. (TypeOK /\ WalkInv /\ LogTrailsByOne) /\ [Next]_vars
        => (TypeOK /\ WalkInv /\ LogTrailsByOne)'
  BY NextType, NextWalk, NextLog
<1> QED BY <1>1, <1>2, InitType, InitWalk, PTL DEF Spec

(***************************************************************************)
(* The walk implements a confirmed set.                                    *)
(***************************************************************************)

Standing == [i \in Item |-> IF fate[i] \in {"pending", "failed", "out"}
                            THEN fate[i] ELSE "closed"]

LEMMA InitRefines == Init => FS!Init
<1> SUFFICES ASSUME Init PROVE FS!Init
  OBVIOUS
<1>1. Standing = [i \in Item |-> IF i \in Item THEN "pending" ELSE "out"]
  BY DEF Init, Standing
<1>2. (pc # "done") = TRUE /\ asked = [i \in Item |-> 0]
  BY DEF Init
<1> QED BY <1>1, <1>2 DEF FS!Init, Standing

\* A step the promise does not see, and one that only ends the walk.
LEMMA Stutters ==
  ASSUME fate' = fate, asked' = asked, (pc' # "done") = (pc # "done")
  PROVE  UNCHANGED FS!vars
BY DEF FS!vars

LEMMA Stops ==
  ASSUME fate' = fate, asked' = asked, pc # "done", pc' = "done"
  PROVE  FS!Next
BY DEF FS!Next, FS!Stop

LEMMA Settles ==
  ASSUME TypeOK, WalkInv, at <= Len(plan), pc # "done", asked' = asked,
         NEW f \in Counted \cup {"unrecorded"}, fate' = [fate EXCEPT ![Here] = f]
  PROVE  FS!Next
<1>1. /\ Here \in Item /\ fate[Here] = "pending" /\ fate'[Here] = f
      /\ \A i \in Item \ {Here} : fate'[i] = fate[i]
  BY SettleAhead DEF WalkInv, Fate
<1>2. Here \in FS!Pending
  BY <1>1 DEF FS!Pending
<1>3. \E s \in {"closed", "failed"} : Standing' = [Standing EXCEPT ![Here] = s]
  <2> DEFINE s == IF f = "failed" THEN "failed" ELSE "closed"
  <2>1. Standing' = [Standing EXCEPT ![Here] = s]
    BY <1>1 DEF Standing, Counted
  <2> QED BY <2>1
<1>4. PICK i \in Item : i = Here
  BY <1>1
<1>5. FS!Settle(i)
  BY <1>2, <1>3, <1>4 DEF FS!Settle, Standing
<1> QED BY <1>5 DEF FS!Next

LEMMA NextRefines == TypeOK /\ WalkInv /\ [Next]_vars => [FS!Next]_(FS!vars)
<1> SUFFICES ASSUME TypeOK, WalkInv, [Next]_vars PROVE FS!Next \/ UNCHANGED FS!vars
  OBVIOUS
<1>1. CASE LogUnavailable
  BY <1>1, Stops DEF LogUnavailable
<1>2. CASE Open
  BY <1>2, Stutters DEF Open
<1>3. CASE Finish
  BY <1>3, Stops DEF Finish
<1>4. CASE StopCancelled
  BY <1>4, Stops DEF StopCancelled
<1>5. CASE SkipItem
  <2>1. CASE fate' = fate /\ pc' = "done"
    BY <1>5, <2>1, Stops DEF SkipItem
  <2>2. CASE fate' = [fate EXCEPT ![Here] = "skipped"]
    BY <1>5, <2>2, Settles DEF SkipItem, Counted
  <2> QED BY <1>5, <2>1, <2>2 DEF SkipItem
<1>6. CASE Attempt
  BY <1>6, Stutters DEF Attempt
<1>7. CASE Request
  <2>1. CASE asked' = asked
    BY <1>7, <2>1, Stutters DEF Request
  <2>2. CASE asked' = [asked EXCEPT ![Here] = @ + 1]
    <3>1. Here \in Item /\ fate[Here] = "pending" /\ fate' = fate
      BY <1>7, SettleAhead DEF Request, TypeOK, WalkInv, Fate
    <3>2. pc # "done" /\ pc' # "done"
      BY <1>7 DEF Request
    <3>3. PICK i \in Item : i = Here
      BY <3>1
    <3>4. FS!Ask(i)
      BY <2>2, <3>1, <3>2, <3>3 DEF FS!Ask, FS!Pending
    <3> QED BY <3>4 DEF FS!Next
  <2>3. asked' = asked \/ asked' = [asked EXCEPT ![Here] = @ + 1]
    <3>1. Here \in Item /\ asked \in [Item -> Nat]
      BY <1>7, HereIsItem DEF Request, TypeOK
    <3> QED BY <1>7, <3>1 DEF Request
  <2> QED BY <2>1, <2>2, <2>3
<1>8. CASE AttemptCancelled
  BY <1>8, Settles DEF AttemptCancelled, TypeOK
<1>9. CASE LostCancelled
  BY <1>9, Settles DEF LostCancelled, TypeOK
<1>10. CASE Backoff
  BY <1>10, Stutters DEF Backoff
<1>11. CASE Land
  <2>1. /\ Landed \in Counted \cup {"unrecorded"} /\ at <= Len(plan) /\ pc # "done"
        /\ asked' = asked /\ fate' = [fate EXCEPT ![Here] = Landed]
    BY <1>11, LandedCounted DEF Land, Terminal, TypeOK
  <2> QED BY <2>1, Settles
<1>12. CASE LandUnlogged
  BY <1>12, Settles DEF LandUnlogged, Terminal, TypeOK
<1>13. CASE Retry
  <2>1. pc = "done" /\ pc' = "open" /\ asked' = asked /\ sum.failed # <<>>
    BY <1>13 DEF Retry
  <2>2. FS!Failed # {}
    <3>1. sum.failed \in Seq(Item)
      BY DEF TypeOK, Summary
    <3>2. 1 \in DOMAIN sum.failed /\ sum.failed[1] \in Item
      BY <2>1, <3>1, EmptySeq, LenProperties, ElementOfSeq
    <3>3. fate[sum.failed[1]] = "failed"
      BY <3>2 DEF WalkInv, FailuresAreListed
    <3> QED BY <3>2, <3>3 DEF FS!Failed
  <2>3. Standing' = [i \in Item |-> CASE i \in FS!Failed  -> "pending"
                                      [] i \in FS!Pending -> "out"
                                      [] OTHER            -> Standing[i]]
    BY <1>13 DEF Retry, Standing, FS!Failed, FS!Pending
  <2>4. FS!Retry
    BY <2>1, <2>2, <2>3 DEF FS!Retry, Standing
  <2> QED BY <2>4 DEF FS!Next
<1>14. CASE Cancel
  BY <1>14, Stutters DEF Cancel, walkVars
<1>15. CASE Answer
  BY <1>15, Stutters DEF Answer, walkVars
<1>16. CASE UNCHANGED vars
  BY <1>16, Stutters DEF vars, walkVars
<1> QED BY <1>1, <1>2, <1>3, <1>4, <1>5, <1>6, <1>7, <1>8, <1>9, <1>10, <1>11, <1>12,
           <1>13, <1>14, <1>15, <1>16 DEF Next, Walk

\* The engine keeps the promise of a confirmed set: requests only for Items
\* still pending under the confirmation, each Item settled at most once, and a
\* retry that reopens the failures and nothing else (purge R9, R22).
THEOREM WalkKeepsAuthority == Spec => Authority
<1>1. Spec => FS!Init
  BY InitRefines, PTL DEF Spec
<1>2. Spec => [][FS!Next]_(FS!vars)
  BY WalkCorrect, NextRefines, PTL DEF Spec
<1> QED BY <1>1, <1>2, PTL DEF Authority, FS!Spec

\* What a deletion counts as destroyed is gone, and its log is at most one
\* attempt behind, at every step of every pass.
THEOREM DestroyedIsRecorded == Spec => []RecordedAndGone
<1>1. LogTrailsByOne /\ SucceededIsGone => RecordedAndGone
  BY DEF RecordedAndGone
<1> QED BY <1>1, LogTrails, SuccessIsDestruction, PTL

(***************************************************************************)
(* Every frame adds up.  While the walk is under way what is counted is    *)
(* what lies behind the loop index, with the Item-less members, and what   *)
(* is outstanding is what lies ahead of it and is no skip.                 *)
(***************************************************************************)

Walking == pc \in {"top", "attempt", "inflight"}

WalkAddsUp ==
  Walking => /\ Accounted = unmatched + at - 1
             /\ outstanding + Cardinality(PlanSkips(at)) = Len(plan) + 1 - at
             /\ pc # "top" => Here \notin skip

FramesInv ==
  /\ WalkAddsUp
  /\ pc = "done" /\ ~StoppedEarly => Accounted = Total /\ outstanding = 0

\* What the frames are computed from is numbers.
LEMMA FrameTypes ==
  ASSUME TypeOK
  PROVE  /\ Len(plan) \in Nat /\ at \in Nat /\ unmatched \in Nat /\ outstanding \in Int
         /\ Accounted \in Nat
         /\ \A n \in Nat : IsFiniteSet(PlanSkips(n)) /\ Cardinality(PlanSkips(n)) \in Nat
<1>1. Len(plan) \in Nat /\ sum.failed \in Seq(Item)
  BY LenProperties DEF TypeOK, Summary
<1>2. Len(sum.failed) \in Nat
  BY <1>1, LenProperties
<1>3. Accounted \in Nat
  BY <1>2 DEF Accounted, TypeOK, Summary
<1>4. ASSUME NEW n \in Nat
      PROVE  IsFiniteSet(PlanSkips(n)) /\ Cardinality(PlanSkips(n)) \in Nat
  <2>1. n \in Int /\ Len(plan) \in Int
    BY <1>1
  <2>2. IsFiniteSet(n..Len(plan))
    BY <2>1, FS_Interval
  <2>3. PlanSkips(n) \subseteq n..Len(plan)
    BY DEF PlanSkips
  <2> QED BY <2>2, <2>3, FS_Subset, FS_CardinalityType
<1> QED BY <1>1, <1>3, <1>4 DEF TypeOK

\* The skips ahead of the loop index, once it has moved on by one.
LEMMA SkipsAhead ==
  ASSUME TypeOK, at <= Len(plan)
  PROVE  Cardinality(PlanSkips(at)) =
           Cardinality(PlanSkips(at + 1)) + (IF Here \in skip THEN 1 ELSE 0)
<1>1. at \in Nat /\ at + 1 \in Nat /\ Len(plan) \in Nat
  BY LenProperties DEF TypeOK
<1>2. PlanSkips(at) = IF Here \in skip THEN PlanSkips(at + 1) \cup {at} ELSE PlanSkips(at + 1)
  <2>1. \A k : k \in at..Len(plan) <=> k = at \/ k \in (at + 1)..Len(plan)
    BY <1>1
  <2> QED BY <2>1 DEF PlanSkips, Here
<1>3. at \notin PlanSkips(at + 1)
  BY <1>1 DEF PlanSkips
<1>4. IsFiniteSet(PlanSkips(at + 1)) /\ Cardinality(PlanSkips(at + 1)) \in Nat
  BY <1>1, FrameTypes
<1>5. Cardinality(PlanSkips(at + 1) \cup {at}) = Cardinality(PlanSkips(at + 1)) + 1
  BY <1>3, <1>4, FS_AddElement
<1> QED BY <1>2, <1>4, <1>5

\* One more in any of five numbers is one more in their sum.
LEMMA OneMore ==
  \A a, b, c, d, e \in Nat :
    /\ (a + 1) + b + c + d + e = a + b + c + d + e + 1
    /\ a + (b + 1) + c + d + e = a + b + c + d + e + 1
    /\ a + b + (c + 1) + d + e = a + b + c + d + e + 1
    /\ a + b + c + (d + 1) + e = a + b + c + d + e + 1
    /\ a + b + c + d + (e + 1) = a + b + c + d + e + 1
OBVIOUS

\* An Item that lands adds one to what is counted, whatever it comes to.
LEMMA TallyCounts ==
  ASSUME TypeOK, NEW d \in Counted, at <= Len(plan), NEW b \in BOOLEAN,
         sum' = [Tally(sum, Here, d) EXCEPT !.circuitBroke = b]
  PROVE  Accounted' = Accounted + 1
<1>1. /\ sum.failed \in Seq(Item) /\ Here \in Item
      /\ sum \in Summary
  BY HereIsItem DEF TypeOK, Summary
<1>2. /\ Len(sum.failed) \in Nat
      /\ Len(Append(sum.failed, Here)) = Len(sum.failed) + 1
  BY <1>1, LenProperties, AppendProperties
<1> DEFINE u == sum.deleted
           v == sum.gone
           w == sum.acted
           x == sum.skipped
           n == Len(sum.failed)
<1>3. /\ u \in Nat /\ v \in Nat /\ w \in Nat /\ x \in Nat /\ n \in Nat
      /\ Accounted = u + v + w + x + n
  BY <1>1, <1>2 DEF Summary, Accounted
<1> DEFINE m == Len(sum'.failed)
<1>4. Accounted' = sum'.deleted + sum'.gone + sum'.acted + sum'.skipped + m
  BY DEF Accounted
<1>5. CASE d = "failed"
  <2>1. /\ sum'.deleted = sum.deleted /\ sum'.gone = sum.gone /\ sum'.acted = sum.acted
        /\ sum'.skipped = sum.skipped /\ m = n + 1
    BY <1>1, <1>2, <1>5 DEF Tally, Summary
  <2>2. Accounted' = u + v + w + x + (n + 1)
    BY <1>4, <2>1
  <2> HIDE DEF u, v, w, x, n, m
  <2> QED BY <1>3, <2>2, OneMore
<1>6. CASE d = "deleted"
  <2>1. /\ sum'.deleted = sum.deleted + 1 /\ sum'.gone = sum.gone /\ sum'.acted = sum.acted
        /\ sum'.skipped = sum.skipped /\ m = n
    BY <1>1, <1>6 DEF Tally, Summary
  <2>2. Accounted' = (u + 1) + v + w + x + n
    BY <1>4, <2>1
  <2> HIDE DEF u, v, w, x, n, m
  <2> QED BY <1>3, <2>2, OneMore
<1>7. CASE d = "gone"
  <2>1. /\ sum'.deleted = sum.deleted /\ sum'.gone = sum.gone + 1 /\ sum'.acted = sum.acted
        /\ sum'.skipped = sum.skipped /\ m = n
    BY <1>1, <1>7 DEF Tally, Summary
  <2>2. Accounted' = u + (v + 1) + w + x + n
    BY <1>4, <2>1
  <2> HIDE DEF u, v, w, x, n, m
  <2> QED BY <1>3, <2>2, OneMore
<1>8. CASE d = "acted"
  <2>1. /\ sum'.deleted = sum.deleted /\ sum'.gone = sum.gone /\ sum'.acted = sum.acted + 1
        /\ sum'.skipped = sum.skipped /\ m = n
    BY <1>1, <1>8 DEF Tally, Summary
  <2>2. Accounted' = u + v + (w + 1) + x + n
    BY <1>4, <2>1
  <2> HIDE DEF u, v, w, x, n, m
  <2> QED BY <1>3, <2>2, OneMore
<1>9. CASE d = "skipped"
  <2>1. /\ sum'.deleted = sum.deleted /\ sum'.gone = sum.gone /\ sum'.acted = sum.acted
        /\ sum'.skipped = sum.skipped + 1 /\ m = n
    BY <1>1, <1>9 DEF Tally, Summary
  <2>2. Accounted' = u + v + w + (x + 1) + n
    BY <1>4, <2>1
  <2> HIDE DEF u, v, w, x, n, m
  <2> QED BY <1>3, <2>2, OneMore
<1> QED BY <1>5, <1>6, <1>7, <1>8, <1>9 DEF Counted

\* A step within the walk that neither settles an Item nor moves on.
LEMMA KeepFrames ==
  ASSUME FramesInv, Walking, UNCHANGED <<skip, unmatched, plan, at, sum, outstanding>>,
         Walking', pc' = "top" \/ Here \notin skip
  PROVE  FramesInv'
BY DEF FramesInv, WalkAddsUp, Walking, Accounted, PlanSkips, Here

\* A step that stops the pass, and says so in the Summary.
LEMMA StopFrames ==
  ASSUME pc' = "done", StoppedEarly'
  PROVE  FramesInv'
BY DEF FramesInv, WalkAddsUp, Walking

LEMMA OpenFrames == TypeOK /\ Open => FramesInv'
<1> SUFFICES ASSUME TypeOK, Open  PROVE FramesInv'
  OBVIOUS
<1>1. /\ pc' = "top" /\ at' = 1 /\ plan' = plan /\ unmatched' = unmatched /\ skip' = skip
      /\ outstanding' = Total - (unmatched + Cardinality(PlanSkips(1)))
      /\ sum' = [EmptySummary EXCEPT !.skipped = unmatched]
  BY DEF Open, FirstIndex, OpeningOutstanding, OpeningSum, planVars
<1>2. Accounted' = unmatched
  <2>1. sum'.failed = <<>> /\ Len(<<>>) = 0
    BY <1>1, EmptySeq DEF EmptySummary
  <2>2. /\ sum'.deleted = 0 /\ sum'.gone = 0 /\ sum'.acted = 0 /\ sum'.skipped = unmatched
    BY <1>1 DEF EmptySummary
  <2> QED BY <2>1, <2>2, FrameTypes DEF Accounted
<1>3. Cardinality(PlanSkips(1)) \in Nat /\ PlanSkips(at)' = PlanSkips(1)
  BY <1>1, FrameTypes DEF PlanSkips
<1>4. outstanding' + Cardinality(PlanSkips(1)) = Len(plan) + 1 - 1
  BY <1>1, <1>3, FrameTypes DEF Total
<1> QED BY <1>1, <1>2, <1>3, <1>4, FrameTypes DEF FramesInv, WalkAddsUp

\* The Item at the loop index is counted, and the walk moves on.
LEMMA MoveFrames ==
  ASSUME TypeOK, FramesInv, Walking, at <= Len(plan), pc' = "top", at' = at + 1,
         UNCHANGED <<skip, unmatched, plan>>, Accounted' = Accounted + 1,
         outstanding' = IF Here \in skip THEN outstanding ELSE outstanding - 1
  PROVE  FramesInv'
<1>1. PlanSkips(at)' = PlanSkips(at + 1)
  BY DEF PlanSkips
<1>2. /\ Cardinality(PlanSkips(at + 1)) \in Nat /\ Cardinality(PlanSkips(at)) \in Nat
      /\ Len(plan) \in Nat /\ at \in Nat /\ unmatched \in Nat /\ outstanding \in Int
      /\ Accounted \in Nat
  BY FrameTypes
<1>3. Cardinality(PlanSkips(at)) =
        Cardinality(PlanSkips(at + 1)) + (IF Here \in skip THEN 1 ELSE 0)
  BY SkipsAhead
<1>4. Accounted' = unmatched + at' - 1
  BY <1>2 DEF FramesInv, WalkAddsUp
<1>5. outstanding' + Cardinality(PlanSkips(at + 1)) = Len(plan) + 1 - at'
  <2>1. outstanding + Cardinality(PlanSkips(at)) = Len(plan) + 1 - at
    BY DEF FramesInv, WalkAddsUp
  <2>2. CASE Here \in skip
    BY <1>2, <1>3, <2>1, <2>2
  <2>3. CASE Here \notin skip
    BY <1>2, <1>3, <2>1, <2>3
  <2> QED BY <2>2, <2>3
<1> QED BY <1>1, <1>4, <1>5 DEF FramesInv, WalkAddsUp

LEMMA NextFrames == TypeOK /\ FramesInv /\ [Next]_vars => FramesInv'
<1> SUFFICES ASSUME TypeOK, FramesInv, [Next]_vars PROVE FramesInv'
  OBVIOUS
<1> USE DEF planVars
<1>1. CASE LogUnavailable
  BY <1>1, StopFrames DEF LogUnavailable, StoppedEarly
<1>2. CASE Open
  BY <1>2, OpenFrames
<1>3. CASE Finish
  <2>1. /\ pc = "top" /\ pc' = "done" /\ at > Len(plan) /\ at <= Len(plan) + 1
        /\ UNCHANGED <<plan, unmatched, at, sum, outstanding>>
    BY <1>3 DEF Finish, TypeOK
  <2>2. at = Len(plan) + 1
    BY <2>1, FrameTypes
  <2>3. Cardinality(PlanSkips(at)) = 0
    <3>1. PlanSkips(at) = {}
      BY <2>2, FrameTypes DEF PlanSkips
    <3> QED BY <3>1, FS_EmptySet
  <2>4. Accounted = Total /\ outstanding = 0
    <3>1. /\ Accounted = unmatched + at - 1
          /\ outstanding + Cardinality(PlanSkips(at)) = Len(plan) + 1 - at
      BY <2>1 DEF FramesInv, WalkAddsUp, Walking
    <3> QED BY <2>2, <2>3, <3>1, FrameTypes DEF Total
  <2>5. Accounted' = Accounted /\ Total' = Total
    BY <2>1 DEF Accounted, Total
  <2> QED BY <2>1, <2>4, <2>5 DEF FramesInv, WalkAddsUp, Walking
<1>4. CASE StopCancelled
  <2>1. sum'.cancelled
    BY <1>4 DEF StopCancelled, TypeOK, Summary
  <2> QED BY <1>4, <2>1, StopFrames DEF StopCancelled, StoppedEarly
<1>5. CASE SkipItem
  <2>1. CASE sum' = [sum EXCEPT !.skipped = @ + 1] /\ at' = at + 1 /\ pc' = pc
    <3>1. Accounted' = Accounted + 1
      <4> DEFINE u == sum.deleted
                 v == sum.gone
                 w == sum.acted
                 x == sum.skipped
                 n == Len(sum.failed)
      <4>1. sum.failed \in Seq(Item) /\ sum \in Summary
        BY DEF TypeOK, Summary
      <4>2. u \in Nat /\ v \in Nat /\ w \in Nat /\ x \in Nat /\ n \in Nat
        BY <4>1, LenProperties DEF Summary
      <4>3. /\ sum'.deleted = u /\ sum'.gone = v /\ sum'.acted = w
            /\ sum'.skipped = x + 1 /\ sum'.failed = sum.failed
        BY <2>1, <4>1 DEF Summary
      <4>4. Accounted' = u + v + w + (x + 1) + n /\ Accounted = u + v + w + x + n
        BY <4>3 DEF Accounted
      <4> HIDE DEF u, v, w, x, n
      <4> QED BY <4>2, <4>4, OneMore
    <3> QED BY <1>5, <2>1, <3>1, MoveFrames DEF SkipItem, Walking
  <2>2. CASE sum' = [sum EXCEPT !.logFailed = TRUE] /\ pc' = "done"
    <3>1. sum'.logFailed
      BY <2>2 DEF TypeOK, Summary
    <3> QED BY <2>2, <3>1, StopFrames DEF StoppedEarly
  <2> QED BY <1>5, <2>1, <2>2 DEF SkipItem
<1>6. CASE Attempt
  BY <1>6, KeepFrames DEF Attempt, Walking
<1>7. CASE Request
  BY <1>7, KeepFrames DEF Request, Walking, FramesInv, WalkAddsUp
<1>8. CASE AttemptCancelled
  <2>1. sum'.cancelled
    BY <1>8 DEF AttemptCancelled, TypeOK, Summary
  <2> QED BY <1>8, <2>1, StopFrames DEF AttemptCancelled, StoppedEarly
<1>9. CASE LostCancelled
  <2>1. sum'.cancelled
    BY <1>9 DEF LostCancelled, TypeOK, Summary
  <2> QED BY <1>9, <2>1, StopFrames DEF LostCancelled, StoppedEarly
<1>10. CASE Backoff
  BY <1>10, KeepFrames DEF Backoff, Walking, FramesInv, WalkAddsUp
<1>11. CASE Land
  <2> DEFINE broke == Landed = "failed" /\ Streak(Landed) >= Breaker
  <2>1. /\ Landed \in Counted /\ pc = "inflight" /\ at <= Len(plan) /\ broke \in BOOLEAN
    BY <1>11, LandedCounted DEF Land, Terminal, TypeOK
  <2>2. /\ sum' = [Tally(sum, Here, Landed) EXCEPT !.circuitBroke = broke]
        /\ pc' = IF broke THEN "done" ELSE "top"
        /\ at' = IF broke THEN at ELSE at + 1
        /\ outstanding' = outstanding - 1
        /\ UNCHANGED <<skip, unmatched, plan>>
    BY <1>11 DEF Land
  <2> HIDE DEF broke
  <2>3. CASE broke
    <3>1. Tally(sum, Here, Landed) \in Summary
      BY <2>1, TallyType, HereIsItem DEF TypeOK
    <3>2. sum'.circuitBroke
      BY <2>2, <2>3, <3>1 DEF Summary
    <3> QED BY <2>2, <2>3, <3>2, StopFrames DEF StoppedEarly
  <2>4. CASE ~broke
    <3>1. Accounted' = Accounted + 1
      BY <2>1, <2>2, TallyCounts
    <3>2. Here \notin skip
      BY <2>1 DEF FramesInv, WalkAddsUp, Walking
    <3> QED BY <2>1, <2>2, <2>4, <3>1, <3>2, MoveFrames DEF Walking
  <2> QED BY <2>3, <2>4
<1>12. CASE LandUnlogged
  <2>1. sum'.logFailed
    BY <1>12 DEF LandUnlogged, TypeOK, Summary
  <2> QED BY <1>12, <2>1, StopFrames DEF LandUnlogged, StoppedEarly
<1>13. CASE Retry
  BY <1>13 DEF Retry, FramesInv, WalkAddsUp, Walking
<1>14. CASE Cancel
  BY <1>14 DEF Cancel, walkVars, FramesInv, WalkAddsUp, Walking, Accounted, PlanSkips, Here,
               Total, StoppedEarly
<1>15. CASE Answer
  BY <1>15 DEF Answer, walkVars, FramesInv, WalkAddsUp, Walking, Accounted, PlanSkips, Here,
               Total, StoppedEarly
<1>16. CASE UNCHANGED vars
  BY <1>16 DEF vars, walkVars, FramesInv, WalkAddsUp, Walking, Accounted, PlanSkips, Here,
               Total, StoppedEarly
<1> QED BY <1>1, <1>2, <1>3, <1>4, <1>5, <1>6, <1>7, <1>8, <1>9, <1>10, <1>11, <1>12,
           <1>13, <1>14, <1>15, <1>16 DEF Next, Walk

\* Every frame adds up: what is counted, what is outstanding and the skips still
\* ahead make the total, and a pass that ran to its end counted every member
\* once (executeSet's opening frame and its emit).
THEOREM FramesAlwaysAddUp == Spec => []FramesAddUp
<1>1. Init => FramesInv
  BY DEF Init, FramesInv, WalkAddsUp, Walking
<1>2. TypeOK /\ FramesInv => FramesAddUp
  <2> SUFFICES ASSUME TypeOK, FramesInv PROVE FramesAddUp
    OBVIOUS
  <2>1. ASSUME pc = "top"
        PROVE  Accounted + outstanding + Cardinality(PlanSkips(at)) = Total
    <3> DEFINE ahead == Cardinality(PlanSkips(at))
               counted == Accounted
               n == Len(plan)
    <3>1. counted = unmatched + at - 1 /\ outstanding + ahead = n + 1 - at
      BY <2>1 DEF FramesInv, WalkAddsUp, Walking
    <3>2. /\ ahead \in Nat /\ counted \in Nat /\ n \in Nat /\ at \in Nat
          /\ unmatched \in Nat /\ outstanding \in Int
      BY FrameTypes
    <3>3. Total = n + unmatched
      BY DEF Total
    <3> HIDE DEF ahead, counted, n
    <3>4. counted + outstanding + ahead = counted + (outstanding + ahead)
      BY <3>2
    <3>5. counted + outstanding + ahead = n + unmatched
      BY <3>1, <3>2, <3>4
    <3> QED BY <3>3, <3>5 DEF ahead, counted
  <2> QED BY <2>1 DEF FramesInv, FramesAddUp
<1>3. (TypeOK /\ FramesInv) /\ [Next]_vars => (TypeOK /\ FramesInv)'
  BY NextType, NextFrames
<1> QED BY <1>1, <1>2, <1>3, InitType, PTL DEF Spec

(***************************************************************************)
(* The log and the Items' fates agree.  An Item still pending under this   *)
(* authority has been attempted before only to fail, so a new line of its  *)
(* own is never preceded by anything else.                                 *)
(***************************************************************************)

TellsOf(i) == \E k \in DOMAIN log : LastLine(k) /\ log[k] = [item |-> i, outcome |-> fate[i]]

LogInv ==
  op = "delete" =>
    /\ \A i \in Item : fate[i] \in Counted => TellsOf(i)
    /\ \A k \in DOMAIN log : LastLine(k) \/ log[k].outcome = "failed"
    /\ \A k \in DOMAIN log : fate[log[k].item] = "pending" => log[k].outcome = "failed"

LEMMA LogLines ==
  ASSUME TypeOK
  PROVE  /\ DOMAIN log = 1..Len(log) /\ Len(log) \in Nat
         /\ \A k \in DOMAIN log : log[k].item \in Item /\ log[k].outcome \in Counted
<1>1. log \in Seq(Ledger)
  BY DEF TypeOK
<1>2. DOMAIN log = 1..Len(log) /\ Len(log) \in Nat
  BY <1>1, LenProperties
<1>3. \A k \in DOMAIN log : log[k] \in Ledger
  BY <1>1, <1>2, ElementOfSeq
<1> QED BY <1>2, <1>3 DEF Ledger

\* A step that writes no line, and changes no fate into one that a line tells
\* or into a pending one.
LEMMA UnloggedTells ==
  ASSUME LogInv, TypeOK, op' = op, log' = log,
         \A i \in Item : fate'[i] = fate[i] \/ fate'[i] \notin Counted \cup {"pending"}
  PROVE  LogInv'
<1>1. \A k \in DOMAIN log : log[k].item \in Item
  BY LogLines
<1> QED BY <1>1 DEF LogInv, TellsOf, LastLine

\* The Item at the loop index is settled, and its line says how.
LEMMA LineTells ==
  ASSUME TypeOK, WalkInv, LogInv, pc # "done", at <= Len(plan), op' = op,
         NEW d \in Counted, fate' = [fate EXCEPT ![Here] = d], log' = Logged(d)
  PROVE  LogInv'
<1> SUFFICES ASSUME op = "delete" PROVE LogInv'
  BY DEF LogInv
<1>1. /\ Here \in Item /\ fate[Here] = "pending" /\ fate'[Here] = d
      /\ \A i \in Item \ {Here} : fate'[i] = fate[i]
  BY SettleAhead DEF WalkInv, Fate
<1>2. log \in Seq(Ledger) /\ log' = Append(log, Line(d))
  BY DEF TypeOK, Logged
<1>3. Line(d) \in Ledger /\ Line(d) = [item |-> Here, outcome |-> d]
  BY <1>1 DEF Line, Ledger
<1>4. PICK n \in Nat : n = Len(log)
  BY LogLines
<1>5. /\ DOMAIN log = 1..n /\ DOMAIN log' = 1..(n + 1) /\ n \in Nat
      /\ \A k \in DOMAIN log : log'[k] = log[k]
      /\ log'[n + 1] = Line(d)
  BY <1>2, <1>3, <1>4, LenProperties, AppendProperties
<1>6. LastLine(n + 1)'
  BY <1>5 DEF LastLine
<1>7. \A k \in DOMAIN log : LastLine(k) /\ log[k].item # Here => LastLine(k)'
  BY <1>3, <1>5 DEF LastLine
<1>8. ASSUME NEW i \in Item, fate'[i] \in Counted
      PROVE  TellsOf(i)'
  <2>1. CASE i = Here
    <3>1. log'[n + 1] = [item |-> i, outcome |-> fate'[i]] /\ n + 1 \in DOMAIN log'
      BY <1>1, <1>3, <1>5, <2>1
    <3> QED BY <1>6, <3>1 DEF TellsOf
  <2>2. CASE i # Here
    <3>1. PICK k \in DOMAIN log : LastLine(k) /\ log[k] = [item |-> i, outcome |-> fate[i]]
      BY <1>1, <1>8, <2>2 DEF LogInv, TellsOf
    <3>2. log'[k] = [item |-> i, outcome |-> fate'[i]] /\ k \in DOMAIN log' /\ LastLine(k)'
      BY <1>1, <1>5, <1>7, <2>2, <3>1
    <3> QED BY <3>2 DEF TellsOf
  <2> QED BY <2>1, <2>2
<1>9. ASSUME NEW k \in DOMAIN log'
      PROVE  LastLine(k)' \/ log'[k].outcome = "failed"
  <2>1. CASE k = n + 1
    BY <1>6, <2>1
  <2>2. CASE k \in DOMAIN log
    <3>1. log[k].item = Here => log[k].outcome = "failed"
      BY <1>1, <2>2 DEF LogInv
    <3> QED BY <1>5, <1>7, <2>2, <3>1 DEF LogInv
  <2> QED BY <1>5, <2>1, <2>2
<1>10. ASSUME NEW k \in DOMAIN log', fate'[log'[k].item] = "pending"
       PROVE  log'[k].outcome = "failed"
  <2>1. log'[k].item # Here
    BY <1>1, <1>10 DEF Counted
  <2>2. k \in DOMAIN log
    BY <1>3, <1>5, <2>1
  <2>3. log'[k] = log[k] /\ log[k].item \in Item
    BY <1>5, <2>2, LogLines
  <2> QED BY <1>1, <1>10, <2>1, <2>2, <2>3 DEF LogInv
<1> QED BY <1>8, <1>9, <1>10 DEF LogInv

LEMMA NextTells == TypeOK /\ WalkInv /\ LogInv /\ [Next]_vars => LogInv'
<1> SUFFICES ASSUME TypeOK, WalkInv, LogInv, [Next]_vars PROVE LogInv'
  OBVIOUS
<1> USE DEF planVars
<1>1. ASSUME UNCHANGED <<op, log, fate>>  PROVE LogInv'
  BY <1>1, UnloggedTells
<1>2. ASSUME UNCHANGED <<op, log>>, at <= Len(plan), pc # "done",
             fate' = [fate EXCEPT ![Here] = "unrecorded"]
      PROVE  LogInv'
  <2>1. \A i \in Item : fate'[i] = fate[i] \/ fate'[i] = "unrecorded"
    BY <1>2 DEF TypeOK
  <2> QED BY <1>2, <2>1, UnloggedTells DEF Counted
<1>3. CASE SkipItem
  <2>1. CASE log' = Logged("skipped") /\ fate' = [fate EXCEPT ![Here] = "skipped"]
    BY <1>3, <2>1, LineTells DEF SkipItem, Counted
  <2>2. CASE UNCHANGED <<log, fate>>
    BY <1>1, <1>3, <2>2 DEF SkipItem
  <2> QED BY <1>3, <2>1, <2>2 DEF SkipItem
<1>4. CASE AttemptCancelled
  BY <1>2, <1>4 DEF AttemptCancelled, TypeOK
<1>5. CASE LostCancelled
  BY <1>2, <1>5 DEF LostCancelled, TypeOK
<1>6. CASE Land
  <2>1. Landed \in Counted /\ pc # "done" /\ at <= Len(plan)
    BY <1>6, LandedCounted DEF Land, Terminal, TypeOK
  <2> QED BY <1>6, <2>1, LineTells DEF Land
<1>7. CASE LandUnlogged
  BY <1>2, <1>7 DEF LandUnlogged, Terminal, TypeOK
<1>8. CASE Retry
  <2>1. op' = op /\ log' = log
    BY <1>8 DEF Retry
  <2>2. \A i \in Item : fate'[i] = CASE fate[i] = "failed"  -> "pending"
                                     [] fate[i] = "pending" -> "out"
                                     [] OTHER               -> fate[i]
    BY <1>8 DEF Retry
  <2>3. SUFFICES ASSUME op = "delete" PROVE LogInv'
    BY <2>1 DEF LogInv
  <2>4. \A k \in DOMAIN log : LastLine(k)' = LastLine(k)
    BY <2>1 DEF LastLine
  <2>5. ASSUME NEW i \in Item, fate'[i] \in Counted  PROVE TellsOf(i)'
    <3>1. fate'[i] = fate[i]
      BY <2>2, <2>5 DEF Counted
    <3> QED BY <2>1, <2>3, <2>4, <2>5, <3>1 DEF LogInv, TellsOf
  <2>6. ASSUME NEW k \in DOMAIN log, fate'[log[k].item] = "pending"
        PROVE  log[k].outcome = "failed"
    <3> DEFINE i == log[k].item
    <3>1. i \in Item
      BY LogLines
    <3>2. fate[i] = "failed"
      BY <2>2, <2>6, <3>1
    <3>3. PICK j \in DOMAIN log : LastLine(j) /\ log[j] = [item |-> i, outcome |-> "failed"]
      BY <2>3, <3>1, <3>2 DEF LogInv, TellsOf, Counted
    <3>4. CASE LastLine(k)
      <4>1. j = k
        <5>1. log[j].item = log[k].item
          BY <3>3
        <5>2. j <= k /\ k <= j
          BY <3>3, <3>4, <5>1 DEF LastLine
        <5>3. j \in Nat /\ k \in Nat
          BY LenProperties DEF TypeOK
        <5> QED BY <5>2, <5>3
      <4> QED BY <3>3, <4>1
    <3>5. CASE ~LastLine(k)
      BY <2>3, <3>5 DEF LogInv
    <3> QED BY <3>4, <3>5
  <2>7. \A k \in DOMAIN log : LastLine(k)' \/ log[k].outcome = "failed"
    BY <2>3, <2>4 DEF LogInv
  <2> QED BY <2>1, <2>5, <2>6, <2>7 DEF LogInv
<1>9. CASE LogUnavailable \/ Open \/ Finish \/ StopCancelled
  BY <1>1, <1>9 DEF LogUnavailable, Open, Finish, StopCancelled
<1>10. CASE Attempt \/ Request \/ Backoff
  BY <1>1, <1>10 DEF Attempt, Request, Backoff
<1>11. CASE Cancel \/ Answer \/ UNCHANGED vars
  BY <1>1, <1>11 DEF Cancel, Answer, vars, walkVars
<1> QED BY <1>3, <1>4, <1>5, <1>6, <1>7, <1>8, <1>9, <1>10, <1>11 DEF Next, Walk

\* The log tells what the summary says: the last line of an Item is the
\* disposition it was counted under, and every earlier one is a failure, because
\* a retry attempts only what failed (log.go, progress.go).
THEOREM LogAlwaysTellsFate == Spec => []LogTellsFate
<1>1. Init => LogInv
  <2> SUFFICES ASSUME Init PROVE LogInv
    OBVIOUS
  <2>1. DOMAIN log = {} /\ \A i \in Item : fate[i] = "pending"
    BY EmptySeq, LenProperties DEF Init
  <2> QED BY <2>1 DEF LogInv, Counted
<1>2. LogInv => LogTellsFate
  BY DEF LogInv, LogTellsFate, TellsOf
<1>3. (TypeOK /\ WalkInv /\ LogInv) /\ [Next]_vars => (TypeOK /\ WalkInv /\ LogInv)'
  BY NextType, NextWalk, NextTells
<1> QED BY <1>1, <1>2, <1>3, InitType, InitWalk, PTL DEF Spec

(***************************************************************************)
(* The breaker is exact.  The engine keeps a number where the property     *)
(* speaks of what the last attempts came to: while it walks, the number is *)
(* the length of the longest run of failures the walk so far ends in.      *)
(***************************************************************************)

Places == 1..(Len(plan) + 1)

EndsIn(n) ==
  /\ \E first \in Places : AllFailed(first) /\ Cardinality(TriedFrom(first)) = n
  /\ \A first \in Places : AllFailed(first) => Cardinality(TriedFrom(first)) <= n

BreakInv ==
  /\ Walking => ~sum.circuitBroke /\ failureStreak < Breaker /\ EndsIn(failureStreak)
  /\ pc = "done" => BreakerExact

LEMMA TriedTypes ==
  ASSUME TypeOK
  PROVE  /\ Len(plan) \in Nat /\ at \in Nat /\ failureStreak \in Nat
         /\ DOMAIN plan = 1..Len(plan)
         /\ \A k \in DOMAIN plan : plan[k] \in Item
         /\ \A first \in Nat : /\ IsFiniteSet(TriedFrom(first))
                               /\ Cardinality(TriedFrom(first)) \in Nat
<1>1. plan \in Seq(Item) /\ Len(plan) \in Nat /\ DOMAIN plan = 1..Len(plan)
  BY LenProperties DEF TypeOK
<1>2. \A k \in DOMAIN plan : plan[k] \in Item
  BY <1>1, ElementOfSeq
<1>3. ASSUME NEW first \in Nat
      PROVE  /\ IsFiniteSet(TriedFrom(first)) /\ Cardinality(TriedFrom(first)) \in Nat
  <2>1. first \in Int /\ Len(plan) \in Int
    BY <1>1
  <2>2. IsFiniteSet(first..Len(plan)) /\ TriedFrom(first) \subseteq first..Len(plan)
    BY <2>1, FS_Interval DEF TriedFrom
  <2> QED BY <2>2, FS_Subset, FS_CardinalityType
<1> QED BY <1>1, <1>2, <1>3 DEF TypeOK

\* What the property says, of a walk that ends in so many failures.
LEMMA ExactBreak ==
  ASSUME TypeOK, NEW n \in Nat, EndsIn(n), n <= Breaker, sum.circuitBroke <=> n = Breaker
  PROVE  BreakerExact
<1>1. /\ Len(plan) \in Nat /\ DOMAIN plan = 1..Len(plan) /\ Breaker \in Nat /\ Breaker # 0
      /\ \A first \in Places : first \in Nat /\ Cardinality(TriedFrom(first)) \in Nat
  BY TriedTypes, PassAssumption DEF Places
<1>2. ASSUME n = Breaker
      PROVE  \E first \in DOMAIN plan : AllFailed(first) /\ Cardinality(TriedFrom(first)) = Breaker
  <2>1. PICK first \in Places : AllFailed(first) /\ Cardinality(TriedFrom(first)) = Breaker
    BY <1>2 DEF EndsIn
  <2>2. first # Len(plan) + 1
    <3>1. TriedFrom(Len(plan) + 1) = {}
      BY <1>1 DEF TriedFrom
    <3> QED BY <1>1, <2>1, <3>1, FS_EmptySet
  <2> QED BY <1>1, <2>1, <2>2 DEF Places
<1>3. ASSUME NEW first \in DOMAIN plan, AllFailed(first), Cardinality(TriedFrom(first)) = Breaker
      PROVE  n = Breaker
  <2>1. first \in Places
    BY <1>1 DEF Places
  <2>2. Cardinality(TriedFrom(first)) <= n
    BY <1>3, <2>1 DEF EndsIn
  <2> QED BY <1>1, <1>3, <2>2
<1> QED BY <1>2, <1>3 DEF BreakerExact

ExactEnd == \A n \in Nat :
  EndsIn(n) /\ n <= Breaker /\ (sum.circuitBroke <=> n = Breaker) => BreakerExact

\* The same of this state and of the next.
LEMMA EndIsExact == TypeOK => ExactEnd
BY ExactBreak DEF ExactEnd
LEMMA EndIsExactNext == TypeOK' => ExactEnd'
BY EndIsExact, PTL

\* Before the first Item nothing has been tried.
LEMMA NothingTried ==
  ASSUME TypeOK, WalkInv, pc = "open"
  PROVE  EndsIn(0)
<1>1. \A first \in Places : TriedFrom(first) = {}
  <2> SUFFICES ASSUME NEW first \in Places, NEW k \in TriedFrom(first) PROVE FALSE
    OBVIOUS
  <2>1. k \in DOMAIN plan
    BY TriedTypes DEF TriedFrom, Places
  <2>2. fate[plan[k]] = "pending"
    BY <2>1 DEF WalkInv, AheadIsPending
  <2> QED BY <2>2 DEF TriedFrom, Counted
<1>2. 1 \in Places
  BY TriedTypes DEF Places
<1> QED BY <1>1, <1>2, FS_EmptySet DEF EndsIn, AllFailed

\* What settling the Item at the loop index adds to the attempts.
LEMMA SettleTried ==
  ASSUME TypeOK, WalkInv, Walking, at <= Len(plan), NEW d \in Fate,
         fate' = [fate EXCEPT ![Here] = d], plan' = plan,
         NEW first \in Nat \ {0}
  PROVE  /\ at \notin TriedFrom(first)
         /\ first > at => TriedFrom(first) = {}
         /\ TriedFrom(first)' = IF d \in Counted \ {"skipped"} /\ first <= at
                                THEN TriedFrom(first) \cup {at} ELSE TriedFrom(first)
         /\ \A k \in TriedFrom(first) : fate'[plan[k]] = fate[plan[k]]
         /\ fate'[plan[at]] = d
<1>1. /\ Here \in Item /\ fate[Here] = "pending" /\ fate'[Here] = d
      /\ \A k \in DOMAIN plan : k > at => fate[plan[k]] = "pending"
      /\ \A i \in Item \ {Here} : fate'[i] = fate[i]
  BY SettleAhead DEF WalkInv, Walking
<1>2. at \in DOMAIN plan /\ \A k \in DOMAIN plan : plan[k] = Here => k = at
  <2>1. at \in DOMAIN plan
    BY HereIsItem
  <2> QED BY <2>1 DEF WalkInv, Injective, Here
<1>3. /\ Len(plan) \in Nat /\ at \in Nat /\ DOMAIN plan = 1..Len(plan) /\ at # 0
      /\ \A k \in DOMAIN plan : plan[k] \in Item
  BY <1>2, TriedTypes
<1>4. "pending" \notin Counted
  BY DEF Counted
<1>5. at \notin TriedFrom(first)
  BY <1>1, <1>4 DEF TriedFrom, Here
<1>6. \A k \in first..Len(plan) : k \in DOMAIN plan
  BY <1>3
<1>7. first > at => TriedFrom(first) = {}
  <2> SUFFICES ASSUME first > at, NEW k \in TriedFrom(first) PROVE FALSE
    OBVIOUS
  <2>1. k \in DOMAIN plan /\ k > at
    BY <1>3, <1>6 DEF TriedFrom
  <2> QED BY <1>1, <1>4, <2>1 DEF TriedFrom
<1>8. \A k \in first..Len(plan) : k # at => fate'[plan[k]] = fate[plan[k]]
  BY <1>1, <1>2, <1>3, <1>6
<1>9. at \in first..Len(plan) <=> first <= at
  BY <1>3
<1>10. fate'[plan[at]] = d
  BY <1>1 DEF Here
<1>11. \A k : k \in TriedFrom(first)' <=>
          k \in first..Len(plan) /\ fate'[plan[k]] \in Counted \ {"skipped"}
  BY DEF TriedFrom
<1>12. \A k : k \in TriedFrom(first) <=>
          k \in first..Len(plan) /\ fate[plan[k]] \in Counted \ {"skipped"}
  BY DEF TriedFrom
<1>13. ASSUME d \in Counted \ {"skipped"}, first <= at
       PROVE  TriedFrom(first)' = TriedFrom(first) \cup {at}
  BY <1>8, <1>9, <1>10, <1>11, <1>12, <1>13
<1>14. ASSUME ~(d \in Counted \ {"skipped"} /\ first <= at)
       PROVE  TriedFrom(first)' = TriedFrom(first)
  BY <1>5, <1>8, <1>9, <1>10, <1>11, <1>12, <1>14
<1>15. \A k \in TriedFrom(first) : fate'[plan[k]] = fate[plan[k]]
  BY <1>5, <1>8, <1>12
<1> QED BY <1>5, <1>7, <1>10, <1>13, <1>14, <1>15

LEMMA PlacesAre ==
  ASSUME TypeOK, at <= Len(plan)
  PROVE  /\ \A first \in Places : first \in Nat \ {0}
         /\ at \in Nat /\ at \in Places /\ at + 1 \in Places
<1>1. Len(plan) \in Nat /\ at \in Nat \ {0}
  BY TriedTypes DEF TypeOK
<1> QED BY <1>1 DEF Places

\* A settled Item that was no attempt, or was skipped, leaves the run of failures.
LEMMA SameEnd ==
  ASSUME TypeOK, WalkInv, Walking, at <= Len(plan), NEW d \in Fate,
         d \notin Counted \ {"skipped"},
         fate' = [fate EXCEPT ![Here] = d], plan' = plan, NEW n, EndsIn(n)
  PROVE  EndsIn(n)'
<1>1. Places' = Places
  BY DEF Places
<1>2. ASSUME NEW first \in Places
      PROVE  TriedFrom(first)' = TriedFrom(first) /\ (AllFailed(first)' <=> AllFailed(first))
  <2>1. first \in Nat \ {0}
    BY PlacesAre
  <2>2. /\ TriedFrom(first)' = TriedFrom(first)
        /\ \A k \in TriedFrom(first) : fate'[plan[k]] = fate[plan[k]]
    BY <2>1, SettleTried
  <2> QED BY <2>2 DEF AllFailed
<1> QED BY <1>1, <1>2 DEF EndsIn

\* A failure makes it longer by one.
LEMMA LongerEnd ==
  ASSUME TypeOK, WalkInv, Walking, at <= Len(plan),
         fate' = [fate EXCEPT ![Here] = "failed"], plan' = plan, NEW n \in Nat, EndsIn(n)
  PROVE  EndsIn(n + 1)'
<1>1. /\ Places' = Places /\ \A first \in Places : first \in Nat \ {0}
      /\ at \in Places /\ at \in Nat
  BY PlacesAre DEF Places
<1>2. ASSUME NEW first \in Places
      PROVE  /\ AllFailed(first)' <=> AllFailed(first)
             /\ first > at => TriedFrom(first)' = {} /\ TriedFrom(first) = {}
             /\ first <= at => /\ TriedFrom(first)' = TriedFrom(first) \cup {at}
                              /\ at \notin TriedFrom(first)
  BY <1>1, SettleTried DEF AllFailed, Fate, Counted
<1>3. ASSUME NEW first \in Places, first <= at
      PROVE  Cardinality(TriedFrom(first)') = Cardinality(TriedFrom(first)) + 1
  <2>1. IsFiniteSet(TriedFrom(first))
    BY <1>1, TriedTypes
  <2> QED BY <1>2, <1>3, <2>1, FS_AddElement
<1>4. \A first \in Places : Cardinality(TriedFrom(first)) \in Nat
  BY <1>1, TriedTypes
<1>5. ASSUME NEW first \in Places, AllFailed(first)'
      PROVE  Cardinality(TriedFrom(first)') <= n + 1
  <2>1. CASE first <= at
    <3>1. Cardinality(TriedFrom(first)) <= n
      BY <1>2, <1>5 DEF EndsIn
    <3> QED BY <1>3, <1>4, <2>1, <3>1
  <2>2. CASE first > at
    <3>1. Cardinality(TriedFrom(first)') = 0
      BY <1>2, <2>2, FS_EmptySet
    <3> QED BY <3>1
  <2> QED BY <1>1, <2>1, <2>2
<1>6. \E first \in Places : AllFailed(first)' /\ Cardinality(TriedFrom(first)') = n + 1
  <2>1. PICK first \in Places : AllFailed(first) /\ Cardinality(TriedFrom(first)) = n
    BY DEF EndsIn
  <2>2. CASE first <= at
    BY <1>2, <1>3, <2>1, <2>2
  <2>3. CASE first > at
    <3>1. n = 0
      BY <1>2, <2>1, <2>3, FS_EmptySet
    <3>2. AllFailed(at) /\ Cardinality(TriedFrom(at)) = 0
      <4>1. TriedFrom(at) = {}
        <5>1. TriedFrom(first) = {} /\ at \notin TriedFrom(at)
          BY <1>1, <1>2, <2>3
        <5>2. \A k \in TriedFrom(at) : k > at
          BY <1>1, <5>1, TriedTypes DEF TriedFrom
        <5>3. \A k \in TriedFrom(at) : k \in DOMAIN plan /\ fate[plan[k]] # "pending"
          BY <1>1, TriedTypes DEF TriedFrom, Counted
        <5> QED BY <1>1, <5>2, <5>3 DEF WalkInv, AheadIsPending, Walking
      <4> QED BY <4>1, FS_EmptySet DEF AllFailed
    <3> QED BY <1>1, <1>2, <1>3, <3>1, <3>2
  <2> QED BY <1>1, <2>2, <2>3
<1> QED BY <1>1, <1>5, <1>6 DEF EndsIn

\* A success ends it.
LEMMA NoEnd ==
  ASSUME TypeOK, WalkInv, Walking, at <= Len(plan), NEW d \in Counted \ {"skipped", "failed"},
         fate' = [fate EXCEPT ![Here] = d], plan' = plan
  PROVE  EndsIn(0)'
<1>1. Places' = Places
  BY DEF Places
<1>2. ASSUME NEW first \in Places
      PROVE  /\ first > at => TriedFrom(first)' = {}
             /\ first <= at => ~AllFailed(first)'
  <2>1. first \in Nat \ {0} /\ d \in Fate
    BY PlacesAre DEF Fate
  <2>2. /\ first > at => TriedFrom(first) = {}
        /\ TriedFrom(first)' = IF first <= at THEN TriedFrom(first) \cup {at} ELSE TriedFrom(first)
        /\ fate'[plan[at]] = d
    BY <2>1, SettleTried
  <2>3. first > at => TriedFrom(first)' = {}
    BY <2>1, <2>2, PlacesAre
  <2>4. first <= at => at \in TriedFrom(first)' /\ fate'[plan'[at]] # "failed"
    BY <2>2
  <2> QED BY <2>3, <2>4 DEF AllFailed
<1>3. ASSUME NEW first \in Places, AllFailed(first)'
      PROVE  Cardinality(TriedFrom(first)') <= 0
  <2>1. first > at
    BY <1>2, <1>3, PlacesAre
  <2>2. Cardinality(TriedFrom(first)') = 0
    BY <1>2, <2>1, FS_EmptySet
  <2> QED BY <2>2
<1>4. PICK after \in Places : after = at + 1
  BY PlacesAre
<1>5. TriedFrom(after)' = {}
  BY <1>2, <1>4, PlacesAre
<1>6. AllFailed(after)' /\ Cardinality(TriedFrom(after)') = 0
  BY <1>5, FS_EmptySet DEF AllFailed
<1> QED BY <1>1, <1>3, <1>6 DEF EndsIn

\* A step that neither settles an Item nor touches the breaker's number.
LEMMA KeepBreak ==
  ASSUME TypeOK, BreakInv, Walking, UNCHANGED <<plan, fate>>,
         sum'.circuitBroke = sum.circuitBroke,
         \/ Walking' /\ pc' # "done" /\ failureStreak' = failureStreak
         \/ ~Walking'
  PROVE  BreakInv'
<1>1. /\ ~sum.circuitBroke /\ failureStreak < Breaker /\ EndsIn(failureStreak)
      /\ failureStreak \in Nat /\ Breaker \in Nat
  BY TriedTypes, PassAssumption DEF BreakInv
<1>2. BreakerExact
  BY <1>1, ExactBreak
<1>3. BreakerExact'
  BY <1>2 DEF BreakerExact, AllFailed, TriedFrom, Walking
<1>4. ASSUME failureStreak' = failureStreak  PROVE EndsIn(failureStreak)'
  BY <1>1, <1>4 DEF EndsIn, AllFailed, TriedFrom, Places
<1> QED BY <1>1, <1>3, <1>4 DEF BreakInv

\* A step that settles the Item at the loop index as no attempt that counts.
LEMMA PassBreak ==
  ASSUME TypeOK, TypeOK', WalkInv, BreakInv, Walking, at <= Len(plan), NEW d \in Fate,
         d \notin Counted \ {"skipped"}, fate' = [fate EXCEPT ![Here] = d], plan' = plan,
         sum'.circuitBroke = sum.circuitBroke, failureStreak' = failureStreak,
         pc' \in {"top", "done"}
  PROVE  BreakInv'
<1>1. PICK n \in Nat : n = failureStreak
  BY TriedTypes
<1>2. ~sum'.circuitBroke /\ failureStreak' = n /\ n < Breaker /\ EndsIn(n) /\ Breaker \in Nat
  BY <1>1, PassAssumption DEF BreakInv
<1>3. EndsIn(n)'
  BY <1>2, SameEnd
<1>4. BreakerExact'
  <2>1. n <= Breaker /\ (sum'.circuitBroke <=> n = Breaker)
    BY <1>2
  <2> QED BY <1>3, <2>1, EndIsExactNext DEF ExactEnd
<1>5. EndsIn(failureStreak)'
  BY <1>2, <1>3 DEF EndsIn, AllFailed
<1> QED BY <1>2, <1>4, <1>5 DEF BreakInv

LEMMA LandBreak == TypeOK /\ TypeOK' /\ WalkInv /\ BreakInv /\ Land => BreakInv'
<1> SUFFICES ASSUME TypeOK, TypeOK', WalkInv, BreakInv, Land PROVE BreakInv'
  OBVIOUS
<1> DEFINE broke == Landed = "failed" /\ Streak(Landed) >= Breaker
<1>1. /\ Landed \in Counted /\ Walking /\ at <= Len(plan)
  BY LandedCounted DEF Land, Terminal, TypeOK, Walking
<1>2. /\ sum' = [Tally(sum, Here, Landed) EXCEPT !.circuitBroke = broke]
      /\ pc' = IF broke THEN "done" ELSE "top"
      /\ failureStreak' = Streak(Landed)
      /\ fate' = [fate EXCEPT ![Here] = Landed] /\ plan' = plan
  BY DEF Land
<1>3. sum'.circuitBroke <=> broke
  <2>1. Tally(sum, Here, Landed) \in Summary
    BY <1>1, TallyType, HereIsItem DEF TypeOK
  <2> QED BY <1>2, <2>1 DEF Summary
<1>4. PICK n \in Nat : n = failureStreak
  BY TriedTypes
<1>5. n < Breaker /\ EndsIn(n) /\ Breaker \in Nat /\ Breaker # 0
  BY <1>1, <1>4, PassAssumption DEF BreakInv
<1>6. PICK m \in Nat : m = Streak(Landed)
  BY <1>4 DEF Streak
<1>7. EndsIn(m)' /\ m <= Breaker /\ (broke <=> m = Breaker)
  <2>1. CASE Landed = "failed"
    <3>1. m = n + 1
      BY <1>4, <1>6, <2>1 DEF Streak
    <3>2. EndsIn(n + 1)'
      BY <1>1, <1>2, <1>5, <2>1, LongerEnd
    <3> QED BY <1>5, <1>6, <2>1, <3>1, <3>2
  <2>2. CASE Landed = "skipped"
    <3>1. m = n
      BY <1>4, <1>6, <2>2 DEF Streak
    <3>2. EndsIn(n)'
      BY <1>1, <1>2, <1>5, <2>2, SameEnd DEF Fate
    <3> QED BY <1>5, <2>2, <3>1, <3>2
  <2>3. CASE Landed \notin {"failed", "skipped"}
    <3>1. m = 0
      BY <1>6, <2>3 DEF Streak
    <3>2. EndsIn(0)'
      BY <1>1, <1>2, <2>3, NoEnd
    <3> QED BY <1>5, <2>3, <3>1, <3>2
  <2> QED BY <2>1, <2>2, <2>3
<1> HIDE DEF broke
<1>8. BreakerExact'
  BY <1>3, <1>7, EndIsExactNext DEF ExactEnd
<1>9. EndsIn(failureStreak)'
  BY <1>2, <1>6, <1>7 DEF EndsIn, AllFailed
<1>10. Walking' => ~broke /\ failureStreak' < Breaker
  BY <1>2, <1>5, <1>6, <1>7 DEF Walking
<1> QED BY <1>3, <1>8, <1>9, <1>10 DEF BreakInv

LEMMA NextBreak == TypeOK /\ TypeOK' /\ WalkInv /\ BreakInv /\ [Next]_vars => BreakInv'
<1> SUFFICES ASSUME TypeOK, TypeOK', WalkInv, BreakInv, [Next]_vars PROVE BreakInv'
  OBVIOUS
<1> USE DEF planVars
<1>1. CASE LogUnavailable
  <2>1. /\ pc = "open" /\ pc' = "done" /\ plan' = plan /\ fate' = fate /\ ~sum'.circuitBroke
    BY <1>1 DEF LogUnavailable, EmptySummary
  <2>2. EndsIn(0)'
    <3>1. EndsIn(0)
      BY <2>1, NothingTried
    <3> QED BY <2>1, <3>1 DEF EndsIn, AllFailed, TriedFrom, Places
  <2>3. BreakerExact'
    <3>1. 0 \in Nat /\ 0 <= Breaker /\ 0 # Breaker
      BY PassAssumption
    <3> QED BY <2>1, <2>2, <3>1, EndIsExactNext DEF ExactEnd
  <2> QED BY <2>1, <2>3 DEF BreakInv, Walking
<1>2. CASE Open
  <2>1. /\ pc = "open" /\ pc' = "top" /\ plan' = plan /\ fate' = fate /\ failureStreak' = 0
        /\ ~sum'.circuitBroke
    BY <1>2 DEF Open, OpeningSum, EmptySummary
  <2>2. EndsIn(0)
    BY <2>1, NothingTried
  <2>3. EndsIn(failureStreak)'
    BY <2>1, <2>2 DEF EndsIn, AllFailed, TriedFrom, Places
  <2> QED BY <2>1, <2>3, PassAssumption DEF BreakInv
<1>3. CASE Finish
  BY <1>3, KeepBreak DEF Finish, Walking
<1>4. CASE StopCancelled
  <2>1. sum'.circuitBroke = sum.circuitBroke
    BY <1>4 DEF StopCancelled, TypeOK, Summary
  <2> QED BY <1>4, <2>1, KeepBreak DEF StopCancelled, Walking
<1>5. CASE SkipItem
  <2>1. sum'.circuitBroke = sum.circuitBroke
    BY <1>5 DEF SkipItem, TypeOK, Summary
  <2>2. CASE fate' = [fate EXCEPT ![Here] = "skipped"] /\ pc' = pc
    BY <1>5, <2>1, <2>2, PassBreak DEF SkipItem, Fate, Counted, Walking
  <2>3. CASE fate' = fate /\ pc' = "done"
    BY <1>5, <2>1, <2>3, KeepBreak DEF SkipItem, Walking
  <2> QED BY <1>5, <2>2, <2>3 DEF SkipItem
<1>6. CASE Attempt
  BY <1>6, KeepBreak DEF Attempt, Walking
<1>7. CASE Request
  BY <1>7, KeepBreak DEF Request, Walking
<1>8. CASE AttemptCancelled
  <2>1. sum'.circuitBroke = sum.circuitBroke /\ at <= Len(plan)
    BY <1>8 DEF AttemptCancelled, TypeOK, Summary
  <2> QED BY <1>8, <2>1, PassBreak DEF AttemptCancelled, Fate, Counted, Walking
<1>9. CASE LostCancelled
  <2>1. sum'.circuitBroke = sum.circuitBroke /\ at <= Len(plan)
    BY <1>9 DEF LostCancelled, TypeOK, Summary
  <2> QED BY <1>9, <2>1, PassBreak DEF LostCancelled, Fate, Counted, Walking
<1>10. CASE Backoff
  BY <1>10, KeepBreak DEF Backoff, Walking
<1>11. CASE Land
  BY <1>11, LandBreak
<1>12. CASE LandUnlogged
  <2>1. sum'.circuitBroke = sum.circuitBroke /\ at <= Len(plan) /\ Walking
    BY <1>12 DEF LandUnlogged, Terminal, TypeOK, Summary, Walking
  <2> QED BY <1>12, <2>1, PassBreak DEF LandUnlogged, Fate, Counted
<1>13. CASE Retry
  BY <1>13 DEF Retry, BreakInv, Walking
<1>14. CASE Cancel \/ Answer \/ UNCHANGED vars
  <2>1. UNCHANGED <<walkVars>>
    BY <1>14 DEF Cancel, Answer, vars
  <2> QED BY <2>1 DEF walkVars, BreakInv, Walking, EndsIn, BreakerExact, AllFailed, TriedFrom, Places
<1> QED BY <1>1, <1>2, <1>3, <1>4, <1>5, <1>6, <1>7, <1>8, <1>9, <1>10, <1>11, <1>12,
           <1>13, <1>14 DEF Next, Walk

\* The breaker is exact: a pass is circuit-broken if and only if its last
\* Breaker attempts all failed, skips not counting either way (purge R21), for
\* every threshold and every length of the walk.
THEOREM BreakerIsExact == Spec => []BreakerExact
<1>1. Init => BreakInv
  BY DEF Init, BreakInv, Walking
<1>2. TypeOK /\ BreakInv => BreakerExact
  <2> SUFFICES ASSUME TypeOK, BreakInv, Walking PROVE BreakerExact
    BY DEF TypeOK, BreakInv, BreakerExact, Walking
  <2>1. /\ ~sum.circuitBroke /\ failureStreak < Breaker /\ EndsIn(failureStreak)
        /\ failureStreak \in Nat /\ Breaker \in Nat
    BY TriedTypes, PassAssumption DEF BreakInv
  <2> QED BY <2>1, ExactBreak
<1>3. (TypeOK /\ WalkInv /\ BreakInv) /\ [Next]_vars => (TypeOK /\ WalkInv /\ BreakInv)'
  BY NextType, NextWalk, NextBreak
<1> QED BY <1>1, <1>2, <1>3, InitType, InitWalk, PTL DEF Spec

\* The log, the frames and the breaker give one account of the walk.
THEOREM WalkIsAccounted == Spec => []WalkAccounts
<1>1. LogTellsFate /\ FramesAddUp /\ BreakerExact => WalkAccounts
  BY DEF WalkAccounts
<1> QED BY <1>1, LogAlwaysTellsFate, FramesAlwaysAddUp, BreakerIsExact, PTL

=============================================================================
