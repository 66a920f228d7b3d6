----------------------------- MODULE LaunchProofs -----------------------------
(***************************************************************************)
(* Proofs about the two ways a write begins.  The launch protocol of the   *)
(* interface, for any number of operations, keys and frames: admission,    *)
(* with launch results in any order, and what the strip shows, where they  *)
(* come in the order they were made.  Then the write commands of the       *)
(* command line and the deletion log they share, for any Runs, command     *)
(* lines, generations and sizes: the two systems share no variable.        *)
(***************************************************************************)
EXTENDS Launch, Command, FiniteSetTheorems, TLAPS

Stage == {"unborn", "born", "walking", "ended", "freed", "told", "closed"}

\* What the two gates and the retry cells keep between them.  The launch gate is
\* held by a walk that has not ended or by a retry between its two tests, and by
\* one of them; the log's gate by a walk that is walking; a walk not yet born has
\* no parent, and a Summary whose cell is unspent no re-attempt.
Gated ==
  /\ stage \in [WalkId -> Stage]
  /\ parent \in [WalkId -> 0..MaxWalks]
  /\ spent \in [WalkId -> BOOLEAN]
  /\ retryHeld \in 0..MaxWalks
  /\ launching \in BOOLEAN /\ deleting \in BOOLEAN
  /\ \A v, w \in Holding : v = w
  /\ Holding # {} => retryHeld = None
  /\ retryHeld # None => Unborn # {}
  /\ launching <=> Holding # {} \/ retryHeld # None
  /\ deleting => \E w \in WalkId : stage[w] = "walking"
  /\ refused = {}
  /\ \A w \in WalkId : stage[w] = "unborn" => parent[w] = None
  /\ \A v, w \in WalkId : parent[v] = w => spent[w]
  /\ \A u, v \in WalkId : parent[u] = parent[v] /\ parent[u] # None => u = v

\* The walk a launch begins is the first of those not yet born.
LEMMA NextIdUnborn ==
  ASSUME Unborn # {}
  PROVE  /\ NextId \in WalkId /\ stage[NextId] = "unborn"
         /\ \A w \in WalkId : stage[w] = "unborn" => NextId <= w
<1>1. Unborn \subseteq Nat  BY LaunchAssumption DEF Unborn, WalkId
<1>. DEFINE Below == {ss \in Nat \X Nat : ss[1] < ss[2]}
<1>2. IsWellFoundedOn(Below, Nat)
  BY NatLessThanWellFounded, Zenon DEF OpToRel
<1>. HIDE DEF Below
<1>3. \E w \in Unborn : \A v \in Unborn : <<v, w>> \notin Below
  BY <1>1, <1>2, WFMin
<1>4. \E w \in Unborn : \A v \in Unborn : w <= v
  <2>1. PICK w \in Unborn : \A v \in Unborn : <<v, w>> \notin Below  BY <1>3
  <2>2. \A v \in Nat : v < w => <<v, w>> \in Below  BY <1>1 DEF Below
  <2>. HIDE DEF Below
  <2>3. ASSUME NEW v \in Unborn  PROVE w <= v
    <3>1. v \in Nat /\ w \in Nat  BY <1>1
    <3>2. ~(v < w)  BY <2>1, <2>2, <3>1, Zenon
    <3>. QED BY <3>1, <3>2
  <2>. QED BY <2>3
<1>5. NextId \in Unborn /\ \A v \in Unborn : NextId <= v  BY <1>4 DEF NextId
<1>. QED BY <1>5 DEF Unborn

\* At the start nothing is held.
LEMMA InitGated == Init => Gated
<1>. SUFFICES ASSUME Init  PROVE Gated  OBVIOUS
<1>1. Holding = {}  BY DEF Init, Holding
<1>2. None \in 0..MaxWalks /\ None \notin WalkId  BY LaunchAssumption DEF None, WalkId
<1>. QED BY <1>1, <1>2 DEF Init, Gated, Stage

\* A walk is born holding the gate, which nobody else does.
LEMMA SpawnGated ==
  ASSUME Gated, NEW p \in 0..MaxWalks, Spawn(p), Unborn # {},
         Holding = {}, launching', retryHeld' = None,
         UNCHANGED <<deleting, refused>>,
         \/ p = None /\ UNCHANGED spent
         \/ p # None /\ ~spent[p] /\ spent' = [spent EXCEPT ![p] = TRUE]
  PROVE  Gated'
<1>. DEFINE n == NextId
<1>1. n \in WalkId /\ stage[n] = "unborn"  BY NextIdUnborn
<1>2. stage' = [stage EXCEPT ![n] = "born"] /\ parent' = [parent EXCEPT ![n] = p]
  BY DEF Spawn
<1>. HIDE DEF n
<1>3. \A w \in WalkId : stage'[w] = IF w = n THEN "born" ELSE stage[w]
  BY <1>1, <1>2 DEF Gated
<1>4. \A w \in WalkId : parent'[w] = IF w = n THEN p ELSE parent[w]
  BY <1>1, <1>2 DEF Gated
<1>5. stage' \in [WalkId -> Stage] /\ parent' \in [WalkId -> 0..MaxWalks]
  BY <1>1, <1>2 DEF Gated, Stage
<1>6. Holding' = {n}
  BY <1>1, <1>3 DEF Holding
<1>7. p # None => p \in WalkId  BY LaunchAssumption DEF None, WalkId
<1>8. /\ spent' \in [WalkId -> BOOLEAN]
      /\ \A w \in WalkId : spent[w] => spent'[w]
      /\ p # None => spent'[p]
  BY <1>7 DEF Gated
<1>9. deleting' => \E w \in WalkId : stage'[w] = "walking"
  BY <1>1, <1>3 DEF Gated
<1>10. \A w \in WalkId : stage'[w] = "unborn" => parent'[w] = None
  BY <1>3, <1>4 DEF Gated
<1>11. \A v, w \in WalkId : parent'[v] = w => spent'[w]
  BY <1>4, <1>8 DEF Gated, None, WalkId
<1>12. \A u \in WalkId : p # None => parent[u] # p
  BY <1>7 DEF Gated
<1>13. \A u, v \in WalkId : parent'[u] = parent'[v] /\ parent'[u] # None => u = v
  BY <1>4, <1>12 DEF Gated
<1>14. retryHeld' \in 0..MaxWalks  BY LaunchAssumption DEF None
<1>. QED BY <1>5, <1>6, <1>8, <1>9, <1>10, <1>11, <1>13, <1>14 DEF Gated

\* A launch command finds the gate held or takes it.
LEMMA LaunchGated ==
  ASSUME Gated, ExecLaunch
  PROVE  Gated'
<1>1. CASE launching
  BY <1>1 DEF Gated, ExecLaunch, Holding, Unborn
<1>2. CASE ~launching
  <2>1. /\ Unborn # {} /\ launching' /\ Spawn(None)
        /\ UNCHANGED <<deleting, refused, spent, retryHeld>>
    BY <1>2 DEF ExecLaunch
  <2>2. Holding = {} /\ retryHeld = None  BY <1>2 DEF Gated
  <2>3. None \in 0..MaxWalks  BY LaunchAssumption DEF None
  <2>. QED BY <2>1, <2>2, <2>3, SpawnGated
<1>. QED BY <1>1, <1>2

\* A retry's first test takes the gate before any walk is born.
LEMMA RetryGateGated ==
  ASSUME Gated, NEW w \in WalkId, RetryGate(w)
  PROVE  Gated'
<1>. USE DEF walks
<1>1. w \in 0..MaxWalks /\ w # None  BY LaunchAssumption DEF WalkId, None
<1>2. Holding' = Holding /\ Unborn' = Unborn  BY DEF RetryGate, Holding, Unborn
<1>3. UNCHANGED <<deleting, stage, parent, spent, refused>>  BY DEF RetryGate
<1>4. CASE UNCHANGED <<launching, retryHeld>>
  BY <1>2, <1>3, <1>4 DEF Gated
<1>5. CASE ~launching /\ Unborn # {} /\ launching' = TRUE /\ retryHeld' = w
  <2>1. Holding = {} /\ retryHeld = None  BY <1>5 DEF Gated
  <2>. QED BY <1>1, <1>2, <1>3, <1>5, <2>1 DEF Gated
<1>. QED BY <1>4, <1>5 DEF RetryGate

\* Its second finds the cell spent and lets the gate go, or spends it.
LEMMA RetryCellGated ==
  ASSUME Gated, RetryCell
  PROVE  Gated'
<1>1. /\ Holding = {} /\ launching /\ retryHeld \in 0..MaxWalks
      /\ retryHeld # None /\ Unborn # {}
  BY DEF Gated, RetryCell
<1>2. CASE spent[retryHeld]
  <2>1. /\ launching' = FALSE /\ retryHeld' = None
        /\ UNCHANGED <<stage, parent, spent, deleting, refused>>
    BY <1>2 DEF RetryCell
  <2>2. Holding' = Holding /\ Unborn' = Unborn  BY <2>1 DEF Holding, Unborn
  <2>3. None \in 0..MaxWalks  BY LaunchAssumption DEF None
  <2>. QED BY <1>1, <2>1, <2>2, <2>3 DEF Gated
<1>3. CASE ~spent[retryHeld]
  BY <1>1, <1>3, SpawnGated DEF RetryCell
<1>. QED BY <1>2, <1>3

-----------------------------------------------------------------------------
(* The streaming goroutine. *)

\* A step that leaves a walk's place where it is, or moves one that holds no gate
\* to another place that holds none.
LEMMA RestGated ==
  ASSUME Gated,
         UNCHANGED <<launching, deleting, parent, spent, refused, retryHeld>>,
         \/ UNCHANGED stage
         \/ \E w \in WalkId : /\ stage[w] \in {"freed", "told"}
                             /\ \E p \in {"told", "closed"} : stage' = [stage EXCEPT ![w] = p]
  PROVE  Gated'
<1>1. CASE UNCHANGED stage
  BY <1>1 DEF Gated, Holding, Unborn
<1>2. CASE \E w \in WalkId : /\ stage[w] \in {"freed", "told"}
                            /\ \E p \in {"told", "closed"} : stage' = [stage EXCEPT ![w] = p]
  <2>. PICK w \in WalkId, p \in {"told", "closed"} :
         stage[w] \in {"freed", "told"} /\ stage' = [stage EXCEPT ![w] = p]
    BY <1>2
  <2>1. \A v \in WalkId : stage'[v] = IF v = w THEN p ELSE stage[v]  BY DEF Gated
  <2>2. stage' \in [WalkId -> Stage]  BY DEF Gated, Stage
  <2>3. Holding' = Holding /\ Unborn' = Unborn  BY <2>1 DEF Holding, Unborn
  <2>4. \A v \in WalkId : /\ stage'[v] = "unborn" <=> stage[v] = "unborn"
                          /\ stage'[v] = "walking" <=> stage[v] = "walking"
    BY <2>1
  <2>. QED BY <2>2, <2>3, <2>4 DEF Gated
<1>. QED BY <1>1, <1>2

\* The walk that is born finds the log free: the one before it has let it go.
LEMMA TakeLogGated ==
  ASSUME Gated, NEW w \in WalkId, TakeLog(w)
  PROVE  Gated'
<1>1. w \in Holding  BY DEF TakeLog, Holding
<1>2. ~deleting
  <2>. SUFFICES ASSUME deleting  PROVE FALSE  OBVIOUS
  <2>. PICK v \in WalkId : stage[v] = "walking"  BY DEF Gated
  <2>1. v \in Holding  BY DEF Holding
  <2>2. v = w  BY <1>1, <2>1 DEF Gated
  <2>. QED BY <2>2 DEF TakeLog
<1>. PICK p \in {"walking", "ended"} :
       /\ stage' = [stage EXCEPT ![w] = p] /\ refused' = refused
       /\ deleting' = IF p = "walking" THEN TRUE ELSE deleting
  BY <1>2 DEF TakeLog, Gated
<1>3. \A v \in WalkId : stage'[v] = IF v = w THEN p ELSE stage[v]  BY DEF Gated
<1>4. stage' \in [WalkId -> Stage] /\ deleting' \in BOOLEAN  BY DEF Gated, Stage
<1>5. Holding' = Holding /\ Unborn' = Unborn
  BY <1>3 DEF Holding, Unborn, TakeLog
<1>6. UNCHANGED <<launching, parent, spent, retryHeld>>
  BY DEF TakeLog, StreamRest, cmds
<1>7. deleting' => \E v \in WalkId : stage'[v] = "walking"  BY <1>2, <1>3
<1>8. \A v \in WalkId : stage'[v] = "unborn" => stage[v] = "unborn"  BY <1>3
<1>. QED BY <1>4, <1>5, <1>6, <1>7, <1>8 DEF Gated

\* The walk returns and the log is free.
LEMMA EndWalkGated ==
  ASSUME Gated, NEW w \in WalkId, EndWalk(w)
  PROVE  Gated'
<1>1. \A v \in WalkId : stage'[v] = IF v = w THEN "ended" ELSE stage[v]
  BY DEF EndWalk, Gated
<1>2. stage' \in [WalkId -> Stage]  BY DEF EndWalk, Gated, Stage
<1>3. Holding' = Holding /\ Unborn' = Unborn  BY <1>1 DEF EndWalk, Holding, Unborn
<1>4. UNCHANGED <<launching, parent, spent, retryHeld, refused>> /\ deleting' = FALSE
  BY DEF EndWalk, StreamRest, cmds
<1>5. \A v \in WalkId : stage'[v] = "unborn" => stage[v] = "unborn"  BY <1>1
<1>. QED BY <1>2, <1>3, <1>4, <1>5 DEF Gated

\* The walk that held the gate lets it go.
LEMMA ReleaseGated ==
  ASSUME Gated, NEW w \in WalkId, Release(w)
  PROVE  Gated'
<1>1. \A v \in WalkId : stage'[v] = IF v = w THEN "freed" ELSE stage[v]
  BY DEF Release, Gated
<1>2. stage' \in [WalkId -> Stage]  BY DEF Release, Gated, Stage
<1>3. w \in Holding  BY DEF Release, Holding
<1>4. Holding' = {}  BY <1>1, <1>3 DEF Gated, Holding
<1>5. Unborn' = Unborn  BY <1>1 DEF Release, Unborn
<1>6. UNCHANGED <<deleting, parent, spent, retryHeld, refused>> /\ launching' = FALSE
  BY DEF Release, StreamRest, cmds
<1>7. retryHeld = None  BY <1>3 DEF Gated
<1>8. /\ \A v \in WalkId : stage'[v] = "unborn" => stage[v] = "unborn"
      /\ \A v \in WalkId : stage[v] = "walking" => stage'[v] = "walking"
  BY <1>1 DEF Release
<1>. QED BY <1>2, <1>4, <1>5, <1>6, <1>7, <1>8 DEF Gated

\* Each of the goroutine's steps.
LEMMA StreamGated ==
  ASSUME Gated, NEW w \in WalkId, Stream(w)
  PROVE  Gated'
<1>. USE DEF StreamRest, cmds, gates
<1>1. CASE TakeLog(w)  BY <1>1, TakeLogGated
<1>2. CASE Publish(w)  BY <1>2, RestGated DEF Publish
<1>3. CASE EndWalk(w)  BY <1>3, EndWalkGated
<1>4. CASE Release(w)  BY <1>4, ReleaseGated
<1>5. CASE Tell(w)
  <2>1. stage[w] = "freed" /\ stage' = [stage EXCEPT ![w] = "told"]
        /\ UNCHANGED <<launching, deleting, parent, spent, refused, retryHeld>>
    BY <1>5 DEF Tell
  <2>. QED BY <2>1, RestGated
<1>6. CASE Close(w)
  <2>1. stage[w] = "told" /\ stage' = [stage EXCEPT ![w] = "closed"]
        /\ UNCHANGED <<launching, deleting, parent, spent, refused, retryHeld>>
    BY <1>6 DEF Close, DeferredRelease
  <2>. QED BY <2>1, RestGated
<1>. QED BY <1>1, <1>2, <1>3, <1>4, <1>5, <1>6 DEF Stream

-----------------------------------------------------------------------------
\* Every step keeps it.
LEMMA NextGated == Gated /\ [Next]_vars => Gated'
<1>. SUFFICES ASSUME Gated, [Next]_vars  PROVE Gated'  OBVIOUS
<1>1. CASE ExecLaunch
  BY <1>1, LaunchGated
<1>2. CASE RetryCell
  BY <1>2, RetryCellGated
<1>3. CASE \E w \in WalkId : Stream(w)
  BY <1>3, StreamGated
<1>4. CASE \E w \in WalkId : RetryGate(w)
  BY <1>4, RetryGateGated
<1>5. CASE \/ \E w \in WalkId : ExecCancel(w) \/ Listen(w)
           \/ \E k \in DOMAIN results : DeliverResult(k)
           \/ \E f \in frames : DeliverFrame(f)
           \/ Operator \/ UNCHANGED vars
  <2>1. UNCHANGED <<launching, deleting, stage, parent, spent, refused, retryHeld>>
    BY <1>5 DEF ExecCancel, Listen, DeliverResult, DeliverFrame, Operator,
       PressLaunch, PressRetry, PressCancel, vars, gates, walks, cmds
  <2>. QED BY <2>1, RestGated
<1>. QED BY <1>1, <1>2, <1>3, <1>4, <1>5 DEF Next, System

\* progress.go, ops.go: one operation is admitted at a time, whichever of Start and
\* Retry asks for it; it finds the deletion log free; and one recorded pass
\* authorises one re-attempt.
THEOREM AdmissionIsExclusive == Spec => []AdmittedOnce
<1>1. Gated => AdmittedOnce
  <2>. SUFFICES ASSUME Gated  PROVE AdmittedOnce  OBVIOUS
  <2>1. Holding = {} \/ \E w : Holding = {w}  BY DEF Gated
  <2>2. Cardinality(Holding) \in {0, 1} /\ (Holding # {} => retryHeld = None)
        /\ (Holding = {} => Cardinality(Holding) = 0)
    BY <2>1, FS_EmptySet, FS_Singleton DEF Gated
  <2>3. Cardinality(Holding) + (IF retryHeld = None THEN 0 ELSE 1) <= 1
    BY <2>2
  <2>4. ASSUME NEW w \in WalkId
        PROVE  Cardinality({v \in WalkId : parent[v] = w}) <= 1
    <3>. DEFINE again == {v \in WalkId : parent[v] = w}
    <3>1. w # None  BY LaunchAssumption DEF WalkId, None
    <3>2. \A u, v \in again : u = v  BY <3>1 DEF Gated
    <3>. HIDE DEF again
    <3>3. again = {} \/ \E v : again = {v}  BY <3>2
    <3>4. Cardinality(again) \in {0, 1}  BY <3>3, FS_EmptySet, FS_Singleton
    <3>. QED BY <3>4 DEF again
  <2>. QED BY <2>3, <2>4 DEF AdmittedOnce, Gated
<1>. QED BY <1>1, InitGated, NextGated, PTL DEF Spec

-----------------------------------------------------------------------------
(* The strip. *)

Result == {LaunchFailed} \cup {Started(w) : w \in WalkId}
Waiting == {w \in WalkId : \E k \in DOMAIN results : results[k] = Started(w)}
Adapted == {w \in WalkId : stage[w] # "unborn" /\ w \notin Waiting}

\* The results on their way are of walks in the order they were born, after those
\* the root was told of in their turn; and a walk at the gate is the last one born.
Ordered ==
  /\ results \in Seq(Result)
  /\ \A w \in Waiting : stage[w] # "unborn"
  /\ \A j, k \in DOMAIN results : \A v, w \in WalkId :
       j < k /\ results[j] = Started(v) /\ results[k] = Started(w) => v < w
  /\ \A v \in Adapted \ overtook, w \in Waiting : v < w
  /\ \A v, w \in WalkId : v < w /\ stage[v] = "unborn" => stage[w] = "unborn"
  /\ \A v \in Holding, w \in WalkId : v < w => stage[w] = "unborn"

\* A terminal frame is of a walk that has let the gate go.
Over == {w \in WalkId : stage[w] \in {"told", "closed"}}
Framed ==
  /\ chan = [w \in WalkId |-> chan[w]]
  /\ \A w \in WalkId : chan[w] # NoFrame =>
       chan[w].walk = w /\ (chan[w].done => w \in Over)
  /\ \A f \in frames : f.walk \in WalkId /\ (f.done => f.walk \in Over)

\* The strip runs while a stream is adapted, and shows that one.
OnStrip ==
  /\ progress # None <=> phase = "running"
  /\ phase = "running" => shown = progress
  /\ StripShowsItsOwn
  /\ \A w \in Adapted \ overtook :
       stage[w] \in {"born", "walking"} => phase = "running" /\ shown = w
  /\ cancels \subseteq pressed /\ cancelled \subseteq pressed

StripInv == Ordered /\ Framed /\ OnStrip

\* A result is of one walk or of none.
LEMMA ResultsDiffer ==
  \A v, w : Started(v) # LaunchFailed /\ (Started(v) = Started(w) => v = w)
BY DEF Started, LaunchFailed

\* One more result, of no walk, leaves the others where they are.
LEMMA FailedKeeps ==
  ASSUME StripInv, results' = Append(results, LaunchFailed),
         UNCHANGED <<stage, chan, frames, progress, strip, cancels, pressed, overtook, cancelled>>
  PROVE  StripInv'
<1>. USE DEF StripInv
<1>1. results \in Seq(Result) /\ LaunchFailed \in Result  BY DEF Ordered, Result
<1>2. /\ results' \in Seq(Result)
      /\ Len(results') = Len(results) + 1 /\ DOMAIN results' = 1..(Len(results) + 1)
      /\ DOMAIN results = 1..Len(results) /\ Len(results) \in Nat
      /\ \A k \in DOMAIN results : results'[k] = results[k]
      /\ results'[Len(results) + 1] = LaunchFailed
  BY <1>1
<1>. HIDE DEF Result
<1>3. \A k \in DOMAIN results' : \A w \in WalkId :
        results'[k] = Started(w) => k \in DOMAIN results /\ results[k] = Started(w)
  BY <1>2, ResultsDiffer
<1>4. Waiting' = Waiting  BY <1>2, <1>3 DEF Waiting
<1>5. Adapted' = Adapted /\ Holding' = Holding /\ Over' = Over  BY <1>4 DEF Adapted, Holding, Over
<1>6. Ordered'
  <2>1. \A j, k \in DOMAIN results' : \A v, w \in WalkId :
          j < k /\ results'[j] = Started(v) /\ results'[k] = Started(w) => v < w
    BY <1>3 DEF Ordered
  <2>. QED BY <1>2, <1>4, <1>5, <2>1 DEF Ordered
<1>7. Framed'  BY <1>5 DEF Framed
<1>8. OnStrip'  BY <1>5 DEF OnStrip, strip, StripShowsItsOwn
<1>. QED BY <1>6, <1>7, <1>8

\* A walk that is born is the last, and so is its result.
LEMMA SpawnKeeps ==
  ASSUME Gated, StripInv, NEW p, Spawn(p), Unborn # {}, Holding = {},
         UNCHANGED <<chan, frames, progress, strip, cancels, pressed, overtook, cancelled>>
  PROVE  StripInv'
<1>. USE DEF StripInv
<1>. DEFINE n == NextId
<1>0. n \in WalkId /\ stage[n] = "unborn"  BY NextIdUnborn
<1>1. \A w \in WalkId : stage[w] = "unborn" => n <= w  BY NextIdUnborn
<1>2. stage' = [stage EXCEPT ![n] = "born"] /\ results' = Append(results, Started(n))
  BY DEF Spawn
<1>. HIDE DEF n
<1>3. \A w \in WalkId : stage'[w] = IF w = n THEN "born" ELSE stage[w]
  BY <1>0, <1>2 DEF Gated
<1>4. results \in Seq(Result) /\ Started(n) \in Result  BY <1>0 DEF Ordered, Result
<1>5. /\ results' \in Seq(Result)
      /\ Len(results') = Len(results) + 1 /\ DOMAIN results' = 1..(Len(results) + 1)
      /\ DOMAIN results = 1..Len(results) /\ Len(results) \in Nat
      /\ \A k \in DOMAIN results : results'[k] = results[k]
      /\ results'[Len(results) + 1] = Started(n)
  BY <1>2, <1>4
<1>6. \A w \in WalkId : w < n <=> stage[w] # "unborn"
  BY <1>0, <1>1 DEF Ordered, WalkId
<1>7. Waiting' = Waiting \cup {n}
  <2>1. ASSUME NEW w \in Waiting'  PROVE w \in Waiting \cup {n}
    <3>1. PICK k \in DOMAIN results' : results'[k] = Started(w)  BY DEF Waiting
    <3>2. CASE k \in DOMAIN results  BY <1>5, <3>1, <3>2 DEF Waiting
    <3>3. CASE k \notin DOMAIN results
      <4>1. k = Len(results) + 1  BY <1>5, <3>3
      <4>. QED BY <1>5, <3>1, <4>1, ResultsDiffer
    <3>. QED BY <3>2, <3>3
  <2>2. ASSUME NEW w \in Waiting  PROVE w \in Waiting'
    BY <1>5 DEF Waiting
  <2>3. n \in Waiting'  BY <1>0, <1>5 DEF Waiting
  <2>. QED BY <2>1, <2>2, <2>3
<1>8. n \notin Waiting  BY <1>0 DEF Ordered
<1>9. Adapted' = Adapted  BY <1>0, <1>3, <1>7, <1>8 DEF Adapted
<1>10. Holding' = {n}  BY <1>0, <1>3 DEF Holding
<1>11. Ordered'
  <2>0. Waiting \subseteq WalkId /\ \A w \in Waiting : stage[w] # "unborn"
    BY DEF Ordered, Waiting
  <2>1. \A w \in Waiting' : stage'[w] # "unborn"  BY <1>0, <1>3, <1>7, <2>0
  <2>2. ASSUME NEW j \in DOMAIN results', NEW k \in DOMAIN results', NEW v \in WalkId, NEW w \in WalkId,
               j < k, results'[j] = Started(v), results'[k] = Started(w)
        PROVE  v < w
    <3>1. j \in DOMAIN results /\ results[j] = Started(v)  BY <1>5, <2>2
    <3>2. CASE k \in DOMAIN results  BY <1>5, <2>2, <3>1, <3>2 DEF Ordered
    <3>3. CASE k \notin DOMAIN results
      <4>1. k = Len(results) + 1  BY <1>5, <3>3
      <4>2. w = n  BY <1>5, <2>2, <4>1, ResultsDiffer
      <4>3. v \in Waiting  BY <3>1 DEF Waiting
      <4>. QED BY <1>6, <4>2, <4>3 DEF Ordered
    <3>. QED BY <3>2, <3>3
  <2>3. \A v \in (Adapted \ overtook)', w \in Waiting' : v < w
    BY <1>6, <1>7, <1>9 DEF Ordered, Adapted
  <2>4. \A v, w \in WalkId : v < w /\ stage'[v] = "unborn" => stage'[w] = "unborn"
    BY <1>0, <1>3, <1>6 DEF Ordered, WalkId
  <2>5. \A v \in Holding', w \in WalkId : v < w => stage'[w] = "unborn"
    BY <1>0, <1>3, <1>6, <1>10 DEF WalkId
  <2>. QED BY <1>5, <2>1, <2>2, <2>3, <2>4, <2>5 DEF Ordered
<1>12. Over' = Over  BY <1>0, <1>3 DEF Over
<1>13. Framed'  BY <1>12 DEF Framed
<1>14. OnStrip'
  <2>1. \A w \in Adapted' : stage'[w] = stage[w]  BY <1>0, <1>3, <1>9 DEF Adapted
  <2>. QED BY <1>9, <2>1 DEF OnStrip, strip, StripShowsItsOwn
<1>. QED BY <1>11, <1>13, <1>14

\* A walk that goes on from where it is: the order stays, and the strip is of it
\* as long as it is before its end.
LEMMA StagesKeep ==
  ASSUME StripInv,
         \A w \in WalkId : stage'[w] = "unborn" <=> stage[w] = "unborn",
         \A w \in WalkId : stage'[w] \in {"born", "walking"} => stage[w] \in {"born", "walking"},
         Holding' \subseteq Holding, Over \subseteq Over',
         UNCHANGED <<results, frames, progress, strip, cancels, pressed, overtook, cancelled>>
  PROVE  Ordered' /\ OnStrip' /\ (UNCHANGED chan => Framed')
<1>. USE DEF StripInv
<1>1. Waiting' = Waiting /\ Waiting \subseteq WalkId  BY DEF Waiting
<1>2. Adapted' = Adapted  BY <1>1 DEF Adapted
<1>3. Ordered'
  <2>1. \A w \in Waiting' : stage'[w] # "unborn"  BY <1>1 DEF Ordered
  <2>2. \A v \in Holding', w \in WalkId : v < w => stage'[w] = "unborn"  BY DEF Ordered
  <2>. QED BY <1>1, <1>2, <2>1, <2>2 DEF Ordered
<1>4. OnStrip'  BY <1>2 DEF OnStrip, strip, StripShowsItsOwn, Adapted
<1>5. ASSUME UNCHANGED chan  PROVE Framed'  BY <1>5 DEF Framed
<1>. QED BY <1>3, <1>4, <1>5

\* Each of the streaming goroutine's steps keeps the strip's invariant.
LEMMA StreamKeeps ==
  ASSUME Gated, StripInv, NEW w \in WalkId, Stream(w)
  PROVE  StripInv'
<1>. USE DEF StreamRest, cmds, gates
<1>1. UNCHANGED <<results, frames, progress, strip, cancels, pressed, overtook, cancelled>>
  BY DEF Stream, TakeLog, Publish, EndWalk, Release, Tell, Close
<1>2. ASSUME NEW p \in Stage, stage' = [stage EXCEPT ![w] = p],
             stage[w] # "unborn", p # "unborn", p \in {"born", "walking"} => stage[w] \in {"born", "walking"},
             p \in {"born", "walking", "ended"} => w \in Holding,
             w \in Over => p \in {"told", "closed"}
      PROVE  Ordered' /\ OnStrip' /\ (UNCHANGED chan => Framed')
  <2>1. \A v \in WalkId : stage'[v] = IF v = w THEN p ELSE stage[v]  BY <1>2 DEF Gated
  <2>2. Holding' \subseteq Holding /\ Over \subseteq Over'  BY <1>2, <2>1 DEF Holding, Over
  <2>. QED BY <1>1, <1>2, <2>1, <2>2, StagesKeep
<1>3. CASE TakeLog(w)
  <2>1. PICK p \in {"walking", "ended"} : stage' = [stage EXCEPT ![w] = p]
    BY <1>3 DEF TakeLog
  <2>. QED BY <1>2, <1>3, <2>1 DEF TakeLog, Holding, Over, Stage, StripInv
<1>4. CASE Publish(w)
  <2>1. UNCHANGED stage /\ chan' = [chan EXCEPT ![w] = [walk |-> w, n |-> published[w] + 1, done |-> FALSE]]
    BY <1>4 DEF Publish, Offered
  <2>2. Ordered' /\ OnStrip'  BY <1>1, <2>1, StagesKeep DEF Holding, Over
  <2>3. Over' = Over  BY <2>1 DEF Over
  <2>4. chan' = [v \in WalkId |-> chan'[v]]  BY <2>1 DEF StripInv, Framed
  <2>5. \A v \in WalkId : chan'[v] = IF v = w THEN [walk |-> w, n |-> published[w] + 1, done |-> FALSE]
                                     ELSE chan[v]
    BY <2>1 DEF StripInv, Framed
  <2>6. Framed'  BY <1>1, <2>3, <2>4, <2>5 DEF StripInv, Framed
  <2>. QED BY <2>2, <2>6 DEF StripInv
<1>5. CASE EndWalk(w)
  BY <1>2, <1>5 DEF EndWalk, Holding, Over, Stage, StripInv
<1>6. CASE Release(w)
  BY <1>2, <1>6 DEF Release, Holding, Over, Stage, StripInv
<1>7. CASE Tell(w)
  <2>1. stage[w] = "freed" /\ stage' = [stage EXCEPT ![w] = "told"] /\ chan' = [chan EXCEPT ![w] = Terminal(w)]
    BY <1>7 DEF Tell, Offered
  <2>2. Ordered' /\ OnStrip'  BY <1>2, <2>1 DEF Over, Stage
  <2>3. Over' = Over \cup {w}  BY <2>1 DEF Gated, Over
  <2>4. chan' = [v \in WalkId |-> chan'[v]]  BY <2>1 DEF StripInv, Framed
  <2>5. \A v \in WalkId : chan'[v] = IF v = w THEN Terminal(w) ELSE chan[v]
    BY <2>1 DEF StripInv, Framed
  <2>6. Framed'  BY <1>1, <2>3, <2>4, <2>5 DEF StripInv, Framed, Terminal
  <2>. QED BY <2>2, <2>6 DEF StripInv
<1>8. CASE Close(w)
  BY <1>2, <1>8 DEF Close, Over, Stage, StripInv
<1>. QED BY <1>3, <1>4, <1>5, <1>6, <1>7, <1>8 DEF Stream

\* A frame that is received is of the walk whose channel it was in.
LEMMA ListenKeeps ==
  ASSUME StripInv, NEW w \in WalkId, Listen(w)
  PROVE  StripInv'
<1>. USE DEF walks, cmds
<1>1. UNCHANGED <<stage, results, progress, strip, cancels, pressed, overtook, cancelled>>
  BY DEF Listen
<1>2. Waiting' = Waiting  BY <1>1 DEF Waiting
<1>3. Adapted' = Adapted /\ Holding' = Holding /\ Over' = Over  BY <1>1, <1>2 DEF Adapted, Holding, Over
<1>4. Ordered'  BY <1>1, <1>2, <1>3 DEF StripInv, Ordered
<1>5. OnStrip'  BY <1>1, <1>3 DEF StripInv, OnStrip, strip, StripShowsItsOwn
<1>6. Framed'
  <2>1. CASE UNCHANGED <<frames, chan>>  BY <1>3, <2>1 DEF StripInv, Framed
  <2>2. CASE chan[w] # NoFrame /\ frames' = frames \cup {chan[w]} /\ chan' = [chan EXCEPT ![w] = NoFrame]
    <3>1. chan' = [v \in WalkId |-> chan'[v]]  BY <2>2 DEF StripInv, Framed
    <3>2. \A v \in WalkId : chan'[v] = IF v = w THEN NoFrame ELSE chan[v]
      BY <2>2 DEF StripInv, Framed
    <3>. QED BY <1>3, <2>2, <3>1, <3>2 DEF StripInv, Framed
  <2>. QED BY <2>1, <2>2 DEF Listen
<1>. QED BY <1>4, <1>5, <1>6 DEF StripInv

\* A result that comes in its turn is of a walk older than all the root is still to
\* be told of, so that none it was told of runs any more; one that does not has
\* overtaken another.
LEMMA ResultKeeps ==
  ASSUME StripInv, NEW k \in DOMAIN results, DeliverResult(k)
  PROVE  StripInv'
<1>. USE DEF walks, cmds, StripInv
<1>1. /\ results' = Without(k) /\ overtook' = overtook \cup Overtaking(k)
      /\ UNCHANGED <<stage, chan, frames, cancels, pressed, cancelled>>
  BY DEF DeliverResult
<1>2. results \in Seq(Result) /\ Len(results) \in Nat \ {0} /\ DOMAIN results = 1..Len(results)
  <2>1. results \in Seq(Result)  BY DEF Ordered
  <2>. QED BY <2>1
<1>. DEFINE from == [j \in 1..(Len(results) - 1) |-> IF j < k THEN j ELSE j + 1]
<1>3. /\ results' \in Seq(Result)
      /\ DOMAIN results' = 1..(Len(results) - 1)
      /\ \A j \in DOMAIN results' : from[j] \in DOMAIN results /\ results'[j] = results[from[j]]
  <2>1. results' = [j \in 1..(Len(results) - 1) |-> results[from[j]]]
    BY <1>1, <1>2 DEF Without
  <2>2. \A j \in 1..(Len(results) - 1) : from[j] \in 1..Len(results) /\ results[from[j]] \in Result
    BY <1>2
  <2>3. Len(results) - 1 \in Nat  BY <1>2
  <2>. HIDE DEF from
  <2>. QED BY <1>2, <2>1, <2>2, <2>3
<1>4. \A j \in DOMAIN results : j # k => \E i \in DOMAIN results' : results'[i] = results[j]
  <2>. SUFFICES ASSUME NEW j \in DOMAIN results, j # k
                PROVE  \E i \in DOMAIN results' : results'[i] = results[j]
    OBVIOUS
  <2>1. CASE j < k
    <3>1. j \in DOMAIN results' /\ from[j] = j  BY <1>2, <1>3, <2>1
    <3>. QED BY <1>3, <3>1
  <2>2. CASE j > k
    <3>1. j - 1 \in DOMAIN results' /\ from[j - 1] = j  BY <1>2, <1>3, <2>2
    <3>. QED BY <1>3, <3>1
  <2>. QED BY <1>2, <2>1, <2>2
<1>5. /\ \A i \in DOMAIN results' : from[i] # k
      /\ \A i, j \in DOMAIN results' : i < j => from[i] < from[j]
  BY <1>2, <1>3
<1>. HIDE DEF from
<1>6. Over' = Over /\ Holding' = Holding  BY <1>1 DEF Over, Holding
<1>7. Framed'  BY <1>1, <1>6 DEF Framed
<1>8. \A w \in Waiting' : w \in Waiting /\ results[k] # Started(w)
  <2>. SUFFICES ASSUME NEW w \in Waiting'  PROVE w \in Waiting /\ results[k] # Started(w)  OBVIOUS
  <2>1. PICK j \in DOMAIN results' : results'[j] = Started(w)  BY DEF Waiting
  <2>2. from[j] \in DOMAIN results /\ results[from[j]] = Started(w) /\ from[j] # k /\ w \in WalkId
    <3>. HIDE DEF StripInv
    <3>1. from[j] \in DOMAIN results /\ results[from[j]] = Started(w)  BY <1>3, <2>1
    <3>2. from[j] # k  BY <1>5
    <3>3. w \in WalkId  BY DEF Waiting
    <3>. QED BY <3>1, <3>2, <3>3
  <2>3. w \in Waiting  BY <2>2 DEF Waiting
  <2>4. ASSUME results[k] = Started(w)  PROVE FALSE
    <3>1. from[j] < k \/ k < from[j]  BY <1>2, <2>2
    <3>2. w < w  BY <2>2, <2>4, <3>1 DEF Ordered
    <3>. QED BY <2>2, <3>2 DEF WalkId
  <2>. QED BY <2>3, <2>4
<1>9. \A w \in Waiting : w \in Waiting' \/ results[k] = Started(w)
  BY <1>4 DEF Waiting
<1>10. \A w \in Adapted' : w \in Adapted \/ results[k] = Started(w)
  BY <1>1, <1>9 DEF Adapted
\* One that has not overtaken another is the first of those that are of a walk.
<1>11. ASSUME NEW v \in WalkId, results[k] = Started(v), v \notin overtook',
              NEW j \in DOMAIN results, NEW w \in WalkId, results[j] = Started(w), j # k
       PROVE  k < j
  <2>1. Overtaking(k) = {} \/ v \in Overtaking(k)  BY <1>11 DEF Overtaking, Started
  <2>2. v \notin Overtaking(k)  BY <1>1, <1>11
  <2>3. ASSUME j < k  PROVE FALSE
    <3>1. j \in 1..(k - 1)  BY <1>2, <2>3
    <3>2. v \in Overtaking(k)  BY <1>11, <3>1 DEF Overtaking, Started
    <3>. QED BY <2>2, <3>2
  <2>. QED BY <1>2, <1>11, <2>3
<1>12. Ordered'
  <2>1. \A w \in Waiting' : stage'[w] # "unborn"  BY <1>1, <1>8 DEF Ordered
  <2>2. ASSUME NEW i \in DOMAIN results', NEW j \in DOMAIN results', NEW v \in WalkId, NEW w \in WalkId,
               i < j, results'[i] = Started(v), results'[j] = Started(w)
        PROVE  v < w
    <3>. HIDE DEF StripInv
    <3>1. from[i] \in DOMAIN results /\ from[j] \in DOMAIN results  BY <1>3
    <3>2. results[from[i]] = Started(v) /\ results[from[j]] = Started(w)  BY <1>3, <2>2
    <3>3. from[i] < from[j]  BY <1>5, <2>2
    <3>. QED BY <3>1, <3>2, <3>3 DEF StripInv, Ordered
  <2>3. ASSUME NEW v \in (Adapted \ overtook)', NEW w \in Waiting'  PROVE v < w
    <3>1. CASE v \in Adapted  BY <1>1, <1>8, <2>3, <3>1 DEF Ordered
    <3>2. CASE results[k] = Started(v)
      <4>1. w \in Waiting /\ results[k] # Started(w)  BY <1>8
      <4>2. PICK j \in DOMAIN results : results[j] = Started(w)  BY <4>1 DEF Waiting
      <4>3. v \in WalkId /\ w \in WalkId /\ j # k  BY <4>1, <4>2 DEF Adapted, Waiting
      <4>4. k < j  BY <1>11, <2>3, <3>2, <4>2, <4>3
      <4>. QED BY <3>2, <4>2, <4>3, <4>4 DEF Ordered
    <3>. QED BY <1>10, <2>3, <3>1, <3>2
  <2>. QED BY <1>1, <1>3, <1>6, <2>1, <2>2, <2>3 DEF Ordered
<1>13. cancels' \subseteq pressed' /\ cancelled' \subseteq pressed'  BY <1>1 DEF OnStrip
<1>14. CASE results[k].kind = "started"
  <2>1. PICK w \in WalkId : results[k] = Started(w)
    BY <1>2, <1>14 DEF Result, LaunchFailed
  <2>2. /\ progress' = w /\ phase' = "running" /\ shown' = w /\ last' = NoFrame
    BY <1>14, <2>1 DEF DeliverResult, Started
  <2>3. w \in Waiting /\ w # None  BY <2>1, LaunchAssumption DEF Waiting, WalkId, None
  <2>4. ASSUME NEW v \in (Adapted \ overtook)', stage'[v] \in {"born", "walking"}
        PROVE  v = w
    <3>1. CASE v \in Adapted
      <4>1. v \in Adapted \ overtook  BY <1>1, <2>4, <3>1
      <4>2. v < w /\ v \in Holding  BY <1>1, <2>3, <2>4, <4>1 DEF Ordered, Holding, Adapted
      <4>3. stage[w] = "unborn"  BY <4>2 DEF Ordered
      <4>. QED BY <2>3, <4>3 DEF Ordered
    <3>2. CASE results[k] = Started(v)  BY <2>1, <3>2, ResultsDiffer
    <3>. QED BY <1>10, <2>4, <3>1, <3>2
  <2>5. OnStrip'
    BY <1>13, <2>2, <2>3, <2>4 DEF OnStrip, StripShowsItsOwn
  <2>. QED BY <1>7, <1>12, <2>5
<1>15. CASE results[k].kind = "failed"
  <2>0. \A w : results[k] # Started(w)  BY <1>15 DEF Started
  <2>1. \A v \in (Adapted \ overtook)' : v \in Adapted \ overtook  BY <1>1, <1>10, <2>0
  <2>2. CASE phase # "running"
    <3>1. /\ phase' = "failed" /\ shown' = None /\ last' = NoFrame /\ UNCHANGED progress
      BY <1>15, <2>2 DEF DeliverResult, FailTakesStrip
    <3>2. \A w \in (Adapted \ overtook)' : stage'[w] \notin {"born", "walking"}
      BY <1>1, <2>1, <2>2 DEF OnStrip
    <3>3. OnStrip'
      BY <1>13, <2>2, <3>1, <3>2 DEF OnStrip, StripShowsItsOwn
    <3>. QED BY <1>7, <1>12, <3>3
  <2>3. CASE phase = "running"
    <3>1. UNCHANGED <<progress, phase, shown, last>>
      BY <1>15, <2>3 DEF DeliverResult, FailTakesStrip, strip
    <3>2. OnStrip'  BY <1>1, <1>13, <2>1, <3>1 DEF OnStrip, StripShowsItsOwn
    <3>. QED BY <1>7, <1>12, <3>2
  <2>. QED BY <2>2, <2>3
<1>. QED BY <1>14, <1>15 DEF DeliverResult

\* Only the adapted stream's frames are applied, and its last one is of a walk
\* that runs no more.
LEMMA FrameKeeps ==
  ASSUME StripInv, NEW f \in frames, DeliverFrame(f)
  PROVE  StripInv'
<1>. USE DEF walks, cmds
<1>1. frames' = frames \ {f} /\ UNCHANGED <<stage, results, chan, cancels, pressed, overtook, cancelled>>
  BY DEF DeliverFrame
<1>2. Waiting' = Waiting  BY <1>1 DEF Waiting
<1>3. Adapted' = Adapted /\ Holding' = Holding /\ Over' = Over  BY <1>1, <1>2 DEF Adapted, Holding, Over
<1>4. Ordered'  BY <1>1, <1>2, <1>3 DEF StripInv, Ordered
<1>5. Framed'  BY <1>1, <1>3 DEF StripInv, Framed
<1>6. OnStrip'
  <2>1. CASE Foreign(f)
    <3>1. UNCHANGED <<progress, strip>>  BY <2>1 DEF DeliverFrame
    <3>. QED BY <1>1, <1>3, <3>1 DEF StripInv, OnStrip, strip, StripShowsItsOwn
  <2>2. CASE ~Foreign(f)
    <3>1. /\ f.walk = progress /\ f.walk \in WalkId /\ f.walk # None
          /\ f.done => f.walk \in Over
      BY <2>2, LaunchAssumption DEF Foreign, StripInv, Framed, WalkId, None
    <3>2. phase = "running" /\ shown = progress  BY <3>1 DEF StripInv, OnStrip
    <3>3. /\ progress' = IF f.done THEN None ELSE progress
          /\ last' = f /\ phase' = IF f.done THEN "finished" ELSE "running"
          /\ UNCHANGED shown
      BY <2>2, <3>2 DEF DeliverFrame
    <3>4. CASE f.done
      <4>1. \A w \in (Adapted \ overtook)' : stage'[w] \notin {"born", "walking"}
        BY <1>1, <1>3, <3>1, <3>2, <3>4 DEF StripInv, OnStrip, Over
      <4>. QED BY <1>1, <3>1, <3>2, <3>3, <3>4, <4>1 DEF StripInv, OnStrip, StripShowsItsOwn
    <3>5. CASE ~f.done
      BY <1>1, <1>3, <3>1, <3>2, <3>3, <3>5 DEF StripInv, OnStrip, StripShowsItsOwn
    <3>. QED BY <3>4, <3>5
  <2>. QED BY <2>1, <2>2
<1>. QED BY <1>4, <1>5, <1>6 DEF StripInv

\* The operator dismisses what is over, stops what runs, and adds commands; a
\* command that cancels calls what was pressed.
LEMMA OperatorKeeps ==
  ASSUME StripInv, Operator \/ \E w \in WalkId : ExecCancel(w)
  PROVE  StripInv'
<1>. USE DEF walks, cmds, gates
<1>1. UNCHANGED <<stage, results, chan, frames, progress, overtook>>
  BY DEF Operator, PressLaunch, PressRetry, PressCancel, ExecCancel
<1>2. Waiting' = Waiting  BY <1>1 DEF Waiting
<1>3. Adapted' = Adapted /\ Holding' = Holding /\ Over' = Over  BY <1>1, <1>2 DEF Adapted, Holding, Over
<1>4. Ordered'  BY <1>1, <1>2, <1>3 DEF StripInv, Ordered
<1>5. Framed'  BY <1>1, <1>3 DEF StripInv, Framed
<1>6. cancels' \subseteq pressed' /\ cancelled' \subseteq pressed'
  BY DEF StripInv, OnStrip, Operator, PressLaunch, PressRetry, PressCancel, ExecCancel
<1>7. CASE UNCHANGED <<phase, shown, last>>
  BY <1>1, <1>3, <1>4, <1>5, <1>6, <1>7 DEF StripInv, OnStrip, StripShowsItsOwn
<1>8. CASE /\ phase \in {"finished", "failed"}
           /\ phase' = "idle" /\ shown' = None /\ last' = NoFrame
  BY <1>1, <1>3, <1>4, <1>5, <1>6, <1>8 DEF StripInv, OnStrip, StripShowsItsOwn
<1>9. \/ UNCHANGED <<phase, shown, last>>
      \/ /\ phase \in {"finished", "failed"}
         /\ phase' = "idle" /\ shown' = None /\ last' = NoFrame
  BY DEF Operator, PressLaunch, PressRetry, PressCancel, ExecCancel, strip
<1>. QED BY <1>7, <1>8, <1>9

\* Every step keeps it, in whatever order results come.
LEMMA NextStrip ==
  ASSUME Gated, StripInv, [Next]_vars
  PROVE  StripInv'
<1>. USE DEF walks, cmds, gates
<1>1. CASE ExecLaunch
  <2>1. CASE launching
    <3>1. /\ results' = Append(results, LaunchFailed)
          /\ UNCHANGED <<stage, chan, frames, progress, strip, cancels, pressed, overtook, cancelled>>
      BY <1>1, <2>1, Zenon DEF ExecLaunch
    <3>. QED BY <3>1, FailedKeeps
  <2>2. CASE ~launching
    <3>1. /\ Unborn # {} /\ Spawn(None)
          /\ UNCHANGED <<chan, frames, progress, strip, cancels, pressed, overtook, cancelled>>
      BY <1>1, <2>2, Zenon DEF ExecLaunch
    <3>2. Holding = {}  BY <2>2 DEF Gated
    <3>. QED BY <3>1, <3>2, SpawnKeeps
  <2>. QED BY <2>1, <2>2
<1>2. CASE \E w \in WalkId : RetryGate(w)
  <2>. PICK w \in WalkId : RetryGate(w)  BY <1>2
  <2>1. UNCHANGED <<stage, chan, frames, progress, strip, cancels, pressed, overtook, cancelled>>
    BY DEF RetryGate
  <2>2. CASE results' = Append(results, LaunchFailed)
    BY <2>1, <2>2, FailedKeeps
  <2>3. CASE UNCHANGED results
    BY <2>1, <2>3, StagesKeep DEF StripInv, Holding, Over
  <2>. QED BY <2>2, <2>3 DEF RetryGate
<1>3. CASE RetryCell
  <2>1. UNCHANGED <<chan, frames, progress, strip, cancels, pressed, overtook, cancelled>>
    BY <1>3 DEF RetryCell
  <2>2. Holding = {} /\ Unborn # {}  BY <1>3 DEF RetryCell, Gated
  <2>3. CASE spent[retryHeld]
    <3>1. results' = Append(results, LaunchFailed) /\ UNCHANGED stage
      BY <1>3, <2>3, Zenon DEF RetryCell
    <3>. QED BY <2>1, <3>1, FailedKeeps
  <2>4. CASE ~spent[retryHeld]
    <3>1. Spawn(retryHeld)  BY <1>3, <2>4, Zenon DEF RetryCell
    <3>. QED BY <2>1, <2>2, <3>1, SpawnKeeps
  <2>. QED BY <2>3, <2>4
<1>4. CASE \E w \in WalkId : Stream(w)  BY <1>4, StreamKeeps
<1>5. CASE \E w \in WalkId : Listen(w)  BY <1>5, ListenKeeps
<1>6. CASE \E k \in DOMAIN results : DeliverResult(k)  BY <1>6, ResultKeeps
<1>7. CASE \E f \in frames : DeliverFrame(f)  BY <1>7, FrameKeeps
<1>8. CASE Operator \/ \E w \in WalkId : ExecCancel(w)  BY <1>8, OperatorKeeps
<1>9. CASE UNCHANGED vars
  BY <1>9, StagesKeep DEF vars, StripInv, Holding, Over
<1>. QED BY <1>1, <1>2, <1>3, <1>4, <1>5, <1>6, <1>7, <1>8, <1>9 DEF Next, System

\* tui.go, running.go: for any number of launches, retries and stops, and in
\* whatever order launch results reach the root, the operation that runs is the
\* one on the strip as soon as the root was told of it, so that its cancel is
\* within reach, unless its own handle came before that of an earlier operation;
\* no cancel reaches another operation; and no operation's frames are shown as
\* another's.
THEOREM RunningIsOnStrip == Spec => []StripInReach
<1>1. Init => StripInv
  <2>. SUFFICES ASSUME Init  PROVE StripInv  OBVIOUS
  <2>1. results = <<>> /\ Waiting = {} /\ Adapted = {} /\ Holding = {}
    BY DEF Init, Waiting, Adapted, Holding
  <2>2. Ordered  BY <2>1 DEF Init, Ordered
  <2>3. Framed  BY DEF Init, Framed
  <2>4. OnStrip  BY <2>1 DEF Init, OnStrip, StripShowsItsOwn
  <2>. QED BY <2>2, <2>3, <2>4 DEF StripInv
<1>2. Gated /\ StripInv /\ [Next]_vars => StripInv'
  BY NextStrip
<1>3. StripInv => StripInReach
  <2>. SUFFICES ASSUME StripInv  PROVE StripInReach  OBVIOUS
  <2>1. ASSUME NEW w \in WalkId \ overtook, stage[w] \in {"born", "walking"}, Told(w)
        PROVE  phase = "running" /\ shown = w
    <3>1. w \in Adapted  BY <2>1 DEF Told, Adapted, Waiting
    <3>. QED BY <2>1, <3>1 DEF StripInv, OnStrip
  <2>. QED BY <2>1 DEF StripInv, OnStrip, StripInReach, CancelWithinReach
<1>. QED BY <1>1, <1>2, <1>3, InitGated, NextGated, PTL DEF Spec

-----------------------------------------------------------------------------
(* The types, with launch results in any order. *)

\* A stream has one claim on it: its launch result on the way, or one receive in
\* progress on its channel, or one frame received.  So it is received from once
\* at a time.
Claimed ==
  /\ results \in Seq(Result)
  /\ \A j, k \in DOMAIN results, w \in WalkId :
       results[j] = Started(w) /\ results[k] = Started(w) => j = k
  /\ listeners \in [WalkId -> 0..1]
  /\ \A w \in Waiting : stage[w] # "unborn" /\ listeners[w] = 0
  /\ \A w \in WalkId : stage[w] = "unborn" => listeners[w] = 0
  /\ frames \subseteq Frame
  /\ \A f \in frames : stage[f.walk] # "unborn" /\ f.walk \notin Waiting /\ listeners[f.walk] = 0
  /\ \A f, g \in frames : f.walk = g.walk => f = g

Slotted ==
  /\ published \in [WalkId -> 0..Frames]
  /\ chan \in [WalkId -> Frame \cup {NoFrame}]
  /\ \A w \in WalkId : chan[w] # NoFrame => chan[w].walk = w

\* A key pays for each command there is.
Paid ==
  /\ keys \in 0..MaxKeys
  /\ launches \in Nat /\ launches + keys <= MaxKeys
  /\ retries \in [WalkId -> Nat] /\ \A w \in WalkId : retries[w] + keys <= MaxKeys

Shows ==
  /\ hasFailed \in [WalkId -> BOOLEAN]
  /\ cancelled \subseteq WalkId /\ pressed \subseteq WalkId /\ cancels \subseteq WalkId
  /\ overtook \subseteq WalkId
  /\ progress \in 0..MaxWalks
  /\ phase \in {"idle", "running", "finished", "failed"} /\ shown \in 0..MaxWalks
  /\ stopping \in BOOLEAN /\ last \in Frame \cup {NoFrame}

LaunchInv == Claimed /\ Slotted /\ Paid /\ Shows

LEMMA WalksAreNumbers ==
  \A w : w \in WalkId <=> w \in 0..MaxWalks /\ w # None
BY LaunchAssumption DEF WalkId, None

\* A walk has one more receive on its channel, or one less.
LEMMA ListenersAre ==
  ASSUME Claimed, NEW w \in WalkId
  PROVE  /\ listeners[w] = 0 \/ listeners[w] = 1
         /\ listeners[w] = 0 =>
              [listeners EXCEPT ![w] = @ + 1] = [v \in WalkId |-> IF v = w THEN 1 ELSE listeners[v]]
         /\ listeners[w] = 1 =>
              [listeners EXCEPT ![w] = @ - 1] = [v \in WalkId |-> IF v = w THEN 0 ELSE listeners[v]]
<1>1. listeners \in [WalkId -> 0..1]
  BY DEF Claimed
<1>2. listeners[w] \in 0..1
  BY <1>1
<1>3. listeners[w] = 0 \/ listeners[w] = 1
  BY <1>2
<1>4. DOMAIN listeners = WalkId
  BY <1>1
<1>5. \A x : [listeners EXCEPT ![w] = x] = [v \in WalkId |-> IF v = w THEN x ELSE listeners[v]]
  BY <1>4, Zenon
<1>6. listeners[w] = 0 => listeners[w] + 1 = 1
  OBVIOUS
<1>7. listeners[w] = 1 => listeners[w] - 1 = 0
  OBVIOUS
<1> QED BY <1>3, <1>5, <1>6, <1>7, Zenon

\* The claims are about the walks born, not about how far they are.
LEMMA ClaimsLast ==
  ASSUME Claimed, \A w \in WalkId : stage'[w] = "unborn" => stage[w] = "unborn",
         UNCHANGED <<results, listeners, frames>>
  PROVE  Claimed'
<1>1. Waiting' = Waiting /\ Waiting \subseteq WalkId
  BY DEF Waiting
<1>2. \A f \in frames : f.walk \in WalkId
  BY DEF Claimed, Frame
<1>3. \A w \in Waiting : stage'[w] # "unborn" /\ listeners'[w] = 0
  BY <1>1 DEF Claimed
<1>4. \A w \in WalkId : stage'[w] = "unborn" => listeners'[w] = 0
  BY DEF Claimed
<1>5. \A f \in frames : stage'[f.walk] # "unborn" /\ f.walk \notin Waiting /\ listeners'[f.walk] = 0
  BY <1>2 DEF Claimed
<1> QED BY <1>1, <1>3, <1>4, <1>5 DEF Claimed

\* One more result, of no walk or of one just born.
LEMMA ClaimsGrow ==
  ASSUME Claimed, NEW x \in Result, results' = Append(results, x),
         \A w \in WalkId : stage'[w] = "unborn" => stage[w] = "unborn",
         \A w \in WalkId : x = Started(w) => stage[w] = "unborn" /\ stage'[w] # "unborn",
         UNCHANGED <<listeners, frames>>
  PROVE  Claimed'
<1>1. results \in Seq(Result)
  BY DEF Claimed
<1>2. /\ results' \in Seq(Result)
      /\ DOMAIN results' = 1..(Len(results) + 1)
      /\ DOMAIN results = 1..Len(results) /\ Len(results) \in Nat
      /\ \A k \in DOMAIN results : results'[k] = results[k]
      /\ results'[Len(results) + 1] = x
  BY <1>1
<1>3. \A k \in DOMAIN results' : k \in DOMAIN results \/ k = Len(results) + 1
  BY <1>2
<1>4. \A w \in Waiting' : w \in WalkId /\ (w \in Waiting \/ x = Started(w))
  BY <1>2, <1>3 DEF Waiting
<1>5. \A w \in WalkId : x = Started(w) => \A k \in DOMAIN results : results[k] # Started(w)
  BY DEF Claimed, Waiting
<1>6. ASSUME NEW j \in DOMAIN results', NEW k \in DOMAIN results', NEW w \in WalkId,
             results'[j] = Started(w), results'[k] = Started(w)
      PROVE  j = k
  <2>1. CASE j \in DOMAIN results /\ k \in DOMAIN results
    BY <1>2, <1>6, <2>1 DEF Claimed
  <2>2. CASE j \in DOMAIN results /\ k = Len(results) + 1
    BY <1>2, <1>5, <1>6, <2>2
  <2>3. CASE k \in DOMAIN results /\ j = Len(results) + 1
    BY <1>2, <1>5, <1>6, <2>3
  <2> QED BY <1>3, <2>1, <2>2, <2>3
<1>7. \A w \in Waiting' : stage'[w] # "unborn" /\ listeners'[w] = 0
  BY <1>4 DEF Claimed, Waiting
<1>8. \A w \in WalkId : stage'[w] = "unborn" => listeners'[w] = 0
  BY DEF Claimed
<1>9. \A f \in frames : f.walk \in WalkId
  BY DEF Claimed, Frame
<1>10. \A f \in frames : stage'[f.walk] # "unborn" /\ f.walk \notin Waiting' /\ listeners'[f.walk] = 0
  BY <1>4, <1>9 DEF Claimed
<1> QED BY <1>2, <1>6, <1>7, <1>8, <1>10 DEF Claimed

LEMMA SpawnClaims ==
  ASSUME Gated, Claimed, NEW p, Spawn(p), Unborn # {}, UNCHANGED <<listeners, frames>>
  PROVE  Claimed'
<1> DEFINE n == NextId
<1>1. n \in WalkId /\ stage[n] = "unborn"
  BY NextIdUnborn
<1>2. stage' = [stage EXCEPT ![n] = "born"] /\ results' = Append(results, Started(n))
  BY DEF Spawn
<1> HIDE DEF n
<1>3. \A w \in WalkId : stage'[w] = IF w = n THEN "born" ELSE stage[w]
  BY <1>1, <1>2 DEF Gated
<1>4. Started(n) \in Result
  BY <1>1 DEF Result
<1>5. \A w \in WalkId : Started(n) = Started(w) => w = n
  BY ResultsDiffer
<1> QED BY <1>1, <1>2, <1>3, <1>4, <1>5, ClaimsGrow

LEMMA FailedClaims ==
  ASSUME Claimed, results' = Append(results, LaunchFailed),
         UNCHANGED <<stage, listeners, frames>>
  PROVE  Claimed'
<1>1. LaunchFailed \in Result /\ \A w \in WalkId : LaunchFailed # Started(w)
  BY ResultsDiffer DEF Result
<1> QED BY <1>1, ClaimsGrow

\* A received frame has the claim its receive had.
LEMMA ListenClaims ==
  ASSUME Claimed, Slotted, NEW w \in WalkId, Listen(w)
  PROVE  Claimed' /\ Slotted'
<1>1. /\ listeners[w] > 0 /\ listeners' = [listeners EXCEPT ![w] = @ - 1]
      /\ UNCHANGED <<stage, results, published>>
  BY DEF Listen, walks
<1>2. listeners[w] = 1 /\ listeners' = [v \in WalkId |-> IF v = w THEN 0 ELSE listeners[v]]
  <2>1. listeners[w] = 1
    <3>1. listeners[w] \in {0, 1}
      BY ListenersAre
    <3> QED BY <1>1, <3>1
  <2> QED BY <1>1, <2>1, ListenersAre
<1>3. listeners' \in [WalkId -> 0..1] /\ \A v \in WalkId : listeners'[v] = IF v = w THEN 0 ELSE listeners[v]
  BY <1>2 DEF Claimed
<1>4. Waiting' = Waiting /\ Waiting \subseteq WalkId
  BY <1>1 DEF Waiting
<1>5. w \notin Waiting /\ stage[w] # "unborn" /\ \A f \in frames : f.walk # w
  BY <1>2 DEF Claimed
<1>6. CASE UNCHANGED <<frames, chan>>
  <2>1. \A f \in frames : f.walk \in WalkId
    BY DEF Claimed, Frame
  <2>2. Claimed'
    BY <1>1, <1>3, <1>4, <1>6, <2>1 DEF Claimed
  <2> QED BY <1>1, <1>6, <2>2 DEF Slotted
<1>7. CASE chan[w] # NoFrame /\ frames' = frames \cup {chan[w]} /\ chan' = [chan EXCEPT ![w] = NoFrame]
  <2>1. chan[w] \in Frame /\ chan[w].walk = w
    BY <1>7 DEF Slotted
  <2>2. frames' \subseteq Frame /\ \A f \in frames' : f = chan[w] \/ f \in frames
    BY <1>7, <2>1 DEF Claimed
  <2>3. \A f \in frames' : f.walk \in WalkId
    BY <2>2 DEF Frame
  <2>4. \A f, g \in frames' : f.walk = g.walk => f = g
    BY <1>5, <2>1, <2>2 DEF Claimed
  <2>5. \A f \in frames' : stage'[f.walk] # "unborn" /\ f.walk \notin Waiting' /\ listeners'[f.walk] = 0
    BY <1>1, <1>3, <1>4, <1>5, <2>1, <2>2, <2>3 DEF Claimed
  <2>6. \A v \in Waiting' : stage'[v] # "unborn" /\ listeners'[v] = 0
    BY <1>1, <1>3, <1>4 DEF Claimed
  <2>7. Claimed'
    BY <1>1, <1>3, <2>2, <2>4, <2>5, <2>6 DEF Claimed
  <2>8. Slotted'
    BY <1>1, <1>7 DEF Slotted
  <2> QED BY <2>7, <2>8
<1> QED BY <1>6, <1>7 DEF Listen

\* A launch result that arrives gives its claim to a first receive.
LEMMA ResultClaims ==
  ASSUME Claimed, NEW k \in DOMAIN results, DeliverResult(k)
  PROVE  /\ Claimed'
         /\ UNCHANGED <<progress, strip>> \/ \/ progress' \in WalkId /\ shown' = progress'
                                                /\ phase' = "running"
                                                /\ stopping' = FALSE /\ last' = NoFrame
                                             \/ progress' = progress /\ shown' = None
                                                /\ phase' = "failed"
                                                /\ stopping' = FALSE /\ last' = NoFrame
<1> DEFINE n == Len(results)
           from(j) == IF j < k THEN j ELSE j + 1
<1>1. results \in Seq(Result)
  BY DEF Claimed
<1>2. DOMAIN results = 1..n /\ n \in Nat /\ \A j \in 1..n : results[j] \in Result
  BY <1>1
<1>3. results' = [j \in 1..(n - 1) |-> results[from(j)]] /\ UNCHANGED <<stage, frames>>
  BY DEF DeliverResult, Without, walks
<1> HIDE DEF n
<1>4. \A j \in 1..(n - 1) : from(j) \in 1..n /\ from(j) # k
  BY <1>2
<1>5. \A i, j \in 1..(n - 1) : from(i) = from(j) => i = j
  BY <1>2
<1> HIDE DEF from
<1>6. /\ results' \in Seq(Result) /\ DOMAIN results' = 1..(n - 1)
      /\ \A j \in 1..(n - 1) : results'[j] = results[from(j)]
  <2>1. results' \in [1..(n - 1) -> Result]
    BY <1>2, <1>3, <1>4
  <2>2. n - 1 \in Nat
    BY <1>2
  <2> QED BY <1>3, <2>1, <2>2
<1>7. \A i, j \in DOMAIN results', w \in WalkId :
        results'[i] = Started(w) /\ results'[j] = Started(w) => i = j
  BY <1>2, <1>4, <1>5, <1>6 DEF Claimed
<1>8. \A w \in Waiting' : w \in Waiting /\ results[k] # Started(w)
  <2> SUFFICES ASSUME NEW w \in Waiting'
               PROVE  w \in Waiting /\ results[k] # Started(w)
    OBVIOUS
  <2>1. PICK j \in DOMAIN results' : results'[j] = Started(w)
    BY DEF Waiting
  <2>2. w \in WalkId /\ from(j) \in DOMAIN results /\ results[from(j)] = Started(w) /\ from(j) # k
    BY <1>2, <1>4, <1>6, <2>1 DEF Waiting
  <2> QED BY <2>2 DEF Claimed, Waiting
<1>9. CASE results[k].kind = "started"
  <2>1. PICK w \in WalkId : results[k] = Started(w)
    BY <1>2, <1>9 DEF Result, LaunchFailed
  <2>2. /\ progress' = w /\ listeners' = Rearm(w) /\ phase' = "running" /\ shown' = w
        /\ stopping' = FALSE /\ last' = NoFrame
    BY <1>9, <2>1 DEF DeliverResult, Started
  <2>3. w \in Waiting
    BY <2>1 DEF Waiting
  <2>4. w # None
    BY WalksAreNumbers
  <2>5. listeners[w] = 0 /\ stage[w] # "unborn" /\ \A f \in frames : f.walk # w
    BY <2>3 DEF Claimed
  <2>6. listeners' = [v \in WalkId |-> IF v = w THEN 1 ELSE listeners[v]]
    BY <2>2, <2>4, <2>5, ListenersAre DEF Rearm
  <2>7. listeners' \in [WalkId -> 0..1] /\ \A v \in WalkId : listeners'[v] = IF v = w THEN 1 ELSE listeners[v]
    BY <2>6 DEF Claimed
  <2>8. \A v \in Waiting' : v # w /\ v \in WalkId
    BY <1>8, <2>1 DEF Waiting
  <2>9. \A v \in Waiting' : stage'[v] # "unborn" /\ listeners'[v] = 0
    BY <1>3, <1>8, <2>7, <2>8 DEF Claimed
  <2>10. \A f \in frames : f.walk \in WalkId
    BY DEF Claimed, Frame
  <2>11. \A f \in frames : stage'[f.walk] # "unborn" /\ f.walk \notin Waiting' /\ listeners'[f.walk] = 0
    BY <1>3, <1>8, <2>5, <2>7, <2>10 DEF Claimed
  <2>12. Claimed'
    BY <1>3, <1>6, <1>7, <2>5, <2>7, <2>9, <2>11 DEF Claimed
  <2> QED BY <2>2, <2>12
<1>10. CASE results[k].kind = "failed"
  <2>1. UNCHANGED listeners
    BY <1>10 DEF DeliverResult
  <2>2. \A v \in Waiting' : stage'[v] # "unborn" /\ listeners'[v] = 0
    BY <1>3, <1>8, <2>1 DEF Claimed
  <2>3. \A f \in frames : stage'[f.walk] # "unborn" /\ f.walk \notin Waiting' /\ listeners'[f.walk] = 0
    BY <1>3, <1>8, <2>1 DEF Claimed
  <2>4. Claimed'
    BY <1>3, <1>6, <1>7, <2>1, <2>2, <2>3 DEF Claimed
  <2> QED BY <1>10, <2>4 DEF DeliverResult, strip
<1> QED BY <1>9, <1>10 DEF DeliverResult

\* A frame that arrives gives its claim to the next receive, or is the last.
LEMMA FrameClaims ==
  ASSUME Claimed, NEW f \in frames, DeliverFrame(f)
  PROVE  /\ Claimed'
         /\ UNCHANGED <<progress, strip>> \/ /\ progress' \in {progress, None} /\ last' \in {last, f}
                                             /\ phase' \in {phase, "finished"}
                                             /\ UNCHANGED <<shown, stopping>>
<1>1. frames' = frames \ {f} /\ UNCHANGED <<stage, results>>
  BY DEF DeliverFrame, walks
<1>2. f.walk \in WalkId /\ \A g \in frames : g.walk \in WalkId
  BY DEF Claimed, Frame
<1>3. Waiting' = Waiting /\ Waiting \subseteq WalkId
  BY <1>1 DEF Waiting
<1>4. ASSUME UNCHANGED listeners
      PROVE  Claimed'
  BY <1>1, <1>2, <1>3, <1>4 DEF Claimed
<1>5. ASSUME progress = f.walk, listeners' = Rearm(progress)
      PROVE  Claimed'
  <2>1. f.walk # None /\ listeners[f.walk] = 0 /\ stage[f.walk] # "unborn" /\ f.walk \notin Waiting
    BY <1>2, WalksAreNumbers DEF Claimed
  <2>2. listeners' = [v \in WalkId |-> IF v = f.walk THEN 1 ELSE listeners[v]]
    BY <1>2, <1>5, <2>1, ListenersAre DEF Rearm
  <2>3. listeners' \in [WalkId -> 0..1]
        /\ \A v \in WalkId : listeners'[v] = IF v = f.walk THEN 1 ELSE listeners[v]
    BY <2>2 DEF Claimed
  <2>4. \A g \in frames' : g.walk # f.walk
    BY <1>1 DEF Claimed
  <2>5. \A g \in frames' : stage'[g.walk] # "unborn" /\ g.walk \notin Waiting' /\ listeners'[g.walk] = 0
    BY <1>1, <1>2, <1>3, <2>3, <2>4 DEF Claimed
  <2>6. \A v \in Waiting' : stage'[v] # "unborn" /\ listeners'[v] = 0
    BY <1>1, <1>3, <2>1, <2>3 DEF Claimed
  <2> QED BY <1>1, <1>2, <2>1, <2>3, <2>5, <2>6 DEF Claimed
<1>6. \/ UNCHANGED listeners
      \/ progress = f.walk /\ listeners' = Rearm(progress)
  BY DEF DeliverFrame, Foreign
<1>7. Claimed'
  BY <1>4, <1>5, <1>6
<1>8. CASE Foreign(f)
  BY <1>7, <1>8 DEF DeliverFrame
<1>9. CASE ~Foreign(f)
  BY <1>7, <1>9 DEF DeliverFrame
<1> QED BY <1>8, <1>9

\* The streaming goroutine makes frames of its own walk, as many as it may.
LEMMA StreamClaims ==
  ASSUME Gated, Claimed, Slotted, NEW w \in WalkId, Stream(w)
  PROVE  Claimed' /\ Slotted'
<1> USE DEF StreamRest, cmds, gates
<1>1. UNCHANGED <<results, listeners, frames>>
  BY DEF Stream, TakeLog, Publish, EndWalk, Release, Tell, Close
<1>2. UNCHANGED stage \/ \E p \in Stage \ {"unborn"} : stage' = [stage EXCEPT ![w] = p]
  BY DEF Stream, TakeLog, Publish, EndWalk, Release, Tell, Close, Stage
<1>3. \A v \in WalkId : stage'[v] = "unborn" => stage[v] = "unborn"
  BY <1>2 DEF Gated
<1>4. Claimed'
  BY <1>1, <1>3, ClaimsLast
<1>5. ASSUME NEW f \in Frame, f.walk = w, chan' = [chan EXCEPT ![w] = f]
      PROVE  /\ chan' \in [WalkId -> Frame \cup {NoFrame}]
             /\ \A v \in WalkId : chan'[v] # NoFrame => chan'[v].walk = v
  BY <1>5 DEF Slotted
<1>6. CASE Publish(w)
  <2> DEFINE f == [walk |-> w, n |-> published[w] + 1, done |-> FALSE]
  <2>1. published[w] \in 0..Frames /\ published[w] < Frames
    BY <1>6 DEF Publish, Slotted
  <2>2. published[w] + 1 \in 1..(Frames + 1) /\ published[w] + 1 \in 0..Frames
    BY <2>1, LaunchAssumption
  <2>3. f \in Frame /\ f.walk = w
    BY <2>2 DEF Frame
  <2>4. chan' = [chan EXCEPT ![w] = f] /\ published' = [published EXCEPT ![w] = published[w] + 1]
    BY <1>6 DEF Publish, Offered
  <2> HIDE DEF f
  <2>5. published' \in [WalkId -> 0..Frames]
    BY <2>2, <2>4 DEF Slotted
  <2> QED BY <1>4, <1>5, <2>3, <2>4, <2>5 DEF Slotted
<1>7. CASE Tell(w)
  <2>1. Terminal(w) \in Frame /\ Terminal(w).walk = w
    BY LaunchAssumption DEF Terminal, Frame
  <2>2. chan' = [chan EXCEPT ![w] = Terminal(w)] /\ UNCHANGED published
    BY <1>7 DEF Tell, Offered
  <2> QED BY <1>4, <1>5, <2>1, <2>2 DEF Slotted
<1>8. CASE TakeLog(w) \/ EndWalk(w) \/ Release(w) \/ Close(w)
  <2>1. UNCHANGED <<chan, published>>
    BY <1>8 DEF TakeLog, EndWalk, Release, Close
  <2> QED BY <1>4, <2>1 DEF Slotted
<1> QED BY <1>6, <1>7, <1>8 DEF Stream

LEMMA ClaimsStep ==
  ASSUME Gated, Claimed, Slotted, [Next]_vars
  PROVE  Claimed' /\ Slotted'
<1> USE DEF walks, cmds, gates
<1>1. CASE ExecLaunch
  <2>1. UNCHANGED <<listeners, frames, chan, published>>
    BY <1>1 DEF ExecLaunch
  <2>2. CASE launching
    <3>1. results' = Append(results, LaunchFailed) /\ UNCHANGED stage
      BY <1>1, <2>2, Zenon DEF ExecLaunch
    <3> QED BY <2>1, <3>1, FailedClaims DEF Slotted
  <2>3. CASE ~launching
    <3>1. Unborn # {} /\ Spawn(None)
      BY <1>1, <2>3, Zenon DEF ExecLaunch
    <3> QED BY <2>1, <3>1, SpawnClaims DEF Slotted
  <2> QED BY <2>2, <2>3
<1>2. CASE \E w \in WalkId : RetryGate(w)
  <2>1. /\ UNCHANGED <<stage, listeners, frames, chan, published>>
        /\ UNCHANGED results \/ results' = Append(results, LaunchFailed)
    BY <1>2 DEF RetryGate
  <2> QED BY <2>1, FailedClaims, ClaimsLast DEF Slotted
<1>3. CASE RetryCell
  <2>1. UNCHANGED <<listeners, frames, chan, published>>
    BY <1>3 DEF RetryCell
  <2>2. Unborn # {}
    BY <1>3 DEF RetryCell, Gated
  <2>3. CASE spent[retryHeld]
    <3>1. results' = Append(results, LaunchFailed) /\ UNCHANGED stage
      BY <1>3, <2>3, Zenon DEF RetryCell
    <3> QED BY <2>1, <3>1, FailedClaims DEF Slotted
  <2>4. CASE ~spent[retryHeld]
    <3>1. Spawn(retryHeld)
      BY <1>3, <2>4, Zenon DEF RetryCell
    <3> QED BY <2>1, <2>2, <3>1, SpawnClaims DEF Slotted
  <2> QED BY <2>3, <2>4
<1>4. CASE \E w \in WalkId : Stream(w)
  BY <1>4, StreamClaims
<1>5. CASE \E w \in WalkId : Listen(w)
  BY <1>5, ListenClaims
<1>6. CASE \E k \in DOMAIN results : DeliverResult(k)
  <2>1. UNCHANGED <<chan, published>>
    BY <1>6 DEF DeliverResult
  <2> QED BY <1>6, <2>1, ResultClaims DEF Slotted
<1>7. CASE \E f \in frames : DeliverFrame(f)
  <2>1. UNCHANGED <<chan, published>>
    BY <1>7 DEF DeliverFrame
  <2> QED BY <1>7, <2>1, FrameClaims DEF Slotted
<1>8. CASE Operator \/ (\E w \in WalkId : ExecCancel(w)) \/ UNCHANGED vars
  <2>1. UNCHANGED <<stage, results, listeners, frames, chan, published>>
    BY <1>8 DEF Operator, PressLaunch, PressRetry, PressCancel, ExecCancel, vars
  <2> QED BY <2>1, ClaimsLast DEF Slotted
<1> QED BY <1>1, <1>2, <1>3, <1>4, <1>5, <1>6, <1>7, <1>8 DEF Next, System

\* A command is run at most as often as a key made it.
LEMMA PaidStep ==
  ASSUME Paid, Shows, [Next]_vars
  PROVE  Paid'
<1> USE DEF walks, cmds, gates
<1>1. \A w \in WalkId : retries[w] \in Nat /\ retries[w] + keys <= MaxKeys
  BY DEF Paid
<1>9. /\ launches \in Nat /\ keys \in Nat /\ MaxKeys \in Nat /\ launches + keys <= MaxKeys
      /\ keys <= MaxKeys
  BY LaunchAssumption DEF Paid
<1>2. CASE UNCHANGED <<launches, retries, keys>>
  BY <1>2 DEF Paid
<1>3. CASE ExecLaunch
  <2>1. launches > 0 /\ launches' = launches - 1 /\ UNCHANGED <<retries, keys>>
    BY <1>3 DEF ExecLaunch
  <2>2. launches' \in Nat /\ launches' + keys <= MaxKeys
    BY <1>9, <2>1
  <2> QED BY <2>1, <2>2 DEF Paid
<1>4. ASSUME NEW w \in WalkId, RetryGate(w)
      PROVE  Paid'
  <2>1. /\ retries[w] > 0 /\ retries' = [retries EXCEPT ![w] = retries[w] - 1]
        /\ UNCHANGED <<launches, keys>>
    BY <1>4 DEF RetryGate
  <2>2. \A v \in WalkId : retries'[v] = IF v = w THEN retries[w] - 1 ELSE retries[v]
    BY <2>1 DEF Paid
  <2>3. retries[w] - 1 \in Nat /\ retries[w] - 1 + keys <= MaxKeys
    BY <1>1, <2>1, LaunchAssumption DEF Paid
  <2>4. retries' \in [WalkId -> Nat]
    BY <2>1, <2>3 DEF Paid
  <2>5. \A v \in WalkId : retries'[v] + keys' <= MaxKeys
    BY <1>1, <2>1, <2>2, <2>3
  <2> QED BY <2>1, <2>4, <2>5 DEF Paid
<1>5. CASE PressLaunch
  <2>1. keys > 0 /\ keys' = keys - 1 /\ launches' = launches + 1 /\ UNCHANGED retries
    BY <1>5 DEF PressLaunch
  <2>2. keys' \in 0..MaxKeys /\ launches' \in Nat /\ launches' + keys' <= MaxKeys
    BY <2>1, LaunchAssumption DEF Paid
  <2>3. \A w \in WalkId : retries[w] + keys' <= MaxKeys
    BY <1>1, <2>1, LaunchAssumption DEF Paid
  <2> QED BY <2>1, <2>2, <2>3 DEF Paid
<1>6. CASE PressRetry
  <2>0. last.walk \in WalkId
    BY <1>6 DEF PressRetry, Shows, Frame
  <2> DEFINE w == last.walk
  <2>1. /\ keys > 0 /\ keys' = keys - 1 /\ retries' = [retries EXCEPT ![w] = retries[w] + 1]
        /\ UNCHANGED launches
    BY <1>6 DEF PressRetry
  <2> HIDE DEF w
  <2>2. w \in WalkId
    BY <2>0 DEF w
  <2>3. \A v \in WalkId : retries'[v] = IF v = w THEN retries[w] + 1 ELSE retries[v]
    BY <2>1, <2>2 DEF Paid
  <2>4. keys' \in 0..MaxKeys /\ launches' + keys' <= MaxKeys
    BY <2>1, LaunchAssumption DEF Paid
  <2>5. retries' \in [WalkId -> Nat]
    BY <1>1, <2>1, <2>2 DEF Paid
  <2>6. \A v \in WalkId : retries'[v] + keys' <= MaxKeys
    BY <1>1, <2>1, <2>2, <2>3, LaunchAssumption DEF Paid
  <2> QED BY <2>1, <2>4, <2>5, <2>6 DEF Paid
<1>7. CASE PressCancel
  <2>1. UNCHANGED <<launches, retries>> /\ (keys' = keys \/ (keys > 0 /\ keys' = keys - 1))
    BY <1>7 DEF PressCancel
  <2>2. keys' \in 0..MaxKeys /\ keys' \in Nat /\ keys' <= keys
    BY <1>9, <2>1
  <2>3. launches + keys' <= MaxKeys
    <3>1. CASE keys' = keys
      BY <1>9, <3>1
    <3>2. CASE keys' = keys - 1
      BY <1>9, <3>2
    <3> QED BY <2>1, <3>1, <3>2
  <2>4. \A w \in WalkId : retries[w] + keys' <= MaxKeys
    BY <1>9, <1>1, <2>2
  <2> QED BY <2>1, <2>2, <2>3, <2>4 DEF Paid
<1>8. CASE \/ RetryCell \/ (\E w \in WalkId : Stream(w) \/ ExecCancel(w) \/ Listen(w))
           \/ (\E k \in DOMAIN results : DeliverResult(k)) \/ (\E f \in frames : DeliverFrame(f))
           \/ UNCHANGED vars
  <2>1. UNCHANGED <<launches, retries, keys>>
    BY <1>8 DEF RetryCell, Stream, TakeLog, Publish, EndWalk, Release, Tell, Close,
         StreamRest, ExecCancel, Listen, DeliverResult, DeliverFrame, vars
  <2> QED BY <1>2, <2>1
<1> QED BY <1>3, <1>4, <1>5, <1>6, <1>7, <1>8 DEF Next, System, Operator

LEMMA ShowsStep ==
  ASSUME Claimed, Shows, [Next]_vars
  PROVE  Shows'
<1> USE DEF walks, cmds, gates
<1>1. None \in 0..MaxWalks /\ \A w \in WalkId : w \in 0..MaxWalks
  BY LaunchAssumption DEF None, WalkId
<1>2. CASE UNCHANGED <<hasFailed, cancelled, pressed, cancels, overtook, progress, strip>>
  BY <1>2 DEF Shows, strip
<1>3. CASE \E w \in WalkId : EndWalk(w)
  BY <1>3 DEF EndWalk, StreamRest, Shows, strip
<1>4. CASE \E w \in WalkId : ExecCancel(w)
  BY <1>4 DEF ExecCancel, Shows, strip
<1>5. ASSUME NEW k \in DOMAIN results, DeliverResult(k)
      PROVE  Shows'
  <2>1. UNCHANGED <<hasFailed, cancelled, pressed, cancels>>
    BY <1>5 DEF DeliverResult
  <2>2. results[k] \in Result
    BY DEF Claimed
  <2>3. Overtaking(k) \subseteq WalkId
    BY <2>2 DEF Overtaking, Result, LaunchFailed, Started
  <2>4. overtook' \subseteq WalkId
    BY <1>5, <2>3 DEF DeliverResult, Shows
  <2> QED BY <1>1, <1>5, <2>1, <2>4, ResultClaims DEF Shows, strip
<1>6. ASSUME NEW f \in frames, DeliverFrame(f)
      PROVE  Shows'
  <2>1. UNCHANGED <<hasFailed, cancelled, pressed, cancels, overtook>> /\ f \in Frame
    BY <1>6 DEF DeliverFrame, Claimed
  <2> QED BY <1>1, <1>6, <2>1, FrameClaims DEF Shows, strip
<1>7. CASE PressCancel
  <2>1. UNCHANGED <<hasFailed, cancelled, overtook, progress>>
    BY <1>7 DEF PressCancel
  <2>2. CASE /\ phase' = "idle" /\ shown' = None /\ stopping' = FALSE /\ last' = NoFrame
             /\ UNCHANGED <<cancels, pressed>>
    BY <1>1, <2>1, <2>2 DEF Shows
  <2>3. CASE /\ shown # None /\ stopping' = TRUE /\ cancels' = cancels \cup {shown}
             /\ pressed' = pressed \cup {shown} /\ UNCHANGED <<phase, shown, last>>
    <3>1. shown \in WalkId
      BY <2>3, WalksAreNumbers DEF Shows
    <3> QED BY <2>1, <2>3, <3>1 DEF Shows
  <2> QED BY <1>7, <2>2, <2>3 DEF PressCancel
<1>8. CASE \/ ExecLaunch \/ RetryCell \/ PressLaunch \/ PressRetry \/ UNCHANGED vars
           \/ \E w \in WalkId : \/ TakeLog(w) \/ Publish(w) \/ Release(w) \/ Tell(w) \/ Close(w)
                                \/ RetryGate(w) \/ Listen(w)
  <2>1. UNCHANGED <<hasFailed, cancelled, pressed, cancels, overtook, progress, strip>>
    BY <1>8 DEF ExecLaunch, RetryCell, PressLaunch, PressRetry, TakeLog, Publish, Release,
         Tell, Close, StreamRest, RetryGate, Listen, vars
  <2> QED BY <1>2, <2>1
<1> QED BY <1>3, <1>4, <1>5, <1>6, <1>7, <1>8 DEF Next, System, Operator, Stream

\* Every step of the launch protocol leaves it well typed, in whatever order the
\* launch results come: above all, no stream ever has two receivers, which would
\* let its frames overtake each other.
THEOREM LaunchTypes == Spec => []TypeOK
<1>1. Init => Gated /\ LaunchInv
  <2> SUFFICES ASSUME Init
               PROVE  LaunchInv
    BY InitGated
  <2>1. results = <<>> /\ Waiting = {}
    BY DEF Init, Waiting
  <2>2. Claimed
    BY <2>1 DEF Init, Claimed
  <2>3. Slotted
    BY LaunchAssumption DEF Init, Slotted
  <2>4. Paid
    BY LaunchAssumption DEF Init, Paid
  <2>5. None \in 0..MaxWalks
    BY LaunchAssumption DEF None
  <2>6. Shows
    BY <2>5 DEF Init, Shows
  <2> QED BY <2>2, <2>3, <2>4, <2>6 DEF LaunchInv
<1>2. (Gated /\ LaunchInv) /\ [Next]_vars => (Gated /\ LaunchInv)'
  BY NextGated, ClaimsStep, PaidStep, ShowsStep DEF LaunchInv
<1>3. Gated /\ LaunchInv => TypeOK
  <2> SUFFICES ASSUME Gated, LaunchInv
               PROVE  TypeOK
    OBVIOUS
  <2>1. launches \in 0..MaxKeys /\ retries \in [WalkId -> 0..MaxKeys]
    <3>1. \A w \in WalkId : retries[w] \in 0..MaxKeys
      BY LaunchAssumption DEF LaunchInv, Paid
    <3> QED BY <3>1, LaunchAssumption DEF LaunchInv, Paid
  <2>2. /\ launching \in BOOLEAN /\ deleting \in BOOLEAN /\ stage \in [WalkId -> Stage]
        /\ parent \in [WalkId -> 0..MaxWalks] /\ spent \in [WalkId -> BOOLEAN]
        /\ refused \subseteq WalkId /\ retryHeld \in 0..MaxWalks
    BY DEF Gated
  <2>3. listeners \in [WalkId -> 0..1] /\ frames \subseteq Frame
    BY DEF LaunchInv, Claimed
  <2>4. published \in [WalkId -> 0..Frames] /\ chan \in [WalkId -> Frame \cup {NoFrame}]
    BY DEF LaunchInv, Slotted
  <2> QED BY <2>1, <2>2, <2>3, <2>4 DEF LaunchInv, Shows, TypeOK, Stage
<1> QED BY <1>1, <1>2, <1>3, PTL DEF Spec

-----------------------------------------------------------------------------
\* The slot a rotation renames to next, beyond the last where it is not shifting.
Hole == CASE writer.at = "shift" -> writer.i [] writer.at = "rename" -> 1
          [] OTHER -> Generations + 1

\* The files as the writer's next step finds them: a generation was full when it
\* became one, a line follows a line, and what a rotation renames a file to is
\* not there, is the oldest, or was refused the shift that would have moved it.
Shelved ==
  /\ lines \in Nat /\ whole \in BOOLEAN /\ left \subseteq 1..lines
  /\ writer = [at |-> writer.at, i |-> writer.i] /\ writer.i \in 0..Generations
  /\ writer.at \in {"closed", "ready", "close", "remove", "shift", "rename", "reopen", "append", "failed"}
  /\ files = [j \in DOMAIN files |-> files[j]] /\ DOMAIN files \subseteq 0..Generations
  /\ \A j \in DOMAIN files :
       /\ files[j] \in Seq(Nat) /\ Len(files[j]) <= Capacity
       /\ j # 0 => Len(files[j]) = Capacity
       /\ \A k, n \in DOMAIN files[j] : files[j][n] = files[j][k] + (n - k)
  /\ \A j, i \in DOMAIN files : j > i =>
       \A k \in DOMAIN files[j], n \in DOMAIN files[i] : files[j][k] < files[i][n]
  /\ writer.at \in {"ready", "close", "remove", "shift", "rename", "append"} => 0 \in DOMAIN files
  /\ writer.at \in {"close", "remove", "shift", "rename"} => Len(files[0]) = Capacity
  /\ writer.at = "shift" => writer.i \in 2..Generations
  /\ writer.at = "reopen" => 0 \notin DOMAIN files
  /\ writer.at = "append" => Len(files[0]) < Capacity
  /\ Hole \in DOMAIN files /\ Hole # Generations =>
       ~whole /\ \A k \in DOMAIN files[Hole] : files[Hole][k] \in left

\* Of a log no rotation of which was cut short, each generation stands where the
\* number of lines alone says it does, and follows the one before it.
Active == IF 0 \in DOMAIN files THEN Len(files[0]) ELSE 0
Rank(j) == IF j > Hole THEN j - 1 ELSE j
Before(j) == IF j - 1 = Hole THEN j - 2 ELSE j - 1
InPlace ==
  /\ \A j \in DOMAIN files : j # 0 =>
       /\ files[j][1] = lines - Active - Rank(j) * Capacity + 1
       /\ Before(j) = 0 \/ Before(j) \in DOMAIN files

\* The record from first on is on disk or was left in the way of a shift, and what
\* comes before was dropped as the oldest of all the generations there can be.
Reaches(first) ==
  /\ \A n \in OnDisk : n \in first..lines
  /\ \A n \in first..lines : n \in OnDisk \/ n \in left
  /\ whole /\ first # 1 => Before(Generations + 1) = 0 \/ Before(Generations + 1) \in DOMAIN files

\* The latest lines, as many as one file holds, are on disk.
Recent == \A n \in 1..lines : n > lines - Capacity => n \in OnDisk

LogInv ==
  Shelved /\ Recent /\ (whole => InPlace) /\ \E first \in 1..(lines + 1) : Reaches(first)

\* A number is on disk where some place of some file holds it.
OnDiskWhere ==
  \A x : x \in OnDisk <=> \E j \in DOMAIN files : \E k \in DOMAIN files[j] : x = files[j][k]
LEMMA OnDiskIs == OnDiskWhere
BY DEF OnDiskWhere, OnDisk, Held
LEMMA OnDiskIsNext == OnDiskWhere'
BY OnDiskIs, PTL

\* The places of a file are those of a sequence of numbers.
LEMMA FilePlaces ==
  ASSUME Shelved, NEW j \in DOMAIN files
  PROVE  /\ Len(files[j]) \in Nat /\ DOMAIN files[j] = 1..Len(files[j])
         /\ \A k \in DOMAIN files[j] : files[j][k] \in Nat
BY DEF Shelved

\* One generation more is one file's worth of lines more.
LEMMA OneRankMore == \A n \in Int : n * Capacity = (n - 1) * Capacity + Capacity
BY LogAssumption

\* A log nobody writes to is as it was.
LEMMA SameLog == ASSUME LogInv, UNCHANGED logVars  PROVE LogInv'
<1>0. /\ files' = files /\ writer' = writer /\ lines' = lines /\ whole' = whole /\ left' = left
      /\ Shelved
  BY DEF logVars, LogInv
<1>1. Hole' = Hole /\ Active' = Active /\ OnDisk' = OnDisk  BY <1>0 DEF Hole, Active, OnDisk, Held
<1>2. Shelved'
  <2>1. /\ lines' \in Nat /\ whole' \in BOOLEAN /\ left' \subseteq 1..lines'
        /\ writer' = [at |-> writer'.at, i |-> writer'.i] /\ writer'.i \in 0..Generations
        /\ files' = [j \in DOMAIN files' |-> files'[j]] /\ DOMAIN files' \subseteq 0..Generations
    BY <1>0, Zenon DEF Shelved
  <2>. DEFINE Kept(f) == \A j \in DOMAIN f :
                           /\ f[j] \in Seq(Nat) /\ Len(f[j]) <= Capacity
                           /\ j # 0 => Len(f[j]) = Capacity
                           /\ \A k, n \in DOMAIN f[j] : f[j][n] = f[j][k] + (n - k)
  <2>2. Kept(files)  BY <1>0, Zenon DEF Shelved
  <2>3. Kept(files')
    <3>. HIDE DEF Kept
    <3>. QED BY <1>0, <2>2
  <2>. QED BY <1>0, <1>1, <2>1, <2>3 DEF Shelved
<1>3. InPlace => InPlace'  BY <1>0, <1>1 DEF InPlace, Rank, Before
<1>4. \A first : Reaches(first) => Reaches(first)'  BY <1>0, <1>1 DEF Reaches, Before
<1>5. Recent'  BY <1>0, <1>1 DEF LogInv, Recent
<1>. QED BY <1>0, <1>2, <1>3, <1>4, <1>5 DEF LogInv

\* No log has been written.
LEMMA InitLogInv == LogInit => LogInv
<1>. SUFFICES ASSUME LogInit  PROVE LogInv  OBVIOUS
<1>1. DOMAIN files = {} /\ files = [j \in DOMAIN files |-> files[j]] /\ lines = 0  BY DEF LogInit
<1>2. Hole = Generations + 1  BY DEF Hole, LogInit, Closed
<1>3. Shelved  BY <1>1, <1>2, LogAssumption DEF Shelved, LogInit, Closed
<1>4. InPlace  BY <1>1 DEF InPlace
<1>5. Reaches(1)  BY <1>1, OnDiskIs DEF OnDiskWhere, Reaches
<1>6. Recent  BY <1>1 DEF Recent
<1>. QED BY <1>1, <1>3, <1>4, <1>5, <1>6 DEF LogInv

\* A log that is opened is what was there, and an empty active file if none was.
LEMMA CreatedKeepsLog ==
  ASSUME LogInv, files' = Created, UNCHANGED <<lines, whole, left>>, Hole = Generations + 1,
         writer' \in [at : {"ready", "append"}, i : {0}],
         writer'.at = "append" => 0 \notin DOMAIN files
  PROVE  LogInv'
<1>. USE LogAssumption
<1>1. Shelved  BY DEF LogInv
<1>2. /\ DOMAIN files' = DOMAIN files \cup {0}
      /\ \A j \in DOMAIN files : files'[j] = files[j]
      /\ 0 \notin DOMAIN files => files'[0] = <<>>
      /\ files' = [j \in DOMAIN files' |-> files'[j]]
  BY <1>1 DEF Created, Shelved
<1>3. /\ lines' = lines /\ whole' = whole /\ left' = left /\ writer'.at \in {"ready", "append"}
      /\ writer' = [at |-> writer'.at, i |-> writer'.i] /\ writer'.i = 0
  OBVIOUS
<1>4. Hole' = Generations + 1  BY <1>3 DEF Hole
<1>5. Active' = Active  BY <1>2 DEF Active
<1>6. Shelved'
  <2>1. <<>> \in Seq(Nat) /\ Len(<<>>) <= Capacity /\ Len(<<>>) < Capacity /\ DOMAIN <<>> = {}  OBVIOUS
  <2>2. \A j \in DOMAIN files' : /\ files'[j] \in Seq(Nat) /\ Len(files'[j]) <= Capacity
                                 /\ j # 0 => Len(files'[j]) = Capacity
    <3>1. ASSUME NEW j \in DOMAIN files
          PROVE  files'[j] \in Seq(Nat) /\ Len(files'[j]) <= Capacity /\ (j # 0 => Len(files'[j]) = Capacity)
      BY <1>1, <1>2 DEF Shelved
    <3>2. 0 \notin DOMAIN files => files'[0] \in Seq(Nat) /\ Len(files'[0]) <= Capacity
      BY <1>2, <2>1, Zenon
    <3>. QED BY <1>2, <3>1, <3>2
  <2>3. \A j \in DOMAIN files' : \A k, n \in DOMAIN files'[j] : files'[j][n] = files'[j][k] + (n - k)
    BY <1>1, <1>2, <2>1 DEF Shelved
  <2>4. \A j, i \in DOMAIN files' : j > i =>
           \A k \in DOMAIN files'[j], n \in DOMAIN files'[i] : files'[j][k] < files'[i][n]
    BY <1>1, <1>2, <2>1 DEF Shelved
  <2>5. writer'.at = "append" => Len(files'[0]) < Capacity  BY <1>2, <2>1
  <2>. QED BY <1>1, <1>2, <1>3, <1>4, <2>2, <2>3, <2>4, <2>5 DEF Shelved
<1>7. InPlace => InPlace'
  BY <1>1, <1>2, <1>3, <1>4, <1>5 DEF InPlace, Rank, Before
<1>8. \A x : x \in OnDisk' <=> x \in OnDisk
  <2>1. 0 \notin DOMAIN files => DOMAIN files'[0] = {}  BY <1>2
  <2>. QED BY <1>2, <2>1, OnDiskIs, OnDiskIsNext DEF OnDiskWhere
<1>9. ASSUME NEW first, Reaches(first)  PROVE Reaches(first)'
  BY <1>2, <1>3, <1>4, <1>8, <1>9 DEF Reaches, Before
<1>10. Recent'  BY <1>3, <1>8 DEF LogInv, Recent
<1>. QED BY <1>3, <1>6, <1>7, <1>9, <1>10 DEF LogInv

\* What a file is, for the next state too.
LEMMA FilePlacesAll ==
  Shelved => \A j \in DOMAIN files :
               /\ Len(files[j]) \in Nat /\ DOMAIN files[j] = 1..Len(files[j])
               /\ \A k \in DOMAIN files[j] : files[j][k] \in Nat
BY FilePlaces

\* Where the writer only steps, between its calls, and no rotation is under way,
\* nothing of the log changes.
LEMMA StepKeepsLog ==
  ASSUME LogInv, UNCHANGED <<files, lines, left>>, writer' \in [at : {"closed", "ready", "failed"}, i : {0}],
         writer'.at = "ready" => 0 \in DOMAIN files,
         whole' = (whole /\ ~Rotating)
  PROVE  LogInv'
<1>. USE LogAssumption
<1>1. Shelved  BY DEF LogInv
<1>2. Hole' = Generations + 1  BY DEF Hole
<1>3. whole' => whole /\ Hole = Generations + 1  BY <1>1 DEF Hole, Rotating, Shelved
<1>4. OnDisk' = OnDisk /\ Active' = Active  BY DEF OnDisk, Held, Active
<1>5. Shelved'  BY <1>1, <1>2 DEF Shelved
<1>6. whole' => InPlace'
  BY <1>2, <1>3, <1>4 DEF LogInv, InPlace, Rank, Before
<1>7. ASSUME NEW first, Reaches(first)  PROVE Reaches(first)'
  BY <1>2, <1>3, <1>4, <1>7 DEF Reaches, Before
<1>8. Recent'  BY <1>4 DEF LogInv, Recent
<1>. QED BY <1>5, <1>6, <1>7, <1>8 DEF LogInv

\* The log is closed when the walk is over, and holds its line or rotates.
LEMMA CloseKeepsLog ==
  ASSUME LogInv, CloseLog, writer.at \in {"closed", "ready", "failed"}  PROVE LogInv'
BY StepKeepsLog DEF CloseLog, Closed, Rotating, LogInv, Shelved

\* A killed process leaves the files as they are; a line that fails, too.
LEMMA KillKeepsLog == ASSUME LogInv, LogKilled  PROVE LogInv'
BY StepKeepsLog DEF LogKilled, Closed
LEMMA FailureKeepsLog == ASSUME LogInv, LineFails  PROVE LogInv'
BY StepKeepsLog DEF LineFails

\* A line begins with room for it, or with the rotation that makes room.
LEMMA BeginKeepsLog == ASSUME LogInv, BeginLine, writer = Ready  PROVE LogInv'
<1>. USE LogAssumption
<1>1. Shelved /\ 0 \in DOMAIN files  BY DEF LogInv, Shelved, Ready
<1>2. Len(files[0]) \in Nat /\ Len(files[0]) <= Capacity  BY <1>1, FilePlaces DEF Shelved
<1>3. Full => Len(files[0]) = Capacity  BY <1>2 DEF Full
<1>4. ~Full => Len(files[0]) < Capacity  BY <1>2 DEF Full
<1>5. /\ writer' = [at |-> writer'.at, i |-> writer'.i] /\ writer'.i = 0
      /\ writer'.at = (IF Full THEN "close" ELSE "append")
      /\ files' = files /\ lines' = lines /\ whole' = whole /\ left' = left
  BY DEF BeginLine
<1>6. Hole' = Generations + 1 /\ Hole = Generations + 1  BY <1>5 DEF Hole, Ready
<1>7. OnDisk' = OnDisk /\ Active' = Active  BY <1>5 DEF OnDisk, Held, Active
<1>8. Shelved'  BY <1>1, <1>3, <1>4, <1>5, <1>6 DEF Shelved
<1>9. whole' => InPlace'  BY <1>5, <1>6, <1>7 DEF LogInv, InPlace, Rank, Before
<1>10. ASSUME NEW first, Reaches(first)  PROVE Reaches(first)'
  BY <1>5, <1>6, <1>7, <1>10 DEF Reaches, Before
<1>11. Recent'  BY <1>5, <1>7 DEF LogInv, Recent
<1>. QED BY <1>5, <1>8, <1>9, <1>10, <1>11 DEF LogInv

\* The active log holds the last line of all, if it holds any.
LEMMA LastIsActive ==
  ASSUME LogInv, 0 \in DOMAIN files, Len(files[0]) > 0
  PROVE  files[0][Len(files[0])] = lines
<1>1. Shelved /\ lines \in Nat  BY DEF LogInv, Shelved
<1>2. PICK final \in Nat : final = Len(files[0])  BY <1>1, FilePlaces
<1>3. final \in DOMAIN files[0] /\ DOMAIN files[0] = 1..final  BY <1>1, <1>2, FilePlaces
<1>4. PICK first \in 1..(lines + 1) : Reaches(first)  BY DEF LogInv
<1>5. first \in 1..(lines + 1) /\ \A n \in OnDisk : n \in first..lines  BY <1>4 DEF Reaches
<1>6. files[0][final] \in first..lines /\ files[0][final] \in Nat
  BY <1>1, <1>3, <1>5, OnDiskIs, FilePlaces DEF OnDiskWhere
<1>7. lines \in OnDisk
  <2>1. lines \in 1..lines /\ lines > lines - Capacity  BY <1>1, <1>5, <1>6, LogAssumption
  <2>. QED BY <2>1 DEF LogInv, Recent
<1>8. PICK j \in DOMAIN files : \E k \in DOMAIN files[j] : lines = files[j][k]
  BY <1>7, OnDiskIs DEF OnDiskWhere
<1>9. PICK k \in DOMAIN files[j] : lines = files[j][k]  BY <1>8
<1>10. j = 0
  <2>1. j \in Nat  BY <1>1 DEF Shelved
  <2>2. j > 0 => files[j][k] < files[0][final]  BY <1>1, <1>3 DEF Shelved
  <2>. QED BY <1>1, <1>6, <1>9, <2>1, <2>2
<1>11. files[0][final] = lines + (final - k)  BY <1>1, <1>3, <1>9, <1>10 DEF Shelved
<1>12. k \in 1..final  BY <1>3, <1>9, <1>10
<1>. QED BY <1>1, <1>2, <1>6, <1>11, <1>12

\* A full active log holds the latest lines there are.
LEMMA ActiveIsRecent ==
  ASSUME LogInv, 0 \in DOMAIN files, Len(files[0]) = Capacity,
         NEW n \in 1..lines, n > lines - Capacity
  PROVE  \E k \in DOMAIN files[0] : n = files[0][k]
<1>. USE LogAssumption
<1>1. Shelved /\ lines \in Nat  BY DEF LogInv, Shelved
<1>2. DOMAIN files[0] = 1..Capacity /\ \A k \in DOMAIN files[0] : files[0][k] \in Nat  BY <1>1, FilePlaces
<1>3. files[0][Capacity] = lines  BY <1>1, LastIsActive
<1>4. PICK k \in 1..Capacity : k = n - lines + Capacity  BY <1>1
<1>5. files[0][Capacity] = files[0][k] + (Capacity - k)
  <2>1. \A m, i \in DOMAIN files[0] : files[0][i] = files[0][m] + (i - m)  BY <1>1 DEF Shelved
  <2>2. k \in DOMAIN files[0] /\ Capacity \in DOMAIN files[0]  BY <1>2
  <2>. QED BY <2>1, <2>2
<1>6. k \in DOMAIN files[0] /\ files[0][k] \in Nat  BY <1>2
<1>7. n = files[0][k]
  <2>1. PICK number \in Nat : number = files[0][k]  BY <1>6
  <2>2. lines = number + (Capacity - k)  BY <1>3, <1>5, <2>1
  <2>3. n \in Int /\ k \in Int /\ lines \in Int /\ Capacity \in Int  BY <1>1, <1>4
  <2>4. n = number  BY <1>4, <2>2, <2>3
  <2>. QED BY <2>1, <2>4
<1>. QED BY <1>6, <1>7

\* A line that is written is the next number, at the end of the active log.
LEMMA AppendKeepsLog == ASSUME LogInv, AppendLine  PROVE LogInv'
<1>. USE LogAssumption
<1>1. Shelved /\ 0 \in DOMAIN files /\ Len(files[0]) < Capacity  BY DEF LogInv, Shelved, AppendLine
<1>2. Len(files[0]) \in Nat /\ DOMAIN files[0] = 1..Len(files[0])  BY <1>1, FilePlaces
<1>0. PICK top \in Nat : top = Len(files[0]) + 1  BY <1>2
<1>3. /\ DOMAIN files' = DOMAIN files /\ files' = [j \in DOMAIN files' |-> files'[j]]
      /\ \A j \in DOMAIN files : j # 0 => files'[j] = files[j]
      /\ files'[0] = Append(files[0], lines + 1)
  BY <1>1 DEF AppendLine, Shelved
<1>4. /\ files'[0] \in Seq(Nat) /\ Len(files'[0]) = top /\ DOMAIN files'[0] = 1..top
      /\ \A k \in DOMAIN files[0] : files'[0][k] = files[0][k]
      /\ files'[0][top] = lines + 1 /\ DOMAIN files[0] \subseteq DOMAIN files'[0]
  BY <1>0, <1>1, <1>2, <1>3 DEF Shelved
<1>5. writer' = Ready /\ lines' = lines + 1 /\ whole' = whole /\ left' = left /\ lines \in Nat
  BY <1>1 DEF AppendLine, Shelved
<1>6. Hole = Generations + 1 /\ Hole' = Generations + 1  BY <1>5 DEF Hole, Ready, AppendLine
<1>7. PICK first \in 1..(lines + 1) : Reaches(first)  BY DEF LogInv
<1>8. \A x : x \in OnDisk' <=> x \in OnDisk \/ x = lines + 1
  <2>1. ASSUME NEW x, x \in OnDisk  PROVE x \in OnDisk'
    <3>1. PICK j \in DOMAIN files : \E k \in DOMAIN files[j] : x = files[j][k]
      BY <2>1, OnDiskIs DEF OnDiskWhere
    <3>2. PICK k \in DOMAIN files[j] : x = files[j][k]  BY <3>1
    <3>3. k \in DOMAIN files'[j] /\ x = files'[j][k]
      <4>1. CASE j = 0  BY <1>4, <3>2, <4>1
      <4>2. CASE j # 0  BY <1>3, <3>1, <3>2, <4>2
      <4>. QED BY <4>1, <4>2
    <3>. QED BY <1>3, <3>1, <3>3, OnDiskIsNext DEF OnDiskWhere
  <2>2. lines + 1 \in OnDisk'
    <3>1. top \in DOMAIN files'[0] /\ 0 \in DOMAIN files'  BY <1>0, <1>1, <1>2, <1>3, <1>4
    <3>. QED BY <1>4, <3>1, OnDiskIsNext DEF OnDiskWhere
  <2>3. ASSUME NEW x, x \in OnDisk'  PROVE x \in OnDisk \/ x = lines + 1
    <3>1. PICK j \in DOMAIN files' : \E k \in DOMAIN files'[j] : x = files'[j][k]
      BY <2>3, OnDiskIsNext DEF OnDiskWhere
    <3>2. PICK k \in DOMAIN files'[j] : x = files'[j][k]  BY <3>1
    <3>3. CASE j = 0 /\ k = top  BY <1>4, <3>2, <3>3
    <3>4. CASE ~(j = 0 /\ k = top)
      <4>1. k \in DOMAIN files[j] /\ files'[j][k] = files[j][k]
        <5>1. CASE j # 0  BY <1>3, <3>1, <3>2, <5>1
        <5>2. CASE j = 0
          <6>1. k \in 1..top /\ k # top  BY <1>4, <3>2, <3>4, <5>2
          <6>2. k \in DOMAIN files[0]  BY <1>0, <1>2, <6>1
          <6>. QED BY <1>4, <5>2, <6>2
        <5>. QED BY <5>1, <5>2
      <4>. QED BY <1>3, <3>2, <4>1, OnDiskIs DEF OnDiskWhere
    <3>. QED BY <3>3, <3>4
  <2>. QED BY <2>1, <2>2, <2>3
<1>9. first \in 1..(lines + 1) /\ \A n \in OnDisk : n \in first..lines  BY <1>7 DEF Reaches
<1>10. \A j \in DOMAIN files : \A k \in DOMAIN files[j] : files[j][k] \in Nat /\ files[j][k] <= lines
  <2>1. \A j \in DOMAIN files : \A k \in DOMAIN files[j] : files[j][k] \in OnDisk
    BY OnDiskIs DEF OnDiskWhere
  <2>. QED BY <1>5, <1>9, <2>1
\* The line follows the last of the active log.
<1>11. \A k \in DOMAIN files[0] : lines + 1 = files[0][k] + (top - k)
  <2>1. CASE Len(files[0]) = 0  BY <1>2, <2>1
  <2>2. ASSUME Len(files[0]) > 0, NEW k \in DOMAIN files[0]
        PROVE  lines + 1 = files[0][k] + (top - k)
    <3>1. PICK final \in Nat : final = Len(files[0])  BY <1>2
    <3>2. final \in DOMAIN files[0] /\ files[0][final] = lines  BY <1>1, <1>2, <2>2, <3>1, LastIsActive
    <3>3. lines = files[0][k] + (final - k)  BY <1>1, <3>2 DEF Shelved
    <3>4. k \in Int /\ files[0][k] \in Nat  BY <1>1, <1>2, <1>10
    <3>5. lines \in Nat /\ top = final + 1  BY <1>0, <1>5, <3>1
    <3>. QED BY <3>3, <3>4, <3>5
  <2>. QED BY <1>2, <2>1, <2>2
<1>12. Shelved'
  <2>1. \A j \in DOMAIN files' : /\ files'[j] \in Seq(Nat) /\ Len(files'[j]) <= Capacity
                                 /\ j # 0 => Len(files'[j]) = Capacity
    <3>1. \A j \in DOMAIN files : j # 0 =>
            files'[j] \in Seq(Nat) /\ Len(files'[j]) <= Capacity /\ Len(files'[j]) = Capacity
      BY <1>1, <1>3 DEF Shelved
    <3>2. files'[0] \in Seq(Nat) /\ Len(files'[0]) <= Capacity  BY <1>0, <1>1, <1>2, <1>4
    <3>. QED BY <1>3, <3>1, <3>2
  <2>2. \A j \in DOMAIN files' : \A k, n \in DOMAIN files'[j] : files'[j][n] = files'[j][k] + (n - k)
    <3>1. ASSUME NEW k \in DOMAIN files'[0], NEW n \in DOMAIN files'[0]
          PROVE  files'[0][n] = files'[0][k] + (n - k)
      <4>1. k \in 1..top /\ n \in 1..top /\ lines + 1 \in Int  BY <1>4, <1>5
      <4>2. CASE k = top /\ n = top  BY <1>0, <1>4, <4>1, <4>2
      <4>3. CASE k = top /\ n # top
        <5>1. n \in DOMAIN files[0]  BY <1>0, <1>2, <4>1, <4>3
        <5>2. files[0][n] \in Nat /\ lines + 1 = files[0][n] + (top - n)  BY <1>1, <1>10, <1>11, <5>1
        <5>3. files'[0][n] = files[0][n] /\ files'[0][k] = lines + 1  BY <1>4, <4>3, <5>1
        <5>4. n \in Int /\ k \in Int /\ k = top /\ lines + 1 \in Int  BY <1>0, <4>1, <4>3
        <5>. QED BY <5>2, <5>3, <5>4
      <4>4. CASE k # top /\ n = top
        <5>1. k \in DOMAIN files[0]  BY <1>0, <1>2, <4>1, <4>4
        <5>2. files[0][k] \in Nat /\ lines + 1 = files[0][k] + (top - k)  BY <1>1, <1>10, <1>11, <5>1
        <5>3. files'[0][k] = files[0][k] /\ files'[0][n] = lines + 1  BY <1>4, <4>4, <5>1
        <5>4. n \in Int /\ k \in Int /\ n = top /\ lines + 1 \in Int  BY <1>0, <4>1, <4>4
        <5>. QED BY <5>2, <5>3, <5>4
      <4>5. CASE k # top /\ n # top
        <5>1. k \in DOMAIN files[0] /\ n \in DOMAIN files[0]  BY <1>0, <1>2, <4>1, <4>5
        <5>2. files[0][n] = files[0][k] + (n - k)  BY <1>1, <5>1 DEF Shelved
        <5>. QED BY <1>4, <5>1, <5>2
      <4>. QED BY <4>2, <4>3, <4>4, <4>5
    <3>2. \A j \in DOMAIN files : j # 0 =>
            \A k, n \in DOMAIN files'[j] : files'[j][n] = files'[j][k] + (n - k)
      BY <1>1, <1>3 DEF Shelved
    <3>. QED BY <1>3, <3>1, <3>2
  <2>3. ASSUME NEW j \in DOMAIN files', NEW i \in DOMAIN files', j > i,
               NEW k \in DOMAIN files'[j], NEW n \in DOMAIN files'[i]
        PROVE  files'[j][k] < files'[i][n]
    <3>1. j # 0 /\ files'[j] = files[j] /\ k \in DOMAIN files[j] /\ j \in DOMAIN files
      BY <1>1, <1>3, <2>3 DEF Shelved
    <3>2. CASE i = 0 /\ n = top  BY <1>4, <1>5, <1>10, <3>1, <3>2
    <3>3. CASE ~(i = 0 /\ n = top)
      <4>1. i \in DOMAIN files /\ n \in DOMAIN files[i] /\ files'[i][n] = files[i][n]
        BY <1>0, <1>2, <1>3, <1>4, <3>3
      <4>. QED BY <1>1, <2>3, <3>1, <4>1 DEF Shelved
    <3>. QED BY <3>2, <3>3
  <2>4. /\ writer' = [at |-> writer'.at, i |-> writer'.i] /\ writer'.i = 0 /\ writer'.at = "ready"
        /\ 0 \in DOMAIN files' /\ DOMAIN files' \subseteq 0..Generations
        /\ files' = [j \in DOMAIN files' |-> files'[j]]
        /\ lines' \in Nat /\ whole' \in BOOLEAN /\ left' \subseteq 1..lines'
    BY <1>1, <1>3, <1>5 DEF Shelved, Ready
  <2>. QED BY <1>6, <2>1, <2>2, <2>3, <2>4 DEF Shelved
<1>13. Active' = Active + 1 /\ Active \in Nat  BY <1>0, <1>1, <1>2, <1>3, <1>4 DEF Active
<1>14. ASSUME whole  PROVE InPlace'
  <2>1. ASSUME NEW j \in DOMAIN files', j # 0
        PROVE  /\ files'[j][1] = lines' - Active' - Rank(j)' * Capacity + 1
               /\ Before(j)' = 0 \/ Before(j)' \in DOMAIN files'
    <3>1. files'[j] = files[j] /\ j \in DOMAIN files  BY <1>3, <2>1
    <3>2. j \in Nat  BY <1>1, <3>1 DEF Shelved
    <3>3. Rank(j)' = Rank(j) /\ Rank(j) \in Int /\ Before(j)' = Before(j)
      BY <1>6, <3>2 DEF Rank, Before
    <3>4. Rank(j) * Capacity \in Int  BY <3>3
    <3>5. files[j][1] = lines - Active - Rank(j) * Capacity + 1  BY <1>14, <2>1, <3>1 DEF LogInv, InPlace
    <3>6. Before(j) = 0 \/ Before(j) \in DOMAIN files  BY <1>14, <2>1, <3>1 DEF LogInv, InPlace
    <3>. DEFINE behind == Rank(j) * Capacity
    <3>7. files'[j][1] = lines' - Active' - behind + 1
      <4>. HIDE DEF behind
      <4>1. behind \in Int /\ files[j][1] = lines - Active - behind + 1  BY <3>4, <3>5 DEF behind
      <4>. QED BY <1>5, <1>13, <3>1, <4>1
    <3>. QED BY <1>3, <3>3, <3>6, <3>7
  <2>. QED BY <2>1 DEF InPlace
<1>15. Reaches(first)'
  <2>1. Before(Generations + 1)' = Before(Generations + 1)  BY <1>6 DEF Before
  <2>2. \A n \in OnDisk' : n \in first..lines'  BY <1>5, <1>8, <1>9
  <2>3. ASSUME NEW n \in first..lines'  PROVE n \in OnDisk' \/ n \in left'
    <3>1. n = lines + 1 \/ n \in first..lines  BY <1>5, <1>9
    <3>. QED BY <1>5, <1>7, <1>8, <3>1 DEF Reaches
  <2>. QED BY <1>3, <1>5, <1>7, <2>1, <2>2, <2>3 DEF Reaches
<1>16. Recent'
  <2>1. ASSUME NEW n \in 1..lines', n > lines' - Capacity  PROVE n \in OnDisk'
    <3>1. n = lines + 1 \/ (n \in 1..lines /\ n > lines - Capacity)  BY <1>5, <2>1
    <3>. QED BY <1>8, <3>1 DEF LogInv, Recent
  <2>. QED BY <2>1 DEF Recent
<1>. QED BY <1>5, <1>7, <1>12, <1>14, <1>15, <1>16 DEF LogInv

\* What the files are once file a has moved up by one: what was there is replaced,
\* and the lines of each, its length and its place among the others are kept.
MovedUp(a) ==
  /\ files' = [j \in DOMAIN files' |-> files'[j]] /\ DOMAIN files' \subseteq 0..Generations
  /\ DOMAIN files' = IF a \in DOMAIN files THEN (DOMAIN files \ {a}) \cup {a + 1} ELSE DOMAIN files
  /\ \A j \in DOMAIN files' : IF j = a + 1 /\ a \in DOMAIN files THEN files'[j] = files[a]
                              ELSE j \in DOMAIN files /\ files'[j] = files[j]
  /\ \A j \in DOMAIN files' :
       /\ files'[j] \in Seq(Nat) /\ Len(files'[j]) <= Capacity
       /\ j # 0 => Len(files'[j]) = Capacity
       /\ \A k, n \in DOMAIN files'[j] : files'[j][n] = files'[j][k] + (n - k)
  /\ \A j, i \in DOMAIN files' : j > i =>
       \A k \in DOMAIN files'[j], n \in DOMAIN files'[i] : files'[j][k] < files'[i][n]

\* A file that is renamed to the next generation moves up.
LEMMA RenamedKeeps ==
  ASSUME Shelved, NEW a \in 0..(Generations - 1),
         a \in DOMAIN files => Len(files[a]) = Capacity,
         files' = Renamed(a, a + 1)
  PROVE  /\ MovedUp(a)
         /\ \A x : x \in OnDisk' <=>
              \E j \in DOMAIN files : /\ ~(j = a + 1 /\ a \in DOMAIN files)
                                     /\ \E k \in DOMAIN files[j] : x = files[j][k]
<1>. USE LogAssumption
<1>b. PICK b \in Nat : b = a + 1  OBVIOUS
<1>0. a # b /\ b = a + 1 /\ a \in Nat /\ b \in 0..Generations  BY <1>b
<1>1. /\ files' = [j \in DOMAIN files' |-> files'[j]]
      /\ DOMAIN files' = IF a \in DOMAIN files THEN (DOMAIN files \ {a}) \cup {b} ELSE DOMAIN files
      /\ \A j \in DOMAIN files' : IF j = b /\ a \in DOMAIN files THEN files'[j] = files[a]
                                  ELSE j \in DOMAIN files /\ files'[j] = files[j]
  <2>1. CASE a \in DOMAIN files  BY <1>0, <2>1 DEF Renamed
  <2>2. CASE a \notin DOMAIN files  BY <1>0, <2>2 DEF Renamed, Shelved
  <2>. QED BY <2>1, <2>2
<1>2. DOMAIN files' \subseteq 0..Generations  BY <1>0, <1>1 DEF Shelved
\* The file that each file was.
<1>. DEFINE From(m) == IF m = b /\ a \in DOMAIN files THEN a ELSE m
<1>6. \A j \in DOMAIN files' : From(j) \in DOMAIN files /\ files'[j] = files[From(j)]  BY <1>1
<1>7. \A j, i \in DOMAIN files' : j > i => From(j) > From(i)
  <2>. SUFFICES ASSUME NEW j \in DOMAIN files', NEW i \in DOMAIN files', j > i
                PROVE  From(j) > From(i)
    OBVIOUS
  <2>1. j \in Nat /\ i \in Nat  BY <1>2
  <2>2. a \in DOMAIN files => i # a /\ j # a  BY <1>0, <1>1
  <2>3. CASE a \notin DOMAIN files  BY <2>1, <2>3
  <2>4. CASE a \in DOMAIN files /\ j = b
    <3>1. From(j) = a /\ i < a /\ i # b  BY <1>0, <2>1, <2>2, <2>4
    <3>. QED BY <1>0, <2>1, <3>1
  <2>5. CASE a \in DOMAIN files /\ j # b
    <3>1. From(j) = j  BY <2>5
    <3>2. CASE i = b
      <4>1. From(i) = a /\ a < i  BY <1>0, <2>5, <3>2
      <4>2. a < j  BY <1>0, <2>1, <3>2
      <4>. HIDE DEF From
      <4>. QED BY <1>0, <2>1, <3>1, <4>1, <4>2
    <3>3. CASE i # b
      <4>1. From(i) = i  BY <3>3
      <4>. HIDE DEF From
      <4>. QED BY <3>1, <4>1
    <3>. QED BY <3>2, <3>3
  <2>. QED BY <2>3, <2>4, <2>5
<1>8. \A i \in DOMAIN files : ~(i = b /\ a \in DOMAIN files) =>
        \E j \in DOMAIN files' : files'[j] = files[i]
  <2>. SUFFICES ASSUME NEW i \in DOMAIN files, ~(i = b /\ a \in DOMAIN files)
                PROVE  \E j \in DOMAIN files' : files'[j] = files[i]
    OBVIOUS
  <2>1. CASE i = a
    <3>1. b \in DOMAIN files' /\ files'[b] = files[a]  BY <1>1, <2>1
    <3>. QED BY <2>1, <3>1
  <2>2. CASE i # a
    <3>1. i \in DOMAIN files' /\ files'[i] = files[i]  BY <1>1, <2>2
    <3>. QED BY <3>1
  <2>. QED BY <2>1, <2>2
<1>9. \A j \in DOMAIN files' : ~(From(j) = b /\ a \in DOMAIN files)  BY <1>0
<1>3. ASSUME NEW j \in DOMAIN files'
      PROVE  /\ files'[j] \in Seq(Nat) /\ Len(files'[j]) <= Capacity
             /\ j # 0 => Len(files'[j]) = Capacity
             /\ \A k, n \in DOMAIN files'[j] : files'[j][n] = files'[j][k] + (n - k)
  <2>1. CASE j = b /\ a \in DOMAIN files  BY <1>1, <1>3, <2>1 DEF Shelved
  <2>2. CASE ~(j = b /\ a \in DOMAIN files)  BY <1>1, <1>3, <2>2 DEF Shelved
  <2>. QED BY <2>1, <2>2
<1>. HIDE DEF From
<1>4. ASSUME NEW j \in DOMAIN files', NEW i \in DOMAIN files', j > i,
             NEW k \in DOMAIN files'[j], NEW n \in DOMAIN files'[i]
      PROVE  files'[j][k] < files'[i][n]
  BY <1>4, <1>6, <1>7 DEF Shelved
<1>5. \A x : x \in OnDisk' <=>
        \E j \in DOMAIN files : /\ ~(j = b /\ a \in DOMAIN files)
                               /\ \E k \in DOMAIN files[j] : x = files[j][k]
  <2>1. ASSUME NEW x, x \in OnDisk'
        PROVE  \E j \in DOMAIN files : /\ ~(j = b /\ a \in DOMAIN files)
                                      /\ \E k \in DOMAIN files[j] : x = files[j][k]
    <3>1. PICK j \in DOMAIN files' : \E k \in DOMAIN files'[j] : x = files'[j][k]
      BY <2>1, OnDiskIsNext DEF OnDiskWhere
    <3>. QED BY <1>6, <1>9, <3>1
  <2>2. ASSUME NEW x, NEW j \in DOMAIN files, ~(j = b /\ a \in DOMAIN files),
               NEW k \in DOMAIN files[j], x = files[j][k]
        PROVE  x \in OnDisk'
    BY <1>8, <2>2, OnDiskIsNext DEF OnDiskWhere
  <2>. QED BY <2>1, <2>2
<1>10. MovedUp(a)  BY <1>0, <1>1, <1>2, <1>3, <1>4 DEF MovedUp
<1>. QED BY <1>0, <1>5, <1>10

\* Where the oldest of all generations goes, the record begins later, by a file.
LEMMA OldestGoes ==
  ASSUME LogInv, Generations \in DOMAIN files, UNCHANGED <<lines, left>>,
         NEW first \in 1..(lines + 1), Reaches(first),
         \A x : x \in OnDisk' <=> \E j \in DOMAIN files : /\ j # Generations
                                                        /\ \E k \in DOMAIN files[j] : x = files[j][k]
  PROVE  \E f \in 1..(lines + 1) : /\ \A n \in OnDisk' : n \in f..lines
                                   /\ \A n \in f..lines : n \in OnDisk' \/ n \in left
<1>. USE LogAssumption
<1>1. Shelved /\ lines \in Nat  BY DEF LogInv, Shelved
<1>2. Capacity \in DOMAIN files[Generations] /\ DOMAIN files[Generations] = 1..Capacity
  BY <1>1, FilePlaces DEF Shelved
<1>3. PICK hi \in Nat : hi = files[Generations][Capacity]  BY <1>1, <1>2, FilePlaces
<1>4. hi \in first..lines  BY <1>2, <1>3, OnDiskIs DEF OnDiskWhere, Reaches
<1>5. hi + 1 \in 1..(lines + 1)  BY <1>1, <1>3, <1>4
<1>6. ASSUME NEW n \in OnDisk'  PROVE n \in (hi + 1)..lines
  <2>1. PICK j \in DOMAIN files : j # Generations /\ \E k \in DOMAIN files[j] : n = files[j][k]  OBVIOUS
  <2>2. PICK k \in DOMAIN files[j] : n = files[j][k]  BY <2>1
  <2>3. n \in first..lines /\ n \in Nat
    <3>1. n \in OnDisk  BY <2>2, OnDiskIs DEF OnDiskWhere
    <3>. QED BY <1>1, <2>2, <3>1, FilePlaces DEF Reaches
  <2>4. Generations > j  BY <1>1, <2>1 DEF Shelved
  <2>5. hi < n  BY <1>1, <1>2, <1>3, <2>2, <2>4 DEF Shelved
  <2>. QED BY <1>1, <1>3, <2>3, <2>5
<1>7. ASSUME NEW n \in (hi + 1)..lines  PROVE n \in OnDisk' \/ n \in left
  <2>1. n \in first..lines /\ n > hi /\ n \in Nat  BY <1>1, <1>3, <1>4
  <2>2. SUFFICES ASSUME n \in OnDisk  PROVE n \in OnDisk'  BY <2>1 DEF Reaches
  <2>3. PICK j \in DOMAIN files : \E k \in DOMAIN files[j] : n = files[j][k]
    BY <2>2, OnDiskIs DEF OnDiskWhere
  <2>4. PICK k \in DOMAIN files[j] : n = files[j][k]  BY <2>3
  <2>5. ASSUME j = Generations  PROVE FALSE
    <3>1. k \in 1..Capacity  BY <1>2, <2>4, <2>5
    <3>2. \A m, i \in DOMAIN files[j] : files[j][i] = files[j][m] + (i - m)  BY <1>1 DEF Shelved
    <3>3. hi = n + (Capacity - k)  BY <1>2, <1>3, <2>4, <2>5, <3>2
    <3>. QED BY <1>3, <2>1, <3>1, <3>3
  <2>. QED BY <2>4, <2>5
<1>. QED BY <1>5, <1>6, <1>7

\* The oldest generation is removed, or cannot be and is renamed over.
LEMMA RemovalKeepsLog ==
  ASSUME LogInv, Rotate, writer.at = "remove"  PROVE LogInv'
<1>. USE LogAssumption
<1>1. Shelved /\ 0 \in DOMAIN files /\ Len(files[0]) = Capacity  BY DEF LogInv, Shelved
<1>2. /\ DOMAIN files' \in {DOMAIN files \ {Generations}, DOMAIN files}
      /\ files' = [j \in DOMAIN files' |-> files'[j]]
      /\ \A j \in DOMAIN files' : files'[j] = files[j]
  BY <1>1 DEF Rotate, Removed, Shelved
<1>3. /\ writer' = [at |-> writer'.at, i |-> writer'.i] /\ lines' = lines /\ whole' = whole /\ left' = left
      /\ writer'.at = (IF Generations > 1 THEN "shift" ELSE "rename")
      /\ writer'.i = (IF Generations > 1 THEN Generations ELSE 0)
      /\ lines \in Nat
  BY <1>1 DEF Rotate, Step, Shelved
<1>4. Hole = Generations + 1 /\ Hole' = Generations  BY <1>3 DEF Hole
<1>5. Active' = Active  BY <1>1, <1>2 DEF Active
<1>6. Shelved'
  <2>1. Generations \in 1..Generations /\ 0 \in DOMAIN files'  BY <1>1, <1>2
  <2>2. writer'.i \in 0..Generations /\ (writer'.at = "shift" => writer'.i \in 2..Generations)  BY <1>3
  <2>3. Len(files'[0]) = Capacity  BY <1>1, <1>2, <2>1
  <2>. QED BY <1>1, <1>2, <1>3, <1>4, <2>1, <2>2, <2>3 DEF Shelved
<1>7. ASSUME whole  PROVE InPlace'
  <2>1. ASSUME NEW j \in DOMAIN files', j # 0
        PROVE  /\ files'[j][1] = lines' - Active' - Rank(j)' * Capacity + 1
               /\ Before(j)' = 0 \/ Before(j)' \in DOMAIN files'
    <3>1. j \in DOMAIN files /\ files'[j] = files[j] /\ j \in 0..Generations
      BY <1>1, <1>2, <2>1 DEF Shelved
    <3>2. Rank(j)' = Rank(j) /\ Before(j)' = Before(j) /\ Before(j) = j - 1
      BY <1>4, <3>1 DEF Rank, Before
    <3>3. files[j][1] = lines - Active - Rank(j) * Capacity + 1 /\ (Before(j) = 0 \/ Before(j) \in DOMAIN files)
      BY <1>7, <2>1, <3>1 DEF LogInv, InPlace
    <3>. QED BY <1>2, <1>3, <1>5, <3>1, <3>2, <3>3
  <2>. QED BY <2>1 DEF InPlace
<1>8. PICK first \in 1..(lines + 1) : Reaches(first)  BY DEF LogInv
<1>9. Recent'
  <2>1. ASSUME NEW n \in 1..lines, n > lines - Capacity  PROVE n \in OnDisk'
    <3>1. \E k \in DOMAIN files[0] : n = files[0][k]  BY <1>1, <2>1, ActiveIsRecent
    <3>2. 0 \in DOMAIN files' /\ files'[0] = files[0]  BY <1>1, <1>2
    <3>. QED BY <3>1, <3>2, OnDiskIsNext DEF OnDiskWhere
  <2>. QED BY <1>3, <2>1 DEF Recent
\* What was before the oldest is, from now on, what the record ends at.
<1>10. ASSUME whole, Generations \in DOMAIN files
       PROVE  Before(Generations + 1)' = 0 \/ Before(Generations + 1)' \in DOMAIN files'
  <2>1. Before(Generations) = 0 \/ Before(Generations) \in DOMAIN files  BY <1>10 DEF LogInv, InPlace
  <2>2. Before(Generations) = Generations - 1 /\ Before(Generations + 1)' = Generations - 1
    BY <1>4 DEF Before
  <2>. QED BY <1>2, <2>1, <2>2
<1>11. \E f \in 1..(lines + 1) : Reaches(f)'
  <2>1. CASE Generations \in DOMAIN files /\ DOMAIN files' = DOMAIN files \ {Generations}
    <3>1. \A x : x \in OnDisk' <=> \E j \in DOMAIN files : /\ j # Generations
                                                         /\ \E k \in DOMAIN files[j] : x = files[j][k]
      BY <1>2, <2>1, OnDiskIsNext DEF OnDiskWhere
    <3>2. PICK f \in 1..(lines + 1) : /\ \A n \in OnDisk' : n \in f..lines
                                     /\ \A n \in f..lines : n \in OnDisk' \/ n \in left
      BY <1>3, <1>8, <2>1, <3>1, OldestGoes
    <3>. QED BY <1>3, <1>10, <2>1, <3>2 DEF Reaches
  <2>2. CASE Generations \notin DOMAIN files \/ DOMAIN files' = DOMAIN files
    <3>1. DOMAIN files' = DOMAIN files  BY <1>2, <2>2
    <3>2. \A x : x \in OnDisk' <=> x \in OnDisk
      BY <1>2, <3>1, OnDiskIs, OnDiskIsNext DEF OnDiskWhere
    <3>3. Before(Generations + 1) = Generations  BY <1>4 DEF Before
    <3>4. whole /\ first # 1 => Generations \in DOMAIN files  BY <1>8, <3>3 DEF Reaches
    <3>. QED BY <1>3, <1>8, <1>10, <3>2, <3>4 DEF Reaches
  <2>. QED BY <1>2, <2>1, <2>2
<1>. QED BY <1>3, <1>6, <1>7, <1>9, <1>11 DEF LogInv

\* What a rename of a rotation leaves of the record: what was in its way was the
\* oldest, or had been left there.
LEMMA RenamedRecord ==
  ASSUME LogInv, 0 \in DOMAIN files, Len(files[0]) = Capacity,
         NEW a \in 0..(Generations - 1), Hole = a + 1,
         files' = Renamed(a, a + 1), UNCHANGED <<lines, whole, left>>,
         NEW first \in 1..(lines + 1), Reaches(first)
  PROVE  /\ Recent'
         /\ \E f \in 1..(lines + 1) :
              /\ \A n \in OnDisk' : n \in f..lines
              /\ \A n \in f..lines : n \in OnDisk' \/ n \in left
              /\ f = first \/ (a + 1 = Generations /\ Generations \in DOMAIN files')
<1>. USE LogAssumption
<1>1. Shelved  BY DEF LogInv
<1>2. PICK b \in Nat : b = a + 1  OBVIOUS
<1>3. a \in DOMAIN files => Len(files[a]) = Capacity  BY <1>1 DEF Shelved
<1>4. /\ DOMAIN files' = IF a \in DOMAIN files THEN (DOMAIN files \ {a}) \cup {b} ELSE DOMAIN files
      /\ \A x : x \in OnDisk' <=>
           \E j \in DOMAIN files : /\ ~(j = b /\ a \in DOMAIN files)
                                  /\ \E k \in DOMAIN files[j] : x = files[j][k]
  <2>1. /\ MovedUp(a)
        /\ \A x : x \in OnDisk' <=>
             \E j \in DOMAIN files : /\ ~(j = a + 1 /\ a \in DOMAIN files)
                                    /\ \E k \in DOMAIN files[j] : x = files[j][k]
    BY <1>1, <1>3, RenamedKeeps
  <2>. QED BY <1>2, <2>1 DEF MovedUp
<1>5. Recent'
  <2>1. ASSUME NEW n \in 1..lines, n > lines - Capacity  PROVE n \in OnDisk'
    <3>1. \E k \in DOMAIN files[0] : n = files[0][k]  BY <2>1, ActiveIsRecent
    <3>2. 0 # b  BY <1>2
    <3>. QED BY <1>4, <3>1, <3>2
  <2>. QED BY <2>1 DEF Recent
<1>6. CASE a \in DOMAIN files /\ b = Generations /\ b \in DOMAIN files
  <2>1. \A x : x \in OnDisk' <=> \E j \in DOMAIN files : /\ j # Generations
                                                       /\ \E k \in DOMAIN files[j] : x = files[j][k]
    BY <1>4, <1>6
  <2>2. \E f \in 1..(lines + 1) : /\ \A n \in OnDisk' : n \in f..lines
                                /\ \A n \in f..lines : n \in OnDisk' \/ n \in left
    BY <1>6, <2>1, OldestGoes
  <2>3. Generations \in DOMAIN files'  BY <1>4, <1>6
  <2>. QED BY <1>2, <1>5, <1>6, <2>2, <2>3
<1>7. CASE ~(a \in DOMAIN files /\ b = Generations /\ b \in DOMAIN files)
  <2>1. ASSUME NEW n \in OnDisk'  PROVE n \in first..lines
    <3>1. n \in OnDisk  BY <1>4, OnDiskIs DEF OnDiskWhere
    <3>. QED BY <3>1 DEF Reaches
  <2>2. ASSUME NEW n \in first..lines  PROVE n \in OnDisk' \/ n \in left
    <3>1. SUFFICES ASSUME n \in OnDisk  PROVE n \in OnDisk' \/ n \in left  BY DEF Reaches
    <3>2. PICK j \in DOMAIN files : \E k \in DOMAIN files[j] : n = files[j][k]
      BY <3>1, OnDiskIs DEF OnDiskWhere
    <3>3. CASE j = b /\ a \in DOMAIN files
      <4>1. Hole \in DOMAIN files /\ Hole # Generations /\ j = Hole  BY <1>2, <1>7, <3>3
      <4>2. \A k \in DOMAIN files[Hole] : files[Hole][k] \in left  BY <1>1, <4>1 DEF Shelved
      <4>. QED BY <3>2, <4>1, <4>2
    <3>4. CASE ~(j = b /\ a \in DOMAIN files)  BY <1>4, <3>2, <3>4
    <3>. QED BY <3>3, <3>4
  <2>. QED BY <1>5, <2>1, <2>2
<1>. QED BY <1>6, <1>7

\* A generation that a shift was refused stays, in the way of the next, and its
\* lines are left there.
LEMMA RefusalKeepsLog ==
  ASSUME LogInv, NEW a \in 1..(Generations - 1), ShiftRefused(a), UNCHANGED lines,
         0 \in DOMAIN files, Len(files[0]) = Capacity, Hole' = a,
         writer' = [at |-> IF a > 1 THEN "shift" ELSE "rename", i |-> IF a > 1 THEN a ELSE 0]
  PROVE  LogInv'
<1>. USE LogAssumption
<1>1. Shelved /\ lines \in Nat  BY DEF LogInv, Shelved
<1>2. files' = files /\ lines' = lines /\ whole' = FALSE /\ a \in DOMAIN files  BY DEF ShiftRefused
<1>3. \A x : x \in left' <=> x \in left \/ \E k \in DOMAIN files[a] : x = files[a][k]
  BY DEF ShiftRefused, Held
<1>4. \A x : x \in OnDisk' <=> x \in OnDisk  BY <1>2, OnDiskIs, OnDiskIsNext DEF OnDiskWhere
<1>5. PICK first \in 1..(lines + 1) : Reaches(first)  BY DEF LogInv
<1>6. left' \subseteq 1..lines
  <2>1. ASSUME NEW k \in DOMAIN files[a]  PROVE files[a][k] \in 1..lines
    <3>1. files[a][k] \in OnDisk  BY <1>2, OnDiskIs DEF OnDiskWhere
    <3>2. files[a][k] \in first..lines  BY <1>5, <3>1 DEF Reaches
    <3>. QED BY <1>1, <3>2
  <2>. QED BY <1>1, <1>3, <2>1 DEF Shelved
<1>7. Shelved'
  <2>1. /\ writer' = [at |-> writer'.at, i |-> writer'.i] /\ writer'.i \in 0..Generations
        /\ writer'.at \in {"shift", "rename"} /\ (writer'.at = "shift" => writer'.i \in 2..Generations)
    OBVIOUS
  <2>2. \A k \in DOMAIN files'[Hole'] : files'[Hole'][k] \in left'  BY <1>2, <1>3
  <2>. DEFINE Kept(f) == /\ f = [j \in DOMAIN f |-> f[j]] /\ DOMAIN f \subseteq 0..Generations
                         /\ \A j \in DOMAIN f :
                              /\ f[j] \in Seq(Nat) /\ Len(f[j]) <= Capacity
                              /\ j # 0 => Len(f[j]) = Capacity
                              /\ \A k, n \in DOMAIN f[j] : f[j][n] = f[j][k] + (n - k)
                         /\ \A j, i \in DOMAIN f : j > i =>
                              \A k \in DOMAIN f[j], n \in DOMAIN f[i] : f[j][k] < f[i][n]
  <2>3. Kept(files)  BY <1>1 DEF Shelved
  <2>4. Kept(files')
    <3>. HIDE DEF Kept
    <3>. QED BY <1>2, <2>3
  <2>. QED BY <1>1, <1>2, <1>6, <2>1, <2>2, <2>4 DEF Shelved
<1>8. Recent'  BY <1>2, <1>4 DEF LogInv, Recent
<1>9. Reaches(first)'
  <2>1. \A n \in OnDisk' : n \in first..lines'  BY <1>2, <1>4, <1>5 DEF Reaches
  <2>2. \A n \in first..lines' : n \in OnDisk' \/ n \in left'  BY <1>2, <1>3, <1>4, <1>5 DEF Reaches
  <2>. QED BY <1>2, <2>1, <2>2 DEF Reaches
<1>. QED BY <1>2, <1>5, <1>7, <1>8, <1>9 DEF LogInv

\* A generation moves up by one, or is refused: what a rotation renames to next is
\* below it.
LEMMA ShiftKeepsLog ==
  ASSUME LogInv, Rotate, writer.at = "shift"  PROVE LogInv'
<1>. USE LogAssumption
<1>1. Shelved /\ 0 \in DOMAIN files /\ Len(files[0]) = Capacity  BY DEF LogInv, Shelved
<1>2. PICK i \in 2..Generations : i = writer.i  BY <1>1 DEF Shelved
<1>3. PICK a \in Nat : a = i - 1  BY <1>2
<1>4. a \in 1..(Generations - 1) /\ i = a + 1 /\ a \in 0..(Generations - 1)  BY <1>2, <1>3
<1>5. Hole = a + 1  BY <1>2, <1>4 DEF Hole
<1>6. (files' = Renamed(a, a + 1) /\ UNCHANGED <<whole, left>>) \/ ShiftRefused(a)
  BY <1>2, <1>3, <1>4 DEF Rotate, Shifted
<1>7. /\ writer' = [at |-> IF a > 1 THEN "shift" ELSE "rename", i |-> IF a > 1 THEN a ELSE 0]
      /\ lines' = lines /\ lines \in Nat
  <2>1. lines' = lines /\ lines \in Nat  BY <1>1 DEF Rotate, Shelved
  <2>2. IF writer.i > 2 THEN Step("shift", writer.i - 1) ELSE Step("rename", 0)  BY DEF Rotate
  <2>. QED BY <1>2, <1>3, <2>1, <2>2 DEF Step
<1>10. Hole' = a  BY <1>4, <1>7 DEF Hole
<1>. SUFFICES ASSUME files' = Renamed(a, a + 1), UNCHANGED <<whole, left>>  PROVE LogInv'
  BY <1>1, <1>4, <1>6, <1>7, <1>10, RefusalKeepsLog
<1>0. a \in DOMAIN files => Len(files[a]) = Capacity  BY <1>1, <1>4 DEF Shelved
<1>8. MovedUp(a)  BY <1>0, <1>1, <1>4, RenamedKeeps
<1>9. /\ writer' = [at |-> writer'.at, i |-> writer'.i] /\ lines' = lines /\ whole' = whole /\ left' = left
      /\ writer'.at = (IF a > 1 THEN "shift" ELSE "rename") /\ writer'.i = (IF a > 1 THEN a ELSE 0)
  BY <1>7
<1>11. 0 \in DOMAIN files' /\ files'[0] = files[0] /\ a \notin DOMAIN files'  BY <1>1, <1>4, <1>8 DEF MovedUp
<1>12. Active' = Active  BY <1>1, <1>11 DEF Active
<1>13. Shelved'
  <2>1. writer'.i \in 0..Generations /\ (writer'.at = "shift" => writer'.i \in 2..Generations)  BY <1>4, <1>9
  <2>2. Len(files'[0]) = Capacity /\ Hole' \notin DOMAIN files'  BY <1>1, <1>10, <1>11
  <2>. QED BY <1>1, <1>8, <1>9, <1>11, <2>1, <2>2 DEF MovedUp, Shelved
\* What follows a generation above the hole is still there.
<1>14. ASSUME NEW j \in Nat, j > a, j # a + 1, Before(j) = 0 \/ Before(j) \in DOMAIN files
       PROVE  Before(j)' = 0 \/ Before(j)' \in DOMAIN files'
  <2>1. CASE j = a + 2
    <3>1. Before(j) = a /\ Before(j)' = a + 1  BY <1>4, <1>5, <1>10, <2>1 DEF Before
    <3>. QED BY <1>4, <1>8, <1>14, <3>1 DEF MovedUp
  <2>2. CASE j # a + 2
    <3>1. Before(j) = j - 1 /\ Before(j)' = j - 1 /\ j - 1 # a /\ j - 1 # 0
      BY <1>4, <1>5, <1>10, <1>14, <2>2 DEF Before
    <3>. QED BY <1>8, <1>14, <3>1 DEF MovedUp
  <2>. QED BY <2>1, <2>2
<1>15. ASSUME whole  PROVE InPlace'
  <2>1. ASSUME NEW j \in DOMAIN files', j # 0
        PROVE  /\ files'[j][1] = lines' - Active' - Rank(j)' * Capacity + 1
               /\ Before(j)' = 0 \/ Before(j)' \in DOMAIN files'
    <3>1. j \in Nat  BY <1>8 DEF MovedUp
    <3>2. CASE j = a + 1
      \* Of a log all of whose shifts were made, the one below is there to take its place.
      <4>0. a \in DOMAIN files
        <5>1. SUFFICES ASSUME a \notin DOMAIN files  PROVE FALSE  OBVIOUS
        <5>2. j \in DOMAIN files  BY <1>8, <3>2, <5>1 DEF MovedUp
        <5>3. Hole = Generations /\ Before(j) = a  BY <1>1, <1>4, <1>5, <1>15, <3>2, <5>2 DEF Before, Shelved
        <5>4. Before(j) = 0 \/ Before(j) \in DOMAIN files  BY <1>15, <2>1, <5>2 DEF LogInv, InPlace
        <5>. QED BY <1>4, <5>1, <5>3, <5>4
      <4>1. files'[j] = files[a]  BY <1>8, <3>2, <4>0 DEF MovedUp
      <4>2. /\ files[a][1] = lines - Active - Rank(a) * Capacity + 1
            /\ Before(a) = 0 \/ Before(a) \in DOMAIN files
        BY <1>4, <1>15, <4>0 DEF LogInv, InPlace
      <4>3. Rank(j)' = a /\ Rank(a) = a  BY <1>4, <1>5, <1>10, <3>2 DEF Rank
      <4>4. Before(j)' = a - 1 /\ Before(a) = a - 1  BY <1>4, <1>5, <1>10, <3>2 DEF Before
      <4>5. a - 1 # a  BY <1>4
      <4>. QED BY <1>8, <1>9, <1>12, <4>0, <4>1, <4>2, <4>3, <4>4, <4>5 DEF MovedUp
    <3>3. CASE j # a + 1
      <4>1. j \in DOMAIN files /\ files'[j] = files[j] /\ j # a  BY <1>8, <1>11, <3>3 DEF MovedUp
      <4>2. /\ files[j][1] = lines - Active - Rank(j) * Capacity + 1
            /\ Before(j) = 0 \/ Before(j) \in DOMAIN files
        BY <1>15, <2>1, <4>1 DEF LogInv, InPlace
      <4>3. Rank(j)' = Rank(j)  BY <1>4, <1>5, <1>10, <3>1, <3>3, <4>1 DEF Rank
      <4>4. Before(j)' = 0 \/ Before(j)' \in DOMAIN files'
        <5>1. CASE j > a  BY <1>14, <3>1, <3>3, <4>2, <5>1
        <5>2. CASE j < a
          <6>1. Before(j) = j - 1 /\ Before(j)' = j - 1 /\ j - 1 # a
            BY <1>4, <1>5, <1>10, <3>1, <5>2 DEF Before
          <6>. QED BY <1>8, <4>2, <6>1 DEF MovedUp
        <5>. QED BY <1>4, <3>1, <4>1, <5>1, <5>2
      <4>. QED BY <1>9, <1>12, <4>1, <4>2, <4>3, <4>4
    <3>. QED BY <3>2, <3>3
  <2>. QED BY <2>1 DEF InPlace
<1>16. PICK first \in 1..(lines + 1) : Reaches(first)  BY DEF LogInv
<1>17. Recent' /\ \E f \in 1..(lines + 1) :
                   /\ \A n \in OnDisk' : n \in f..lines
                   /\ \A n \in f..lines : n \in OnDisk' \/ n \in left
                   /\ f = first \/ (a + 1 = Generations /\ Generations \in DOMAIN files')
  BY <1>1, <1>4, <1>5, <1>9, <1>16, RenamedRecord
<1>18. PICK f \in 1..(lines + 1) :
         /\ \A n \in OnDisk' : n \in f..lines
         /\ \A n \in f..lines : n \in OnDisk' \/ n \in left
         /\ f = first \/ (a + 1 = Generations /\ Generations \in DOMAIN files')
  BY <1>17
<1>19. Reaches(f)'
  <2>1. ASSUME whole, f # 1
        PROVE  Before(Generations + 1)' = 0 \/ Before(Generations + 1)' \in DOMAIN files'
    <3>1. CASE f = first
      <4>1. Before(Generations + 1) = 0 \/ Before(Generations + 1) \in DOMAIN files
        BY <1>16, <2>1, <3>1 DEF Reaches
      <4>. QED BY <1>4, <1>14, <4>1
    <3>2. CASE a + 1 = Generations /\ Generations \in DOMAIN files'
      <4>1. Before(Generations + 1)' = Generations  BY <1>4, <1>10, <3>2 DEF Before
      <4>. QED BY <3>2, <4>1
    <3>. QED BY <1>18, <3>1, <3>2
  <2>. QED BY <1>9, <1>18, <2>1 DEF Reaches
<1>. QED BY <1>9, <1>13, <1>15, <1>17, <1>19 DEF LogInv

\* The active log becomes the first generation.
LEMMA RenameKeepsLog ==
  ASSUME LogInv, Rotate, writer.at = "rename"  PROVE LogInv'
<1>. USE LogAssumption
<1>1. Shelved /\ 0 \in DOMAIN files /\ Len(files[0]) = Capacity  BY DEF LogInv, Shelved
<1>2. Hole = 0 + 1  BY DEF Hole
<1>3. files' = Renamed(0, 0 + 1) /\ 0 \in 0..(Generations - 1)
  BY <1>1, <1>2 DEF Rotate, Shelved
<1>4. MovedUp(0)  BY <1>1, <1>3, RenamedKeeps
<1>5. DOMAIN files' = (DOMAIN files \ {0}) \cup {1} /\ files'[1] = files[0]  BY <1>1, <1>4 DEF MovedUp
<1>6. writer' = [at |-> "reopen", i |-> 0] /\ lines' = lines /\ whole' = whole /\ left' = left /\ lines \in Nat
  BY <1>1 DEF Rotate, Step, Shelved
<1>7. Hole' = Generations + 1  BY <1>6 DEF Hole
<1>8. Active = Capacity /\ Active' = 0  BY <1>1, <1>5 DEF Active
<1>9. Shelved'  BY <1>1, <1>4, <1>5, <1>6, <1>7 DEF MovedUp, Shelved
<1>10. ASSUME whole  PROVE InPlace'
  <2>1. ASSUME NEW j \in DOMAIN files', j # 0
        PROVE  /\ files'[j][1] = lines' - Active' - Rank(j)' * Capacity + 1
               /\ Before(j)' = 0 \/ Before(j)' \in DOMAIN files'
    <3>1. j \in 1..Generations  BY <1>4, <2>1 DEF MovedUp
    <3>2. Rank(j)' = j /\ Before(j)' = j - 1  BY <1>7, <3>1 DEF Rank, Before
    <3>3. CASE j = 1
      <4>1. 1 \in DOMAIN files[0] /\ Capacity \in DOMAIN files[0] /\ files[0][1] \in Nat
        BY <1>1, FilePlaces
      <4>2. files[0][Capacity] = files[0][1] + (Capacity - 1)  BY <1>1, <4>1 DEF Shelved
      <4>3. files[0][Capacity] = lines  BY <1>1, LastIsActive
      <4>4. files'[j][1] = lines - Capacity + 1  BY <1>5, <1>6, <3>3, <4>1, <4>2, <4>3
      <4>5. lines' - Active' - Rank(j)' * Capacity + 1 = lines - Capacity + 1  BY <1>6, <1>8, <3>2, <3>3
      <4>. QED BY <3>2, <3>3, <4>4, <4>5
    <3>4. CASE j # 1
      <4>1. j \in DOMAIN files /\ files'[j] = files[j]  BY <1>4, <3>4 DEF MovedUp
      <4>2. /\ files[j][1] = lines - Active - Rank(j) * Capacity + 1
            /\ Before(j) = 0 \/ Before(j) \in DOMAIN files
        BY <1>10, <2>1, <4>1 DEF LogInv, InPlace
      <4>3. Rank(j) = j - 1  BY <1>2, <3>1, <3>4 DEF Rank
      <4>4. j * Capacity = (j - 1) * Capacity + Capacity  BY <3>1, OneRankMore
      <4>5. (j - 1) * Capacity \in Int  BY <3>1
      <4>6. files'[j][1] = lines' - Active' - j * Capacity + 1
        <5>. DEFINE behind == (j - 1) * Capacity
        <5>1. j * Capacity = behind + Capacity /\ behind \in Int  BY <4>4, <4>5
        <5>2. files[j][1] = lines - Capacity - behind + 1  BY <1>8, <4>2, <4>3
        <5>. HIDE DEF behind
        <5>. QED BY <1>6, <1>8, <4>1, <5>1, <5>2
      <4>7. Before(j)' = 0 \/ Before(j)' \in DOMAIN files'
        <5>1. j = 2 => Before(j)' \in DOMAIN files'  BY <1>5, <3>2
        <5>2. j # 2 => Before(j) = j - 1 /\ j - 1 # 0  BY <1>2, <3>1, <3>4 DEF Before
        <5>. QED BY <1>5, <3>2, <4>2, <5>1, <5>2
      <4>. QED BY <3>2, <4>6, <4>7
    <3>. QED BY <3>3, <3>4
  <2>. QED BY <2>1 DEF InPlace
<1>11. PICK first \in 1..(lines + 1) : Reaches(first)  BY DEF LogInv
<1>12. Recent' /\ \E f \in 1..(lines + 1) :
                   /\ \A n \in OnDisk' : n \in f..lines
                   /\ \A n \in f..lines : n \in OnDisk' \/ n \in left
                   /\ f = first \/ (0 + 1 = Generations /\ Generations \in DOMAIN files')
  BY <1>1, <1>2, <1>3, <1>6, <1>11, RenamedRecord
<1>13. PICK f \in 1..(lines + 1) :
         /\ \A n \in OnDisk' : n \in f..lines
         /\ \A n \in f..lines : n \in OnDisk' \/ n \in left
         /\ f = first \/ (0 + 1 = Generations /\ Generations \in DOMAIN files')
  BY <1>12
<1>14. Reaches(f)'
  <2>1. ASSUME whole, f # 1
        PROVE  Before(Generations + 1)' = 0 \/ Before(Generations + 1)' \in DOMAIN files'
    <3>1. Before(Generations + 1)' = Generations  BY <1>7 DEF Before
    <3>2. CASE f = first
      <4>1. Before(Generations + 1) = 0 \/ Before(Generations + 1) \in DOMAIN files
        BY <1>11, <2>1, <3>2 DEF Reaches
      <4>2. Generations = 1 \/ Before(Generations + 1) = Generations  BY <1>2 DEF Before
      <4>. QED BY <1>5, <3>1, <4>1, <4>2
    <3>3. CASE Generations \in DOMAIN files'  BY <3>1, <3>3
    <3>. QED BY <1>13, <3>2, <3>3
  <2>. QED BY <1>6, <1>13, <2>1 DEF Reaches
<1>. QED BY <1>6, <1>9, <1>10, <1>12, <1>14 DEF LogInv

\* No step of a rotation loses, repeats or reorders a line, but those that lose the
\* oldest, or what a shift that was refused has left in the way.
LEMMA RotateKeepsLog == ASSUME LogInv, Rotate  PROVE LogInv'
<1>. USE LogAssumption
<1>1. Shelved  BY DEF LogInv
<1>2. CASE writer.at = "close"
  <2>1. /\ writer' = [at |-> "remove", i |-> 0] /\ files' = files
        /\ lines' = lines /\ whole' = whole /\ left' = left
    BY <1>2 DEF Rotate, Step
  <2>2. Hole' = Generations + 1 /\ Hole = Generations + 1  BY <1>2, <2>1 DEF Hole
  <2>3. OnDisk' = OnDisk /\ Active' = Active  BY <2>1 DEF OnDisk, Held, Active
  <2>4. Shelved'  BY <1>1, <1>2, <2>1, <2>2 DEF Shelved
  <2>5. whole' => InPlace'  BY <2>1, <2>2, <2>3 DEF LogInv, InPlace, Rank, Before
  <2>6. ASSUME NEW first, Reaches(first)  PROVE Reaches(first)'
    BY <2>1, <2>2, <2>3, <2>6 DEF Reaches, Before
  <2>7. Recent'  BY <2>1, <2>3 DEF LogInv, Recent
  <2>. QED BY <2>1, <2>4, <2>5, <2>6, <2>7 DEF LogInv
<1>3. CASE writer.at = "reopen"
  <2>1. /\ files' = Created /\ writer' = [at |-> "append", i |-> 0]
        /\ lines' = lines /\ whole' = whole /\ left' = left
    BY <1>3 DEF Rotate, Step
  <2>2. Hole = Generations + 1 /\ 0 \notin DOMAIN files  BY <1>1, <1>3 DEF Hole, Shelved
  <2>. QED BY <2>1, <2>2, CreatedKeepsLog
<1>. QED BY <1>2, <1>3, RemovalKeepsLog, ShiftKeepsLog, RenameKeepsLog DEF Rotate

\* A deletion that starts opens the log there is.
LEMMA OpenKeepsLog == ASSUME LogInv, OpenLog, writer = Closed  PROVE LogInv'
BY CreatedKeepsLog DEF OpenLog, Closed, Ready, Hole

\* The invariant keeps the types.
LEMMA LogInvTypes == LogInv => LogTypeOK
BY DEF LogInv, Shelved, LogTypeOK

\* A log no rotation of which was cut short or refused a shift has lost a line only
\* when all its generations were full.
LEMMA AllGenerationsHold ==
  ASSUME LogInv, whole, NEW first \in 1..(lines + 1), Reaches(first), first # 1
  PROVE  lines - first + 1 >= Generations * Capacity
<1>. USE LogAssumption
<1>1. Shelved /\ InPlace /\ lines \in Nat  BY DEF LogInv, Shelved
<1>. DEFINE g == Before(Generations + 1)
<1>2. g = 0 \/ g \in DOMAIN files  BY DEF Reaches
<1>3. lines - first + 1 >= Capacity
  <2>1. \A n \in 1..lines : n > lines - Capacity => n \in first..lines  BY DEF LogInv, Recent, Reaches
  <2>2. CASE lines < Capacity
    <3>1. lines = 0 \/ 1 \in first..lines  BY <1>1, <2>1, <2>2
    <3>. QED BY <1>1, <3>1
  <2>3. CASE lines >= Capacity
    <3>1. lines - Capacity + 1 \in first..lines  BY <1>1, <2>1, <2>3
    <3>. QED BY <1>1, <3>1
  <2>. QED BY <1>1, <2>2, <2>3
<1>4. Hole \in Nat /\ (Hole # Generations + 1 => Active = Capacity /\ Hole <= Generations)
  BY <1>1 DEF Hole, Shelved, Active
<1>5. CASE g = 0
  <2>1. Generations = 1  BY <1>4, <1>5 DEF Before
  <2>. QED BY <1>3, <2>1
<1>6. CASE g # 0
  <2>1. g \in DOMAIN files /\ g \in Nat  BY <1>1, <1>2, <1>6 DEF Shelved
  <2>2. files[g][1] = lines - Active - Rank(g) * Capacity + 1  BY <1>1, <1>6, <2>1 DEF InPlace
  <2>3. Len(files[g]) = Capacity /\ 1 \in DOMAIN files[g] /\ files[g][1] \in Nat
    BY <1>1, <1>6, <2>1, FilePlaces DEF Shelved
  <2>4. files[g][1] \in first..lines
    BY <2>1, <2>3, OnDiskIs DEF OnDiskWhere, Reaches
  <2>5. Active \in Nat  BY <1>1, FilePlaces DEF Active
  <2>6. \/ Rank(g) = Generations
        \/ Rank(g) = Generations - 1 /\ Active = Capacity
    <3>1. CASE Hole = Generations + 1  BY <3>1 DEF Rank, Before
    <3>2. CASE Hole = Generations  BY <1>4, <3>2 DEF Rank, Before
    <3>3. CASE Hole < Generations  BY <1>4, <3>3 DEF Rank, Before
    <3>. QED BY <1>4, <3>1, <3>2, <3>3
  <2>. HIDE DEF g
  <2>7. CASE Rank(g) = Generations
    <3>. DEFINE all == Generations * Capacity
    <3>1. all \in Int /\ files[g][1] = lines - Active - all + 1  BY <2>2, <2>7
    <3>. HIDE DEF all
    <3>2. lines - first + 1 >= all  BY <1>1, <2>3, <2>4, <2>5, <3>1
    <3>. QED BY <3>2 DEF all
  <2>8. CASE Rank(g) = Generations - 1 /\ Active = Capacity
    <3>. DEFINE most == (Generations - 1) * Capacity
    <3>1. most \in Int /\ files[g][1] = lines - Capacity - most + 1  BY <2>2, <2>8
    <3>2. Generations * Capacity = most + Capacity  BY OneRankMore
    <3>. HIDE DEF most
    <3>3. lines - first + 1 >= most + Capacity  BY <1>1, <2>3, <2>4, <3>1
    <3>. QED BY <3>2, <3>3
  <2>. QED BY <2>6, <2>7, <2>8
<1>. QED BY <1>5, <1>6

\* The record is the end of all that was recorded, in its order, but for what a shift
\* that was refused has left in the way.
LEMMA LogInvTail == LogInv => RecordIsATail
<1>. SUFFICES ASSUME LogInv  PROVE RecordIsATail  OBVIOUS
<1>1. Shelved  BY DEF LogInv
<1>2. ASSUME NEW j \in DOMAIN files, NEW i \in DOMAIN files, NEW k \in DOMAIN files[j],
             NEW n \in DOMAIN files[i], Older(j, k, i, n)
      PROVE  files[j][k] < files[i][n]
  <2>1. CASE j > i  BY <1>1, <2>1 DEF Shelved
  <2>2. CASE j = i /\ k < n
    <3>1. files[j][n] = files[j][k] + (n - k)  BY <1>1, <2>2 DEF Shelved
    <3>2. k \in Nat /\ n \in Nat /\ files[j][k] \in Nat  BY <1>1, <2>2, FilePlaces
    <3>. QED BY <2>2, <3>1, <3>2
  <2>. QED BY <1>2, <2>1, <2>2 DEF Older
<1>3. PICK first \in 1..(lines + 1) : Reaches(first)  BY DEF LogInv
<1>4. first = 1 \/ lines - first + 1 >= Generations * Capacity \/ ~whole
  BY <1>3, AllGenerationsHold
<1>5. OnDisk \subseteq first..lines /\ (first..lines) \ OnDisk \subseteq left  BY <1>3 DEF Reaches
<1>6. \A n \in 1..lines : n > lines - Capacity => n \in OnDisk  BY DEF LogInv, Recent
<1>. QED BY <1>2, <1>3, <1>4, <1>5, <1>6 DEF RecordIsATail

Fate == {"none", "job", "pending", "done", "gone", "skipped", "unmatched", "failed"}
Walking == {"walk", "wire", "logging"}

\* The types, with what keeps the breaker's count within its limit and the log's
\* writer where the walk expects it: a deletion's is open while it walks, between
\* its lines, and in a line only while that line is written.
Typed ==
  /\ there \subseteq Run
  /\ inv \in Invocations /\ pc \in {"idle", "crawl", "resolve", "plan"} \cup Walking
  /\ queue \subseteq Repo /\ named \cup todo \cup frozen \cup unreached \cup about \subseteq Run
  /\ fate \in [Run -> Fate]
  /\ streak \in 0..Breaker /\ stop \in {"no", "cancelled", "log", "breaker"}
  /\ code \in {Running, 0, 1, 2} /\ interrupted \in BOOLEAN
  /\ hit \cup unlogged \subseteq Run /\ excuses \in Nat
  /\ stop = "no" => streak < Breaker
  /\ pc \notin {"idle", "walk", "logging"} => stop = "no"
  /\ pc = "logging" => inv.verb = "delete" /\ stop \in {"no", "breaker"} /\ (Rotating \/ writer.at = "append")
  /\ pc \notin Walking \/ inv.verb # "delete" => writer = Closed
  /\ pc \in {"walk", "wire"} /\ inv.verb = "delete" /\ stop # "log" => writer = Ready
  /\ pc = "walk" => writer.at \in {"closed", "ready", "failed"}

\* What the words of the command line select, and that nothing else is held: each
\* member is one they asked for, each request's one that nothing skips.
Selected ==
  /\ pc # "idle" => ~Refused(inv) /\ code = Running
  /\ pc = "crawl" => inv.ids = {}
  /\ queue \subseteq Scope(inv)
  /\ named \subseteq Asked(inv)
  /\ todo \cup unreached \cup about \cup hit \subseteq named
  /\ \A r \in Run : fate[r] # "none" => r \in named
  /\ \A m, n \in about : m = n
  /\ pc = "wire" => about # {} /\ \A r \in about : SkipOf(r) = "none"

\* A set is walked, and a request takes effect, on the word that confirmed it.
Confirmed ==
  /\ pc \in {"crawl", "resolve", "plan"} => hit = {} /\ about = {}
  /\ pc \in Walking =>
       /\ ~inv.dry /\ (inv.yes \/ (inv.verb = "rerun" /\ \A m, n \in todo \cup about \cup hit : m = n))
       /\ \A r \in todo \cup about : RepoOf[r] \in Known
  /\ hit # {} => ~inv.dry /\ (inv.yes \/ (inv.verb = "rerun" /\ \A m, n \in hit : m = n))
  /\ \A r \in hit : Capability[RepoOf[r]] = "writable" /\ RepoOf[r] \in Known
  /\ inv.verb = "delete" => hit \subseteq frozen

\* Where each Run that is selected has got to, phase by phase.
Answered == {"done", "gone", "skipped", "unmatched", "failed"}
Followed ==
  /\ pc \in {"crawl", "resolve"} => unreached = {}
  /\ pc \in {"crawl", "resolve", "plan"} => \A r \in Run : fate[r] \in {"none", "job", "unmatched"}
  /\ pc = "crawl" => \A r \in Run : fate[r] = "none"
  /\ pc = "resolve" => /\ \A r \in named : r \in todo \/ fate[r] \in {"job", "unmatched"}
                       /\ \A r \in todo : fate[r] = "none"
  /\ pc = "plan" => \A r \in named : r \in todo \/ r \in unreached \/ fate[r] = "unmatched"
  /\ pc \in Walking =>
       /\ \A r \in named : \/ r \in todo \/ r \in unreached \/ fate[r] \in Answered
                           \/ r \in about /\ (pc = "wire" \/ stop = "cancelled")
       /\ todo \cap about = {} /\ \A r \in todo : fate[r] = "pending"
       /\ pc = "wire" => \A r \in about : fate[r] = "pending"
  /\ stop = "cancelled" => interrupted /\ \E r \in named : fate[r] = "pending"
  /\ inv.verb = "delete" => \A r \in Run : fate[r] = "done" => r \notin there

\* The deletions that are on no line, but for the one whose line is being written.
Recorded == Cardinality(unlogged \ (IF pc = "logging" THEN about ELSE {})) <= excuses

CommandInv == Typed /\ Selected /\ Confirmed /\ Followed /\ ExitTellsAll /\ Recorded /\ LogInv

\* What an invocation's words can be.
LEMMA WordsAre ==
  ASSUME NEW v \in Invocations
  PROVE  /\ v.verb \in {"delete", "cancel", "rerun"} /\ v.select \in {"none", "filter", "all"}
         /\ v.ids \subseteq Run /\ v.job \in {"no", "id", "name", "both"}
         /\ \A r \in v.ids : RepoOf[r] = Here
         /\ v.verb # "rerun" => v.job = "no"
         /\ v.verb = "delete" => v.ids = {}
         /\ v.dry \in BOOLEAN /\ v.yes \in BOOLEAN /\ v.wide \in BOOLEAN
         /\ Scope(v) \subseteq Repo /\ Asked(v) \subseteq Run
BY CommandAssumption DEF Scope, Asked

\* Of a set with at most one in common, no more than one is left to count.
LEMMA AtMostOneMore ==
  ASSUME NEW S \in SUBSET Run, NEW A \in SUBSET Run, \A m, n \in A : m = n, NEW k \in Nat,
         Cardinality(S \ A) <= k
  PROVE  Cardinality(S) <= k + 1
<1>1. IsFiniteSet(S) /\ IsFiniteSet(S \ A)  BY PlanAssumption, FS_Subset
<1>2. Cardinality(S) \in Nat /\ Cardinality(S \ A) \in Nat  BY <1>1, FS_CardinalityType
<1>3. CASE S \cap A = {}
  <2>1. S \ A = S  BY <1>3
  <2>. QED BY <1>2, <2>1
<1>4. CASE S \cap A # {}
  <2>1. PICK m \in S \cap A : TRUE  BY <1>4
  <2>2. S \ A = S \ {m}  BY <2>1
  <2>3. Cardinality(S \ {m}) = Cardinality(S) - 1  BY <1>1, <2>1, FS_RemoveElement
  <2>4. Cardinality(S \ A) = Cardinality(S) - 1  BY <2>2, <2>3
  <2>. QED BY <1>2, <2>4
<1>. QED BY <1>3, <1>4

\* Fewer are counted.
LEMMA FewerCounted ==
  ASSUME NEW S \in SUBSET Run, NEW T \in SUBSET S, NEW k \in Nat, Cardinality(S) <= k
  PROVE  Cardinality(T) <= k
<1>1. IsFiniteSet(S)  BY PlanAssumption, FS_Subset
<1>2. Cardinality(T) <= Cardinality(S)  BY <1>1, FS_Subset
<1>3. Cardinality(S) \in Nat /\ Cardinality(T) \in Nat  BY <1>1, FS_Subset, FS_CardinalityType
<1>. QED BY <1>2, <1>3

\* Nothing has been invoked.
LEMMA InitCommandInv == CommandInit => CommandInv
<1>. SUFFICES ASSUME CommandInit  PROVE CommandInv  OBVIOUS
<1>1. inv \in Invocations  BY CommandAssumption DEF CommandInit
<1>2. Typed
  <2>1. fate \in [Run -> Fate]  BY DEF CommandInit, Fresh, Fate
  <2>2. streak \in 0..Breaker /\ streak < Breaker  BY CommandAssumption DEF CommandInit
  <2>3. writer = Closed  BY DEF CommandInit, LogInit
  <2>. QED BY <1>1, <2>1, <2>2, <2>3 DEF Typed, CommandInit, Walking
<1>3. Selected  BY DEF Selected, CommandInit, Fresh
<1>4. Confirmed  BY DEF Confirmed, CommandInit, Walking
<1>5. Followed  BY DEF Followed, CommandInit, Fresh, Walking
<1>6. ExitTellsAll  BY DEF ExitTellsAll, CommandInit
<1>7. Recorded
  <2>1. unlogged \ (IF pc = "logging" THEN about ELSE {}) = {} /\ excuses = 0  BY DEF CommandInit
  <2>. QED BY <2>1, FS_EmptySet DEF Recorded
<1>8. LogInv  BY InitLogInv DEF CommandInit
<1>. QED BY <1>2, <1>3, <1>4, <1>5, <1>6, <1>7, <1>8 DEF CommandInv

\* An invocation starts afresh, or is refused before it asks for anything.
LEMMA InvokeKeeps == ASSUME CommandInv, Invoke  PROVE CommandInv'
<1>0. /\ pc = "idle" /\ inv' \in Invocations /\ pc' \in {"idle", "crawl", "resolve", "plan"}
      /\ interrupted' = FALSE /\ unreached' = {} /\ hit' = {} /\ frozen' = {} /\ about' = {}
      /\ fate' = Fresh /\ streak' = 0 /\ stop' = "no" /\ named' = inv'.ids /\ todo' = inv'.ids
      /\ queue' = (IF inv'.ids = {} THEN Scope(inv') ELSE {})
      /\ UNCHANGED <<there, unlogged, excuses, logVars>>
  BY DEF Invoke, Exit
<1>1. \/ pc' = "idle" /\ code' = 1
      \/ /\ ~Refused(inv') /\ code' = Running
         /\ pc' = IF inv'.ids = {} THEN "crawl" ELSE IF inv'.job = "name" THEN "resolve" ELSE "plan"
  BY DEF Invoke, Exit
<1>2. writer' = writer /\ writer = Closed  BY <1>0 DEF logVars, CommandInv, Typed, Walking
<1>3. inv'.ids \subseteq Run /\ Scope(inv') \subseteq Repo /\ inv'.ids \subseteq Asked(inv')
  BY <1>0, WordsAre DEF Asked
<1>4. Typed'
  <2>1. fate' \in [Run -> Fate]  BY <1>0 DEF Fresh, Fate
  <2>2. streak' \in 0..Breaker /\ streak' < Breaker  BY <1>0, CommandAssumption
  <2>3. code' \in {Running, 0, 1, 2} /\ excuses \in Nat /\ unlogged \subseteq Run /\ there \subseteq Run
    BY <1>1 DEF CommandInv, Typed
  <2>. QED BY <1>0, <1>2, <1>3, <2>1, <2>2, <2>3 DEF Typed, Walking
<1>5. Selected'  BY <1>0, <1>1, <1>3 DEF Selected, Fresh
<1>6. Confirmed'  BY <1>0 DEF Confirmed, Walking
<1>7. Followed'
  <2>1. \A r \in Run : fate'[r] = "none"  BY <1>0 DEF Fresh
  <2>. QED BY <1>0, <1>3, <2>1 DEF Followed, Walking
<1>8. ExitTellsAll'  BY <1>0, <1>1 DEF ExitTellsAll, Running
<1>9. Recorded'  BY <1>0 DEF CommandInv, Recorded
<1>10. LogInv'  BY <1>0, SameLog DEF CommandInv
<1>. QED BY <1>4, <1>5, <1>6, <1>7, <1>8, <1>9, <1>10 DEF CommandInv

\* A listing adds the Runs that the words select, and no others.
LEMMA CrawlKeeps == ASSUME CommandInv, Crawl  PROVE CommandInv'
<1>0. /\ pc = "crawl" /\ UNCHANGED <<there, inv, interrupted, unreached, walkVars, logVars, count>>
      /\ Typed /\ Selected /\ Confirmed /\ Followed /\ Recorded /\ LogInv
  BY DEF Crawl, CommandInv
<1>1. LogInv'  BY <1>0, SameLog
<1>2. CASE queue = {} /\ pc' = (IF inv.job = "name" THEN "resolve" ELSE "plan")
           /\ todo' = named /\ UNCHANGED <<queue, named, frozen, code>>
  <2>1. Typed'  BY <1>0, <1>2 DEF Typed, Walking, walkVars, logVars
  <2>2. Selected'  BY <1>0, <1>2 DEF Selected, walkVars, Scope, Asked, Refused
  <2>3. Confirmed'  BY <1>0, <1>2 DEF Confirmed, Walking, walkVars
  <2>4. Followed'  BY <1>0, <1>2 DEF Followed, Walking, walkVars, Typed
  <2>5. ExitTellsAll'  BY <1>2 DEF ExitTellsAll
  <2>6. Recorded'  BY <1>0, <1>2 DEF Recorded, walkVars
  <2>. QED BY <1>1, <2>1, <2>2, <2>3, <2>4, <2>5, <2>6 DEF CommandInv
<1>3. CASE queue # {} /\ Exit(OnError) /\ UNCHANGED <<queue, named, todo, frozen>>
  <2>0. pc' = "idle" /\ code' = (IF inv.verb # "delete" /\ interrupted THEN 2 ELSE 1)
    BY <1>3 DEF Exit, OnError
  <2>1. Typed'  BY <1>0, <1>3, <2>0 DEF Typed, Walking, walkVars, logVars
  <2>2. Selected'  BY <1>0, <1>3, <2>0 DEF Selected, walkVars, Scope, Asked, Refused
  <2>3. Confirmed'  BY <1>0, <1>3, <2>0 DEF Confirmed, Walking, walkVars
  <2>4. Followed'  BY <1>0, <1>3, <2>0 DEF Followed, Walking, walkVars
  <2>5. ExitTellsAll'  BY <1>0, <1>3, <2>0 DEF ExitTellsAll, Running, Typed
  <2>6. Recorded'  BY <1>0, <2>0 DEF Recorded, walkVars
  <2>. QED BY <1>1, <2>1, <2>2, <2>3, <2>4, <2>5, <2>6 DEF CommandInv
<1>. DEFINE Page(repo) == {r \in there : RepoOf[r] = repo /\ Selects(r)}
<1>4. ASSUME NEW repo \in queue, ~interrupted, queue' = queue \ {repo},
             named' = named \cup Page(repo), NEW done \in SUBSET Page(repo), frozen' = frozen \cup done,
             UNCHANGED <<todo, pc, code>>
      PROVE  CommandInv'
  <2>1. Page(repo) \subseteq Run  BY <1>0, <1>4 DEF Typed
  <2>2. Page(repo) \subseteq Asked(inv)
    <3>1. inv \in Invocations /\ inv.ids = {} /\ repo \in Scope(inv) /\ ~Refused(inv)
      BY <1>0, <1>4 DEF Typed, Selected
    <3>2. inv.select \in {"filter", "all"}
      BY <3>1, WordsAre DEF Refused, DeleteRefused, LifecycleRefused
    <3>. QED BY <1>4, <2>1, <3>1, <3>2 DEF Asked, Selects
  <2>3. Typed'  BY <1>0, <1>4, <2>1 DEF Typed, Walking, walkVars, logVars
  <2>4. Selected'  BY <1>0, <1>4, <2>2 DEF Selected, walkVars, Scope, Asked, Refused
  <2>5. Confirmed'  BY <1>0, <1>4 DEF Confirmed, Walking, walkVars
  <2>6. Followed'  BY <1>0, <1>4 DEF Followed, Walking, walkVars
  <2>7. ExitTellsAll'  BY <1>0, <1>4 DEF ExitTellsAll
  <2>8. Recorded'  BY <1>0, <1>4 DEF Recorded, walkVars
  <2>. QED BY <1>1, <2>3, <2>4, <2>5, <2>6, <2>7, <2>8 DEF CommandInv
<1>5. ASSUME ~(queue = {} /\ pc' = (IF inv.job = "name" THEN "resolve" ELSE "plan")
               /\ todo' = named /\ UNCHANGED <<queue, named, frozen, code>>),
             ~(queue # {} /\ Exit(OnError) /\ UNCHANGED <<queue, named, todo, frozen>>)
      PROVE  \E repo \in queue :
               /\ ~interrupted /\ queue' = queue \ {repo} /\ UNCHANGED <<todo, pc, code>>
               /\ named' = named \cup Page(repo)
               /\ \E done \in SUBSET Page(repo) : frozen' = frozen \cup done
  BY <1>5, Zenon DEF Crawl
<1>. HIDE DEF Page
<1>. QED BY <1>2, <1>3, <1>4, <1>5

\* A Run's Jobs are asked for once; where they cannot be, it is unreached, and so
\* are the Runs after it.
LEMMA ResolveKeeps == ASSUME CommandInv, Resolve  PROVE CommandInv'
<1>0. /\ pc = "resolve"
      /\ UNCHANGED <<there, inv, interrupted, queue, named, frozen, streak, stop, hit, about,
                     unlogged, excuses, logVars, count>>
      /\ Typed /\ Selected /\ Confirmed /\ Followed /\ Recorded /\ LogInv
  BY DEF Resolve, CommandInv
<1>1. LogInv'  BY <1>0, SameLog
<1>. DEFINE jobs == {r \in named : fate[r] = "job"}
<1>2. CASE todo = {} /\ pc' = "plan" /\ todo' = jobs /\ UNCHANGED <<code, unreached, fate>>
  <2>1. Typed'  BY <1>0, <1>2 DEF Typed, Walking, logVars
  <2>2. Selected'  BY <1>0, <1>2 DEF Selected, Scope, Asked, Refused
  <2>3. Confirmed'  BY <1>0, <1>2 DEF Confirmed, Walking
  <2>4. Followed'  BY <1>0, <1>2 DEF Followed, Walking
  <2>5. ExitTellsAll'  BY <1>2 DEF ExitTellsAll
  <2>6. Recorded'  BY <1>0, <1>2 DEF Recorded
  <2>. QED BY <1>1, <2>1, <2>2, <2>3, <2>4, <2>5, <2>6 DEF CommandInv
<1>3. CASE todo # {} /\ interrupted /\ Exit(2) /\ UNCHANGED <<todo, unreached, fate>>
  <2>0. pc' = "idle" /\ code' = 2  BY <1>3 DEF Exit
  <2>1. Typed'  BY <1>0, <1>3, <2>0 DEF Typed, Walking, logVars
  <2>2. Selected'  BY <1>0, <1>3, <2>0 DEF Selected, Scope, Asked, Refused
  <2>3. Confirmed'  BY <1>0, <1>3, <2>0 DEF Confirmed, Walking
  <2>4. Followed'  BY <1>0, <1>3, <2>0 DEF Followed, Walking
  <2>5. ExitTellsAll'
    <3>1. \E r \in named : fate[r] = "none"  BY <1>0, <1>3 DEF Followed, Selected
    <3>. QED BY <1>0, <1>3, <2>0, <3>1 DEF ExitTellsAll
  <2>6. Recorded'  BY <1>0, <2>0 DEF Recorded
  <2>. QED BY <1>1, <2>1, <2>2, <2>3, <2>4, <2>5, <2>6 DEF CommandInv
<1>4. ASSUME NEW r \in todo, todo' = todo \ {r}, UNCHANGED <<pc, code, unreached>>,
             fate' = [fate EXCEPT ![r] = IF r \in HasJob THEN "job" ELSE "unmatched"]
      PROVE  CommandInv'
  <2>0. r \in Run /\ r \in named /\ fate \in [Run -> Fate]  BY <1>0 DEF Typed, Selected
  <2>1. /\ fate' \in [Run -> Fate] /\ fate'[r] \in {"job", "unmatched"}
        /\ \A m \in Run : m # r => fate'[m] = fate[m]
    BY <1>4, <2>0 DEF Fate
  <2>2. Typed'  BY <1>0, <1>4, <2>1 DEF Typed, Walking, logVars
  <2>3. Selected'  BY <1>0, <1>4, <2>0, <2>1 DEF Selected, Scope, Asked, Refused
  <2>4. Confirmed'  BY <1>0, <1>4 DEF Confirmed, Walking
  <2>5. Followed'  BY <1>0, <1>4, <2>0, <2>1 DEF Followed, Walking, Typed
  <2>6. ExitTellsAll'  BY <1>0, <1>4 DEF ExitTellsAll
  <2>7. Recorded'  BY <1>0, <1>4 DEF Recorded
  <2>. QED BY <1>1, <2>2, <2>3, <2>4, <2>5, <2>6, <2>7 DEF CommandInv
<1>5. CASE unreached' = todo /\ pc' = "plan" /\ todo' = jobs /\ UNCHANGED <<code, fate>>
  <2>1. Typed'  BY <1>0, <1>5 DEF Typed, Walking, logVars
  <2>2. Selected'  BY <1>0, <1>5 DEF Selected, Scope, Asked, Refused
  <2>3. Confirmed'  BY <1>0, <1>5 DEF Confirmed, Walking
  <2>4. Followed'  BY <1>0, <1>5 DEF Followed, Walking
  <2>5. ExitTellsAll'  BY <1>5 DEF ExitTellsAll
  <2>6. Recorded'  BY <1>0, <1>5 DEF Recorded
  <2>. QED BY <1>1, <2>1, <2>2, <2>3, <2>4, <2>5, <2>6 DEF CommandInv
<1>. QED BY <1>2, <1>3, <1>4, <1>5 DEF Resolve

\* A plan confirms its set by a flag, or has nothing to confirm.
LEMMA PlanKeeps == ASSUME CommandInv, Plan  PROVE CommandInv'
<1>0. /\ pc = "plan" /\ UNCHANGED <<there, pipeVars, streak, hit, about, unlogged, excuses, count>>
      /\ Typed /\ Selected /\ Confirmed /\ Followed /\ Recorded /\ LogInv /\ writer = Closed
  BY DEF Plan, CommandInv, Typed, Walking
<1>1. ASSUME pc' = "idle", code' \in {0, 1}, code' = 0 => inv.dry /\ unreached = {},
             UNCHANGED <<fate, stop, logVars>>
      PROVE  CommandInv'
  <2>1. Typed'  BY <1>0, <1>1 DEF Typed, Walking, pipeVars, logVars
  <2>2. Selected'  BY <1>0, <1>1 DEF Selected, Scope, Asked, Refused, pipeVars
  <2>3. Confirmed'  BY <1>0, <1>1 DEF Confirmed, Walking, pipeVars
  <2>4. Followed'  BY <1>0, <1>1 DEF Followed, Walking, pipeVars
  <2>5. ExitTellsAll'  BY <1>0, <1>1 DEF ExitTellsAll, Followed, Typed, pipeVars
  <2>6. Recorded'  BY <1>0, <1>1 DEF Recorded
  <2>7. LogInv'  BY <1>0, <1>1, SameLog
  <2>. QED BY <2>1, <2>2, <2>3, <2>4, <2>5, <2>6, <2>7 DEF CommandInv
<1>2. ASSUME \A r \in Members : RepoOf[r] \in Known, ~inv.dry, MayProceed, code' = code, pc' = "walk",
             fate' = [r \in Run |-> IF r \in todo THEN "pending" ELSE fate[r]],
             \/ inv.verb = "delete" /\ OpenLog /\ stop' = stop
             \/ inv.verb = "delete" /\ LogUnavailable /\ stop' = "log"
             \/ inv.verb # "delete" /\ UNCHANGED logVars /\ stop' = stop
      PROVE  CommandInv'
  <2>0. UNCHANGED <<there, inv, interrupted, queue, named, todo, frozen, unreached, streak, hit, about,
                    unlogged, excuses>>
    BY <1>0 DEF pipeVars
  <2>1. fate' \in [Run -> Fate] /\ todo \subseteq Run /\ fate \in [Run -> Fate]
    BY <1>0, <1>2 DEF Typed, Fate
  <2>2. writer' = (IF inv.verb = "delete" /\ stop' # "log" THEN Ready ELSE Closed)
    BY <1>0, <1>2 DEF OpenLog, LogUnavailable, logVars, Typed
  <2>3. stop = "no" /\ stop' \in {"no", "log"} /\ hit = {} /\ about = {} /\ inv \in Invocations
    BY <1>0, <1>2 DEF Typed, Confirmed, Walking
  <2>4. Typed'
    <3>1. code' = code /\ pc' = "walk" /\ (stop' = "no" => streak' < Breaker)
      BY <1>0, <1>2, <2>0, <2>3 DEF Typed
    <3>2. writer'.at \in {"closed", "ready", "failed"}
      BY <2>2 DEF Ready, Closed
    <3>. QED BY <1>0, <2>0, <2>1, <2>2, <2>3, <3>1, <3>2 DEF Typed, Walking
  <2>5. Selected'  BY <1>0, <1>2, <2>0, <2>1, <2>3 DEF Selected, Scope, Asked, Refused
  <2>6. Confirmed'
    <3>1. inv.yes \/ (inv.verb = "rerun" /\ \A m, n \in todo : m = n)
      <4>1. SUFFICES ASSUME ~inv.yes  PROVE inv.verb = "rerun" /\ \A m, n \in todo : m = n
        BY <2>3, WordsAre
      <4>2. Op(inv) \in Rerun /\ Cardinality(Members) = 1
        BY <1>2, <4>1 DEF MayProceed, FrictionFor
      <4>3. inv.verb = "rerun"
        <5>1. inv.verb # "rerun" => Op(inv) = inv.verb  BY DEF Op
        <5>. QED BY <2>3, <4>2, <5>1, WordsAre DEF Rerun
      <4>4. IsFiniteSet(Members)  BY <2>1, PlanAssumption, FS_Subset DEF Members
      <4>5. \E m : Members = {m}  BY <4>2, <4>4, FS_Singleton
      <4>. QED BY <4>3, <4>5 DEF Members
    <3>2. \A r \in todo : RepoOf[r] \in Known  BY <1>2 DEF Members
    <3>. QED BY <1>2, <2>0, <2>3, <3>1, <3>2 DEF Confirmed, Walking
  <2>7. Followed'
    <3>1. \A r \in todo : fate'[r] = "pending"  BY <1>2, <2>1
    <3>2. \A r \in Run : r \notin todo => fate'[r] = fate[r]  BY <1>2
    <3>. QED BY <1>0, <1>2, <2>0, <2>1, <2>3, <3>1, <3>2 DEF Followed, Walking, Answered, Typed
  <2>8. ExitTellsAll'  BY <1>2 DEF ExitTellsAll
  <2>9. Recorded'  BY <1>0, <1>2, <2>0 DEF Recorded
  <2>10. LogInv'
    <3>1. CASE OpenLog  BY <1>0, <3>1, OpenKeepsLog
    <3>2. CASE UNCHANGED logVars  BY <1>0, <3>2, SameLog
    <3>. QED BY <1>2, <3>1, <3>2 DEF LogUnavailable
  <2>. QED BY <2>4, <2>5, <2>6, <2>7, <2>8, <2>9, <2>10 DEF CommandInv
<1>. QED BY <1>1, <1>2 DEF Plan, Exit, DryCode

\* A request is sent only for a member that nothing skips.
LEMMA NoneSkipped ==
  ASSUME Typed, NEW r \in Run, SkipOf(r) = "none"
  PROVE  Capability[RepoOf[r]] = "writable" /\ (inv.verb = "delete" => r \in frozen)
<1>1. Capability[RepoOf[r]] \in {"writable", "read-only", "archived"}  BY PlanAssumption
<1>2. inv \in Invocations  BY DEF Typed
<1>3. CASE inv.ids # {} /\ Capability[RepoOf[r]] = "writable"  BY <1>2, <1>3, WordsAre
<1>4. CASE ~(inv.ids # {} /\ Capability[RepoOf[r]] = "writable")
  <2>1. SkipFor(Op(inv), r, r \in frozen) = "none"  BY <1>4 DEF SkipOf
  <2>2. Capability[RepoOf[r]] = "writable"  BY <1>1, <2>1 DEF SkipFor
  <2>3. Op(inv) = "delete" => r \in frozen  BY <2>1, <2>2 DEF SkipFor
  <2>4. inv.verb = "delete" => Op(inv) = "delete"  BY DEF Op
  <2>. QED BY <2>2, <2>3, <2>4
<1>. QED BY <1>3, <1>4

\* What is concluded of a member, and where the walk goes on.
LEMMA ConcludedIs ==
  ASSUME Typed, Concluded("done") \/ Concluded("gone") \/ Concluded("skipped") \/ Concluded("failed"),
         stop = "no", about' \subseteq Run, inv' = inv, writer = Ready \/ inv.verb # "delete"
  PROVE  /\ fate' \in [Run -> Fate]
         /\ \A r \in Run : IF r \in about' THEN fate'[r] \in Answered ELSE fate'[r] = fate[r]
         /\ streak' \in 0..Breaker /\ stop' \in {"no", "breaker"} /\ (stop' = "no" => streak' < Breaker)
         /\ inv.verb = "delete" => pc' = "logging" /\ BeginLine /\ (Rotating' \/ writer'.at = "append")
         /\ inv.verb # "delete" => pc' = "walk" /\ UNCHANGED logVars
<1>1. /\ fate' \in [Run -> Fate]
      /\ \A r \in Run : IF r \in about' THEN fate'[r] \in Answered ELSE fate'[r] = fate[r]
  BY DEF Concluded, Typed, Fate, Answered
<1>2. streak \in Nat /\ streak < Breaker /\ Breaker \in Nat \ {0}  BY CommandAssumption DEF Typed
<1>3. /\ streak' \in 0..Breaker /\ stop' \in {"no", "breaker"} /\ (stop' = "no" => streak' < Breaker)
  <2>1. CASE Concluded("failed")
    <3>1. streak' = streak + 1 /\ stop' = (IF streak + 1 >= Breaker THEN "breaker" ELSE "no")
      BY <2>1 DEF Concluded
    <3>. QED BY <1>2, <3>1
  <2>2. CASE Concluded("skipped")
    <3>1. streak' = streak /\ stop' = "no"  BY <2>2 DEF Concluded
    <3>. QED BY <1>2, <3>1
  <2>3. CASE Concluded("done") \/ Concluded("gone")
    <3>1. streak' = 0 /\ stop' = "no"  BY <2>3 DEF Concluded
    <3>. QED BY <1>2, <3>1
  <2>. QED BY <2>1, <2>2, <2>3
<1>4. inv.verb # "delete" => pc' = "walk" /\ UNCHANGED logVars  BY DEF Concluded
<1>5. inv.verb = "delete" => pc' = "logging" /\ BeginLine  BY DEF Concluded
<1>6. BeginLine => Rotating' \/ writer'.at = "append"  BY DEF BeginLine, Rotating
<1>. QED BY <1>1, <1>3, <1>4, <1>5, <1>6

\* Whatever is concluded, the log goes on from it.
LEMMA ConcludedKeepsLog ==
  ASSUME LogInv, inv.verb = "delete" => BeginLine /\ writer = Ready,
         inv.verb # "delete" => UNCHANGED logVars
  PROVE  LogInv'
<1>1. CASE inv.verb = "delete"  BY <1>1, BeginKeepsLog
<1>2. CASE inv.verb # "delete"  BY <1>2, SameLog
<1>. QED BY <1>1, <1>2

\* While it walks, the writer of a deletion is where the next line begins.
LEMMA WriterWaits ==
  ASSUME Typed, pc \in {"walk", "wire"}, stop # "log"
  PROVE  /\ inv.verb = "delete" => writer = Ready
         /\ inv.verb # "delete" => writer = Closed
BY DEF Typed

\* The next member is skipped, or its request goes out; an interrupt is seen here.
LEMMA NextMemberKeeps == ASSUME CommandInv, NextMember  PROVE CommandInv'
<1>0. /\ pc = "walk" /\ stop = "no" /\ todo # {}
      /\ UNCHANGED <<there, hit, unlogged, inv, interrupted, queue, named, frozen, unreached, excuses,
                     code, count>>
      /\ Typed /\ Selected /\ Confirmed /\ Followed /\ Recorded /\ LogInv
      /\ inv.verb = "delete" => writer = Ready
      /\ inv.verb # "delete" => writer = Closed
      /\ writer \in {Closed, Ready}
  BY WriterWaits DEF NextMember, Ignored, CommandInv
<1>1. CASE interrupted /\ stop' = "cancelled" /\ UNCHANGED <<pc, about, todo, fate, streak, logVars>>
  <2>1. Typed'  BY <1>0, <1>1 DEF Typed, Walking, logVars
  <2>2. Selected'  BY <1>0, <1>1 DEF Selected, Scope, Asked, Refused
  <2>3. Confirmed'  BY <1>0, <1>1 DEF Confirmed, Walking
  <2>4. Followed'
    <3>1. \E r \in named : fate[r] = "pending"  BY <1>0 DEF Followed, Walking, Selected
    <3>. QED BY <1>0, <1>1, <3>1 DEF Followed, Walking
  <2>5. ExitTellsAll'  BY <1>0, <1>1 DEF ExitTellsAll
  <2>6. Recorded'  BY <1>0, <1>1 DEF Recorded
  <2>7. LogInv'  BY <1>0, <1>1, SameLog
  <2>. QED BY <2>1, <2>2, <2>3, <2>4, <2>5, <2>6, <2>7 DEF CommandInv
<1>2. ASSUME NEW r \in todo, about' = {r}, todo' = todo \ {r}, SkipOf(r) # "none", Concluded("skipped")
      PROVE  CommandInv'
  <2>0. r \in Run /\ r \in named /\ about' \subseteq Run /\ todo \subseteq Run  BY <1>0, <1>2 DEF Typed, Selected
  <2>1. /\ fate' \in [Run -> Fate]
        /\ \A m \in Run : IF m = r THEN fate'[m] \in Answered ELSE fate'[m] = fate[m]
        /\ streak' \in 0..Breaker /\ stop' \in {"no", "breaker"} /\ (stop' = "no" => streak' < Breaker)
        /\ inv.verb = "delete" => pc' = "logging" /\ BeginLine /\ (Rotating' \/ writer'.at = "append")
        /\ inv.verb # "delete" => pc' = "walk" /\ UNCHANGED logVars
    BY <1>0, <1>2, <2>0, ConcludedIs
  <2>2. fate'[r] = "skipped"  BY <1>2, <2>0 DEF Concluded
  <2>3. Typed'  BY <1>0, <1>2, <2>0, <2>1 DEF Typed, Walking, logVars, Closed
  <2>4. Selected'  BY <1>0, <1>2, <2>0, <2>1 DEF Selected, Scope, Asked, Refused
  <2>5. Confirmed'  BY <1>0, <1>2, <2>0, <2>1 DEF Confirmed, Walking
  <2>6. Followed'
    <3>1. \A m \in named : \/ m \in todo' \/ m \in unreached \/ fate'[m] \in Answered
      BY <1>0, <1>2, <2>0, <2>1 DEF Followed, Walking, Typed
    <3>2. \A m \in todo' : fate'[m] = "pending"
      BY <1>0, <1>2, <2>0, <2>1 DEF Followed, Walking
    <3>3. inv.verb = "delete" => \A m \in Run : fate'[m] = "done" => m \notin there
      BY <1>0, <2>1, <2>2 DEF Followed
    <3>4. todo' \cap about' = {}  BY <1>2
    <3>. QED BY <1>0, <2>1, <3>1, <3>2, <3>3, <3>4 DEF Followed, Walking
  <2>7. ExitTellsAll'  BY <1>0, <2>1 DEF ExitTellsAll
  <2>8. Recorded'
    <3>1. Cardinality(unlogged) <= excuses /\ excuses \in Nat /\ unlogged \subseteq Run
      BY <1>0 DEF Recorded, Typed
    <3>2. Cardinality(unlogged \ {r}) <= excuses  BY <3>1, FewerCounted
    <3>. QED BY <1>0, <1>2, <2>1, <3>1, <3>2 DEF Recorded
  <2>9. LogInv'  BY <1>0, <2>1, ConcludedKeepsLog
  <2>. QED BY <2>3, <2>4, <2>5, <2>6, <2>7, <2>8, <2>9 DEF CommandInv
<1>3. ASSUME NEW r \in todo, about' = {r}, todo' = todo \ {r}, SkipOf(r) = "none", pc' = "wire",
             UNCHANGED <<fate, streak, stop, logVars>>
      PROVE  CommandInv'
  <2>0. r \in Run /\ r \in named /\ todo \subseteq Run  BY <1>0, <1>3 DEF Typed, Selected
  <2>1. Typed'  BY <1>0, <1>3, <2>0 DEF Typed, Walking, logVars
  <2>2. Selected'  BY <1>0, <1>3, <2>0 DEF Selected, Scope, Asked, Refused, SkipOf
  <2>3. Confirmed'  BY <1>0, <1>3, <2>0 DEF Confirmed, Walking
  <2>4. Followed'  BY <1>0, <1>3, <2>0 DEF Followed, Walking
  <2>5. ExitTellsAll'  BY <1>3 DEF ExitTellsAll
  <2>6. Recorded'  BY <1>0, <1>3 DEF Recorded
  <2>7. LogInv'  BY <1>0, <1>3, SameLog
  <2>. QED BY <2>1, <2>2, <2>3, <2>4, <2>5, <2>6, <2>7 DEF CommandInv
<1>. QED BY <1>1, <1>2, <1>3 DEF NextMember

\* The exit code is said when the walk is over.
LEMMA FinishKeeps == ASSUME CommandInv, Finish  PROVE CommandInv'
<1>0. /\ pc = "walk" /\ (stop # "no" \/ todo = {}) /\ pc' = "idle" /\ code' = ExitCode
      /\ UNCHANGED <<there, pipeVars, walkVars, count>>
      /\ inv.verb = "delete" => CloseLog
      /\ inv.verb # "delete" => UNCHANGED logVars
      /\ Typed /\ Selected /\ Confirmed /\ Followed /\ Recorded /\ LogInv
  BY DEF Finish, Exit, CommandInv
<1>1. UNCHANGED <<there, inv, interrupted, queue, named, todo, frozen, unreached, fate, streak, stop, hit,
                  about, unlogged, excuses>>
  BY <1>0 DEF pipeVars, walkVars
<1>2. ExitCode \in {0, 1, 2}  BY DEF ExitCode, ExitFromSummary
<1>3. writer' = Closed
  <2>1. inv.verb # "delete" => writer = Closed  BY <1>0 DEF Typed
  <2>. QED BY <1>0, <2>1 DEF CloseLog, logVars
<1>4. Typed'  BY <1>0, <1>1, <1>2, <1>3 DEF Typed, Walking
<1>5. Selected'  BY <1>0, <1>1 DEF Selected, Scope, Asked, Refused
<1>6. Confirmed'  BY <1>0, <1>1 DEF Confirmed, Walking
<1>7. Followed'  BY <1>0, <1>1 DEF Followed, Walking
<1>8. ExitTellsAll'
  <2>1. ASSUME code' = 0
        PROVE  unreached = {} /\ \A r \in named : fate[r] \in {"done", "gone", "skipped", "unmatched"}
    <3>1. ExitFromSummary = 0 /\ unreached = {}  BY <1>0, <2>1 DEF ExitCode
    <3>2. stop = "no" /\ \A r \in Run : fate[r] # "failed"  BY <3>1 DEF ExitFromSummary
    <3>3. \A r \in named : fate[r] \in Answered
      BY <1>0, <3>1, <3>2 DEF Followed, Walking
    <3>. QED BY <1>0, <3>1, <3>2, <3>3 DEF Answered, Typed
  <2>2. inv.verb = "delete" => \A r \in named : fate[r] = "done" => r \notin there
    BY <1>0 DEF Followed, Typed
  <2>3. ASSUME code' = 2  PROVE interrupted /\ \E r \in named : fate[r] = "pending"
    <3>1. stop = "cancelled"  BY <1>0, <2>3 DEF ExitCode, ExitFromSummary
    <3>. QED BY <1>0, <3>1 DEF Followed
  <2>. QED BY <1>1, <2>1, <2>2, <2>3 DEF ExitTellsAll
<1>9. Recorded'  BY <1>0, <1>1 DEF Recorded
<1>10. LogInv'
  <2>1. CASE inv.verb = "delete"  BY <1>0, <2>1, CloseKeepsLog DEF Typed
  <2>2. CASE inv.verb # "delete"  BY <1>0, <2>2, SameLog
  <2>. QED BY <2>1, <2>2
<1>. QED BY <1>4, <1>5, <1>6, <1>7, <1>8, <1>9, <1>10 DEF CommandInv

\* A request is answered, whether it took effect or not: what took effect was asked
\* for, confirmed and allowed, and only its line is not yet on record.
LEMMA AnswerKeeps == ASSUME CommandInv, Answer  PROVE CommandInv'
<1>0. /\ pc = "wire" /\ UNCHANGED <<inv, interrupted, queue, named, todo, frozen, unreached, about, code>>
      /\ Typed /\ Selected /\ Confirmed /\ Followed /\ Recorded /\ LogInv
      /\ stop = "no" /\ (inv.verb = "delete" => writer = Ready) /\ (inv.verb # "delete" => writer = Closed)
      /\ writer \in {Closed, Ready}
  <2>1. Typed /\ pc = "wire"  BY DEF Answer, CommandInv
  <2>2. stop = "no"  BY <2>1 DEF Typed
  <2>. QED BY <2>1, <2>2, WriterWaits DEF Answer, pipeVars, CommandInv
<1>1. Takes \/ Ignored  BY DEF Answer
<1>2. /\ there' \subseteq there /\ hit' \subseteq hit \cup about /\ unlogged' \subseteq unlogged \cup about
      /\ inv.verb # "delete" => unlogged' = unlogged
  BY <1>1 DEF Takes, Ignored
<1>3. about \subseteq Run /\ about \subseteq named /\ unlogged \subseteq Run /\ hit \subseteq Run
  BY <1>0 DEF Typed, Selected
<1>4. \A r \in about : /\ Capability[RepoOf[r]] = "writable" /\ RepoOf[r] \in Known
                       /\ inv.verb = "delete" => r \in frozen
  BY <1>0, <1>3, NoneSkipped DEF Selected, Confirmed, Walking
<1>5. /\ \E d \in {"done", "gone", "skipped", "failed"} :
           /\ Concluded(d) /\ UNCHANGED excuses
           /\ d = "done" => Takes
      \/ /\ stop' = "cancelled" /\ pc' = "walk" /\ excuses' = excuses + 1 /\ interrupted
         /\ UNCHANGED <<fate, streak, logVars>>
  <2>1. Missing \in {"gone", "skipped", "failed"}  BY DEF Missing
  <2>. QED BY <2>1 DEF Answer
\* The repositories, the words and the frozen set are the same, whatever the answer.
<1>6. Confirmed'
  <2>1. pc' \in Walking \ {"wire"}  BY <1>5 DEF Concluded, Walking
  <2>2. ~inv.dry /\ (inv.yes \/ (inv.verb = "rerun" /\ \A m, n \in todo \cup about \cup hit : m = n))
    BY <1>0 DEF Confirmed, Walking
  <2>3. \A r \in todo' \cup about' : RepoOf[r] \in Known  BY <1>0 DEF Confirmed, Walking
  <2>4. \A r \in hit' : Capability[RepoOf[r]] = "writable" /\ RepoOf[r] \in Known
    BY <1>0, <1>2, <1>4 DEF Confirmed
  <2>5. inv.verb = "delete" => hit' \subseteq frozen'  BY <1>0, <1>2, <1>4 DEF Confirmed
  <2>. QED BY <1>0, <1>2, <2>1, <2>2, <2>3, <2>4, <2>5 DEF Confirmed, Walking
<1>7. CASE /\ stop' = "cancelled" /\ pc' = "walk" /\ excuses' = excuses + 1 /\ interrupted
           /\ UNCHANGED <<fate, streak, logVars>>
  <2>1. Typed'  BY <1>0, <1>2, <1>3, <1>7 DEF Typed, Walking, logVars, Closed, Ready
  <2>2. Selected'  BY <1>0, <1>2, <1>3, <1>7 DEF Selected, Scope, Asked, Refused
  <2>3. Followed'
    <3>1. \E r \in named : fate[r] = "pending"  BY <1>0, <1>3 DEF Followed, Walking, Selected
    <3>. QED BY <1>0, <1>2, <1>7, <3>1 DEF Followed, Walking
  <2>4. ExitTellsAll'  BY <1>7 DEF ExitTellsAll
  <2>5. Recorded'
    <3>1. Cardinality(unlogged) <= excuses /\ excuses \in Nat  BY <1>0 DEF Recorded, Typed
    <3>2. Cardinality((unlogged \cup about) \ about) <= excuses
      BY <1>3, <3>1, FewerCounted
    <3>3. Cardinality(unlogged \cup about) <= excuses + 1
      <4>1. unlogged \cup about \in SUBSET Run /\ \A m, n \in about : m = n  BY <1>0, <1>3 DEF Selected
      <4>. QED BY <1>3, <3>1, <3>2, <4>1, AtMostOneMore
    <3>4. Cardinality(unlogged') <= excuses + 1
      BY <1>2, <1>3, <3>1, <3>3, FewerCounted
    <3>. QED BY <1>7, <3>4 DEF Recorded
  <2>6. LogInv'  BY <1>0, <1>7, SameLog
  <2>. QED BY <1>6, <2>1, <2>2, <2>3, <2>4, <2>5, <2>6 DEF CommandInv
<1>8. ASSUME NEW d \in {"done", "gone", "skipped", "failed"}, Concluded(d), UNCHANGED excuses,
             d = "done" => Takes
      PROVE  CommandInv'
  <2>1. /\ fate' \in [Run -> Fate]
        /\ \A r \in Run : IF r \in about THEN fate'[r] \in Answered ELSE fate'[r] = fate[r]
        /\ streak' \in 0..Breaker /\ stop' \in {"no", "breaker"} /\ (stop' = "no" => streak' < Breaker)
        /\ inv.verb = "delete" => pc' = "logging" /\ BeginLine /\ (Rotating' \/ writer'.at = "append")
        /\ inv.verb # "delete" => pc' = "walk" /\ UNCHANGED logVars
    <3>1. Concluded("done") \/ Concluded("gone") \/ Concluded("skipped") \/ Concluded("failed")  BY <1>8
    <3>. QED BY <1>0, <1>3, <3>1, ConcludedIs
  <2>2. \A r \in about : fate'[r] = d  BY <1>0, <1>3, <1>8 DEF Concluded
  <2>3. Typed'  BY <1>0, <1>2, <1>3, <1>8, <2>1 DEF Typed, Walking, logVars, Closed
  <2>4. Selected'  BY <1>0, <1>2, <1>3, <2>1 DEF Selected, Scope, Asked, Refused
  <2>5. Followed'
    <3>1. \A m \in named : \/ m \in todo \/ m \in unreached \/ fate'[m] \in Answered
      BY <1>0, <2>1 DEF Followed, Walking, Typed
    <3>2. \A m \in todo : fate'[m] = "pending"
      <4>1. \A m \in todo : m \in Run /\ fate[m] = "pending"  BY <1>0 DEF Typed, Followed, Walking
      <4>2. todo \cap about = {}
        BY <1>0 DEF Followed, Walking
      <4>. QED BY <2>1, <4>1, <4>2
    <3>3. ASSUME inv.verb = "delete", NEW m \in Run, fate'[m] = "done"  PROVE m \notin there'
      <4>1. CASE m \in about
        <5>1. Takes  BY <1>8, <2>2, <3>3, <4>1
        <5>. QED BY <3>3, <4>1, <5>1 DEF Takes
      <4>2. CASE m \notin about  BY <1>0, <1>2, <2>1, <3>3, <4>2 DEF Followed
      <4>. QED BY <4>1, <4>2
    <3>. QED BY <1>0, <2>1, <3>1, <3>2, <3>3 DEF Followed, Walking
  <2>6. ExitTellsAll'  BY <2>1 DEF ExitTellsAll
  <2>7. Recorded'
    <3>1. Cardinality(unlogged) <= excuses /\ excuses \in Nat  BY <1>0 DEF Recorded, Typed
    <3>2. CASE inv.verb = "delete"
      <4>1. unlogged' \ about \in SUBSET unlogged  BY <1>2
      <4>2. Cardinality(unlogged' \ about) <= excuses  BY <1>3, <3>1, <4>1, FewerCounted
      <4>. QED BY <1>0, <1>8, <2>1, <3>2, <4>2 DEF Recorded
    <3>3. CASE inv.verb # "delete"  BY <1>2, <1>8, <2>1, <3>1, <3>3 DEF Recorded
    <3>. QED BY <3>2, <3>3
  <2>8. LogInv'  BY <1>0, <2>1, ConcludedKeepsLog
  <2>. QED BY <1>6, <2>3, <2>4, <2>5, <2>6, <2>7, <2>8 DEF CommandInv
<1>. QED BY <1>5, <1>7, <1>8

\* A line is written after what it needs of a rotation, or fails and stops the walk.
LEMMA LogLineKeeps == ASSUME CommandInv, LogLine  PROVE CommandInv'
<1>0. /\ pc = "logging" /\ UNCHANGED <<there, inv, interrupted, queue, named, todo, frozen, unreached,
                                       fate, streak, hit, about, code, count>>
      /\ Typed /\ Selected /\ Confirmed /\ Followed /\ Recorded /\ LogInv
      /\ inv.verb = "delete" /\ stop \in {"no", "breaker"}
  BY DEF LogLine, pipeVars, CommandInv, Typed
<1>1. CASE Rotate /\ UNCHANGED <<pc, stop, unlogged, excuses>>
  <2>1. Rotating' \/ writer'.at = "append"  BY <1>1 DEF Rotate, Step, Rotating
  <2>2. Typed'  BY <1>0, <1>1, <2>1 DEF Typed, Walking
  <2>3. Selected'  BY <1>0, <1>1 DEF Selected, Scope, Asked, Refused
  <2>4. Confirmed'  BY <1>0, <1>1 DEF Confirmed, Walking
  <2>5. Followed'  BY <1>0, <1>1 DEF Followed, Walking
  <2>6. ExitTellsAll'  BY <1>0, <1>1 DEF ExitTellsAll
  <2>7. Recorded'  BY <1>0, <1>1 DEF Recorded
  <2>8. LogInv'  BY <1>0, <1>1, RotateKeepsLog
  <2>. QED BY <2>2, <2>3, <2>4, <2>5, <2>6, <2>7, <2>8 DEF CommandInv
<1>2. ASSUME pc' = "walk", unlogged' \subseteq unlogged, excuses' \in Nat,
             Cardinality(unlogged') <= excuses',
             \/ stop' = stop /\ writer' = Ready
             \/ stop' = "log" /\ writer' = [at |-> "failed", i |-> 0],
             LogInv'
      PROVE  CommandInv'
  <2>1. stop' \in {"no", "breaker", "log"} /\ (stop' = "no" => stop = "no")  BY <1>0, <1>2
  <2>2. writer'.at \in {"ready", "failed"} /\ (stop' # "log" => writer' = Ready)
    BY <1>0, <1>2 DEF Ready
  <2>3. Typed'  BY <1>0, <1>2, <2>1, <2>2 DEF Typed, Walking
  <2>4. Selected'  BY <1>0, <1>2 DEF Selected, Scope, Asked, Refused
  <2>5. Confirmed'  BY <1>0, <1>2 DEF Confirmed, Walking
  <2>6. Followed'  BY <1>0, <1>2, <2>1 DEF Followed, Walking
  <2>7. ExitTellsAll'  BY <1>2 DEF ExitTellsAll
  <2>8. Recorded'
    <3>1. unlogged' \ (IF pc' = "logging" THEN about' ELSE {}) = unlogged'  BY <1>2
    <3>. QED BY <1>2, <3>1 DEF Recorded
  <2>. QED BY <1>2, <2>3, <2>4, <2>5, <2>6, <2>7, <2>8 DEF CommandInv
<1>3. /\ Cardinality(unlogged \ about) <= excuses /\ excuses \in Nat
      /\ unlogged \in SUBSET Run /\ about \in SUBSET Run /\ \A m, n \in about : m = n
  BY <1>0 DEF Recorded, Typed, Selected
<1>4. CASE AppendLine /\ pc' = "walk" /\ unlogged' = unlogged \ about /\ UNCHANGED <<stop, excuses>>
  <2>1. LogInv'  BY <1>0, <1>4, AppendKeepsLog
  <2>2. writer' = Ready  BY <1>4 DEF AppendLine
  <2>. QED BY <1>2, <1>3, <1>4, <2>1, <2>2
<1>5. CASE LineFails /\ pc' = "walk" /\ stop' = "log" /\ excuses' = excuses + 1 /\ UNCHANGED unlogged
  <2>1. LogInv'  BY <1>0, <1>5, FailureKeepsLog
  <2>2. writer' = [at |-> "failed", i |-> 0]  BY <1>5 DEF LineFails
  <2>3. Cardinality(unlogged) <= excuses + 1  BY <1>3, AtMostOneMore
  <2>. QED BY <1>2, <1>3, <1>5, <2>1, <2>2, <2>3
<1>. QED BY <1>1, <1>4, <1>5 DEF LogLine

\* An interrupt is only remembered; and where nothing changes, nothing is lost.
LEMMA UnchangedKeeps ==
  ASSUME CommandInv, interrupted' = interrupted \/ interrupted' = TRUE,
         UNCHANGED <<there, inv, queue, named, todo, frozen, unreached, fate, streak, stop, hit, about,
                     unlogged, excuses, files, writer, lines, whole, left, pc, code>>
  PROVE  CommandInv'
<1>0. Typed /\ Selected /\ Confirmed /\ Followed /\ ExitTellsAll /\ Recorded /\ LogInv
  BY DEF CommandInv
<1>1. Typed'
  <2>1. interrupted' \in BOOLEAN  BY <1>0 DEF Typed
  <2>. QED BY <1>0, <2>1 DEF Typed, Walking, Rotating
<1>2. Selected'  BY <1>0 DEF Selected, Scope, Asked, Refused, SkipOf
<1>3. Confirmed'  BY <1>0 DEF Confirmed, Walking
<1>4. Followed'  BY <1>0 DEF Followed, Walking
<1>5. ExitTellsAll'  BY <1>0 DEF ExitTellsAll, Typed
<1>6. Recorded'  BY <1>0 DEF Recorded
<1>7. LogInv'  BY <1>0, SameLog DEF logVars
<1>. QED BY <1>1, <1>2, <1>3, <1>4, <1>5, <1>6, <1>7 DEF CommandInv
LEMMA InterruptKeeps == ASSUME CommandInv, Interrupt  PROVE CommandInv'
BY UnchangedKeeps DEF Interrupt, walkVars, logVars

\* A kill leaves no exit code, and at most one deletion without its line.
LEMMA KillKeeps == ASSUME CommandInv, Kill  PROVE CommandInv'
<1>0. /\ pc # "idle" /\ pc' = "idle" /\ LogKilled /\ excuses' = excuses + 1
      /\ UNCHANGED <<there, inv, interrupted, queue, named, todo, frozen, unreached, fate, streak, stop,
                     hit, about, unlogged, code>>
      /\ Typed /\ Selected /\ Confirmed /\ Followed /\ Recorded /\ LogInv
  BY DEF Kill, pipeVars, CommandInv
<1>1. code' = Running  BY <1>0 DEF Selected
<1>2. writer' = Closed  BY <1>0 DEF LogKilled
<1>3. Typed'  BY <1>0, <1>2 DEF Typed, Walking
<1>4. Selected'  BY <1>0 DEF Selected, Scope, Asked, Refused
<1>5. Confirmed'  BY <1>0 DEF Confirmed, Walking
<1>6. Followed'  BY <1>0 DEF Followed, Walking
<1>7. ExitTellsAll'  BY <1>0, <1>1 DEF ExitTellsAll
<1>8. Recorded'
  <2>1. /\ excuses \in Nat /\ unlogged \in SUBSET Run /\ about \in SUBSET Run /\ \A m, n \in about : m = n
    BY <1>0 DEF Typed, Selected
  <2>2. Cardinality(unlogged) <= excuses + 1
    <3>1. CASE pc = "logging"
      <4>1. Cardinality(unlogged \ about) <= excuses  BY <1>0, <3>1 DEF Recorded
      <4>. QED BY <2>1, <4>1, AtMostOneMore
    <3>2. CASE pc # "logging"
      <4>1. Cardinality(unlogged \ {}) <= excuses  BY <1>0, <3>2 DEF Recorded
      <4>. QED BY <2>1, <4>1, AtMostOneMore
    <3>. QED BY <3>1, <3>2
  <2>3. unlogged' \ (IF pc' = "logging" THEN about' ELSE {}) = unlogged  BY <1>0
  <2>. QED BY <1>0, <2>2, <2>3 DEF Recorded
<1>9. LogInv'  BY <1>0, KillKeepsLog
<1>. QED BY <1>3, <1>4, <1>5, <1>6, <1>7, <1>8, <1>9 DEF CommandInv

\* Every step keeps the invariant.
LEMMA CommandStepKeeps == CommandInv /\ [CommandNext]_commandVars => CommandInv'
<1>. SUFFICES ASSUME CommandInv, [CommandNext]_commandVars  PROVE CommandInv'  OBVIOUS
<1>1. CASE UNCHANGED commandVars
  <2>1. UNCHANGED <<there, inv, interrupted, queue, named, todo, frozen, unreached, fate, streak, stop, hit,
                    about, unlogged, excuses, files, writer, lines, whole, left, pc, code>>
    BY <1>1 DEF commandVars, pipeVars, walkVars, logVars
  <2>. QED BY <2>1, UnchangedKeeps
<1>. QED BY <1>1, InvokeKeeps, CrawlKeeps, ResolveKeeps, PlanKeeps, NextMemberKeeps, AnswerKeeps,
            LogLineKeeps, FinishKeeps, InterruptKeeps, KillKeeps DEF CommandNext

\* The invariant says that the words were kept,
LEMMA CommandInvKeepsWord == CommandInv => WordIsKept
<1>. SUFFICES ASSUME CommandInv  PROVE WordIsKept  OBVIOUS
<1>1. ExitTellsAll /\ Typed /\ Selected /\ Confirmed  BY DEF CommandInv
<1>2. hit \subseteq Asked(inv)  BY <1>1 DEF Selected
<1>3. ASSUME hit # {}
      PROVE  ~inv.dry /\ (inv.yes \/ (inv.verb = "rerun" /\ Cardinality(hit) = 1))
  <2>1. SUFFICES ASSUME ~inv.yes  PROVE Cardinality(hit) = 1  BY <1>1, <1>3 DEF Confirmed
  <2>2. \A m, n \in hit : m = n  BY <1>1, <1>3, <2>1 DEF Confirmed
  <2>3. PICK m : hit = {m}  BY <1>3, <2>2
  <2>. QED BY <2>3, FS_Singleton
<1>. QED BY <1>1, <1>2, <1>3 DEF WordIsKept, OnlyWhatWasAsked, Confirmed

\* and that the record is kept.
LEMMA CommandInvKeepsRecord == CommandInv => RecordIsKept
BY LogInvTail DEF CommandInv, Recorded, RecordIsKept
LEMMA CommandInvTypes == CommandInv => CommandTypeOK
<1>. SUFFICES ASSUME CommandInv  PROVE CommandTypeOK  OBVIOUS
<1>1. Typed /\ LogTypeOK  BY LogInvTypes DEF CommandInv
<1>. QED BY <1>1 DEF Typed, CommandTypeOK, Walking, Fate

\* The invariant of the write commands, with the deletion log that they share.
THEOREM CommandsAreKept == CommandSpec => []CommandInv
<1>. QED BY InitCommandInv, CommandStepKeeps, PTL DEF CommandSpec

\* The variables of the write commands have their types.
THEOREM CommandTypes == CommandSpec => []CommandTypeOK
BY CommandsAreKept, CommandInvTypes, PTL

\* An invocation does what its words say, to no Run they did not ask for, and its
\* exit code says what it did, whatever it was interrupted at and whatever the
\* answers were, over any set of Runs and any number of invocations.
THEOREM CommandsKeepTheirWord == CommandSpec => []WordIsKept
BY CommandsAreKept, CommandInvKeepsWord, PTL

\* A destroyed Run is on record, but for one at each kill, failed line or lost
\* answer; and what is on disk is the end of the record in its order, whatever step
\* a rotation was cut short at or refused, for any number of generations of any
\* size: a line is missing from it only if its generation was refused a shift, the
\* latest are always there, and all the generations hold while no rotation was cut
\* short or refused a shift.
THEOREM CommandsKeepTheRecord == CommandSpec => []RecordIsKept
BY CommandsAreKept, CommandInvKeepsRecord, PTL
=============================================================================
