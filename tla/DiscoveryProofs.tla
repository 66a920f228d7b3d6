---------------------------- MODULE DiscoveryProofs ----------------------------
(***************************************************************************)
(* Proofs about repository discovery, for any repositories, enumerations,  *)
(* answers, sessions, exclude lists and retirement threshold.              *)
(***************************************************************************)
EXTENDS Discovery, TLAPS

Rec == Record \cup {None}

LEMMA BlankType == Blank \in Record
BY DiscoveryAssumption DEF Blank, Record

LEMMA RecordFields ==
  ASSUME NEW rec \in Record, NEW b \in BOOLEAN
  PROVE  /\ rec # None
         /\ [rec EXCEPT !.hasRuns = b] \in Record
         /\ [rec EXCEPT !.known = TRUE] \in Record
         /\ [rec EXCEPT !.fails = 0] \in Record
         /\ rec.fails + 1 < RetirementThreshold =>
              [rec EXCEPT !.fails = @ + 1] \in Record
<1>1. RetirementThreshold \in Nat \ {0} /\ rec # None
  BY DiscoveryAssumption
<1>2. rec = [known |-> rec.known, adopted |-> rec.adopted,
             hasRuns |-> rec.hasRuns, fails |-> rec.fails]
      /\ {rec.known, rec.adopted, rec.hasRuns} \subseteq BOOLEAN
      /\ rec.fails \in 0..(RetirementThreshold - 1)
  BY DEF Record
<1>3. [rec EXCEPT !.hasRuns = b] \in Record /\ [rec EXCEPT !.known = TRUE] \in Record
  BY DEF Record
<1>4. [rec EXCEPT !.fails = 0] \in Record
  BY <1>1 DEF Record
<1>5. ASSUME rec.fails + 1 < RetirementThreshold
      PROVE  [rec EXCEPT !.fails = @ + 1] \in Record
  <2>1. rec.fails + 1 \in 0..(RetirementThreshold - 1)
    BY <1>1, <1>2, <1>5
  <2> QED BY <2>1 DEF Record
<1> QED BY <1>1, <1>3, <1>4, <1>5

\* What a probe writes is a record, and it keeps of the carried one what a
\* re-probe does not learn.
LEMMA BuildType ==
  ASSUME TypeOK, NEW t \in Task, NEW r \in Repo, NEW b \in BOOLEAN
  PROVE  /\ Build(t, r, b) \in Record
         /\ t # Reprober => Build(t, r, b).known /\ ~Build(t, r, b).adopted
         /\ t = Reprober /\ carried[t][r] # None =>
              /\ Build(t, r, b).known = carried[t][r].known
              /\ Build(t, r, b).adopted = carried[t][r].adopted
         /\ t = Reprober /\ carried[t][r] = None => ~Build(t, r, b).known
<1> DEFINE base == IF t # Reprober THEN [Blank EXCEPT !.known = TRUE]
                   ELSE IF carried[t][r] = None THEN Blank ELSE carried[t][r]
<1>1. carried[t][r] \in Rec
  BY DEF TypeOK, Set, Rec
<1>2. [Blank EXCEPT !.known = TRUE] \in Record
  BY BlankType, RecordFields
<1>3. base \in Record
  BY <1>1, <1>2, BlankType DEF Rec
<1>4. Build(t, r, b) = [base EXCEPT !.hasRuns = b]
  BY DEF Build
<1>5. /\ Build(t, r, b) \in Record
      /\ Build(t, r, b).known = base.known
      /\ Build(t, r, b).adopted = base.adopted
  BY <1>3, <1>4 DEF Record
<1>6. t # Reprober => base.known /\ ~base.adopted
  BY DEF Blank
<1>7. t = Reprober /\ carried[t][r] = None => ~base.known
  BY DEF Blank
<1> HIDE DEF base
<1>8. t = Reprober /\ carried[t][r] # None => base = carried[t][r]
  BY DEF base
<1> QED BY <1>5, <1>6, <1>7, <1>8

LEMMA PutType ==
  ASSUME records \in Set, NEW r \in Repo, NEW rec \in Record, Put(r, rec)
  PROVE  records' \in Set
BY DEF Put, Set

LEMMA PutProbedType ==
  ASSUME TypeOK, NEW r \in Repo, NEW rec \in Record, PutProbed(r, rec)
  PROVE  records' \in Set /\ failures' \in [Repo -> 0..RetirementThreshold]
<1>1. [rec EXCEPT !.fails = 0] \in Record
  BY RecordFields
<1>2. records' \in Set
  BY <1>1, PutType DEF PutProbed, TypeOK
<1>3. failures' \in [Repo -> 0..RetirementThreshold]
  BY DiscoveryAssumption DEF PutProbed, TypeOK
<1> QED BY <1>2, <1>3

LEMMA CountType ==
  ASSUME TypeOK, NEW r \in Repo, CountDefinitiveFailure(r)
  PROVE  records' \in Set /\ failures' \in [Repo -> 0..RetirementThreshold]
<1>1. CASE records[r] = None
  BY <1>1 DEF CountDefinitiveFailure, TypeOK
<1>2. CASE records[r] # None
  <2>1. records[r] \in Record
    BY <1>2 DEF TypeOK, Set
  <2>2. records[r].fails \in Nat /\ RetirementThreshold \in Nat
    BY <2>1, DiscoveryAssumption DEF Record
  <2>3. Counted(records[r]) \in Rec
    <3>1. CASE records[r].fails + 1 >= RetirementThreshold
      BY <3>1 DEF Rec, Counted
    <3>2. CASE ~(records[r].fails + 1 >= RetirementThreshold)
      <4>1. records[r].fails + 1 < RetirementThreshold
        BY <2>2, <3>2
      <4>2. [records[r] EXCEPT !.fails = @ + 1] \in Record
        BY <2>1, <4>1, RecordFields
      <4> QED BY <3>2, <4>2 DEF Rec, Counted
    <3> QED BY <3>1, <3>2
  <2>4. records' \in Set
    BY <1>2, <2>3 DEF CountDefinitiveFailure, TypeOK, Set, Rec
  <2>5. failures[r] \in 0..RetirementThreshold
    BY DEF TypeOK
  <2>6. (IF failures[r] < RetirementThreshold THEN failures[r] + 1
         ELSE failures[r]) \in 0..RetirementThreshold
    BY <2>2, <2>5
  <2>7. failures' \in [Repo -> 0..RetirementThreshold]
    BY <1>2, <2>6 DEF CountDefinitiveFailure, TypeOK
  <2> QED BY <2>4, <2>7
<1> QED BY <1>1, <1>2

LEMMA PersistableType == TypeOK => Persistable \in Set
BY DEF TypeOK, Set, Persistable

LEMMA ReloadType ==
  ASSUME TypeOK, NEW ex
  PROVE  Reload(ex) \in Set
BY DEF TypeOK, Set, Reload

LEMMA EmptyType == Empty \in Set
BY DEF Empty, Set

-----------------------------------------------------------------------------
(***************************************************************************)
(* Type correctness.  ClassifyOne and Admit write the launch repository's  *)
(* record, so it takes that there is one while they may, and that needs a  *)
(* session to start with every task at rest.                               *)
(***************************************************************************)
Adopting == {"record", "classify", "capability", "admit"}
AdoptsLaunch == /\ \A t \in Task : pc[t] \in Adopting => launch # None
                /\ launch \notin exclude
AtRest == \A t \in Task :
    /\ pc[t] = "idle" /\ todo[t] = {} /\ fly[t] = {}
    /\ carried[t] = Empty /\ snap[t] = Empty
OffAtRest == life = "off" => AtRest /\ records = Empty

TInv == TypeOK /\ AdoptsLaunch /\ OffAtRest

LEMMA InitT == Init => TInv
<1> SUFFICES ASSUME Init PROVE TInv
  OBVIOUS
<1>1. records \in Set /\ doc \in Set
  BY EmptyType DEF Init
<1>2. carried \in [Task -> Set] /\ snap \in [Task -> Set]
  BY EmptyType DEF Init
<1>3. failures \in [Repo -> 0..RetirementThreshold]
  BY DiscoveryAssumption DEF Init
<1>4. pc \in [Task -> Stages] /\ \A t \in Task : pc[t] = "idle"
  BY DEF Init, Stages
<1>5. TypeOK
  BY <1>1, <1>2, <1>3, <1>4 DEF Init, TypeOK
<1>6. AdoptsLaunch
  BY <1>4 DEF Init, AdoptsLaunch, Adopting
<1>7. OffAtRest
  BY <1>4 DEF Init, OffAtRest, AtRest
<1> QED BY <1>5, <1>6, <1>7 DEF TInv

LEMMA StartT ==
  ASSUME TInv, NEW first \in Launches, NEW ex \in Excludes, Start(first, ex)
  PROVE  TInv'
<1>1. first \in Repo \cup {None} /\ ex \in SUBSET Repo
  BY DiscoveryAssumption
<1>2. Reload(ex) \in Set /\ records' = Reload(ex)
  BY ReloadType DEF TInv, Start
<1>3. failures' \in [Repo -> 0..RetirementThreshold]
  <2>1. ASSUME NEW r \in Repo, Reload(ex)[r] # None
        PROVE  Reload(ex)[r].fails \in 0..RetirementThreshold
    BY <1>2, <2>1, DiscoveryAssumption DEF Set, Record
  <2>2. 0 \in 0..RetirementThreshold
    BY DiscoveryAssumption
  <2> QED BY <2>1, <2>2 DEF Start
<1>4. pc' \in [Task -> Stages] /\ \A t \in Task : pc'[t] \in {pc[t], "gate"}
  BY DEF TInv, TypeOK, Start, Stages
<1>5. launch' \in Repo \cup {None} /\ exclude' = ex /\ launch' \notin ex
  BY <1>1, DiscoveryAssumption DEF Start
<1>6. life' = "on" /\ session' \in Nat /\ seeded' \in BOOLEAN
  BY DEF Start, TInv, TypeOK
<1>7. UNCHANGED <<starts, doc, mark, running, todo, fly, carried, snap, held, listed>>
  BY DEF Start, disk_vars, work_vars
<1>8. TypeOK'
  BY <1>1, <1>2, <1>3, <1>4, <1>5, <1>6, <1>7 DEF TInv, TypeOK
<1>9. \A t \in Task : pc'[t] \notin Adopting
  <2>1. \A t \in Task : pc[t] = "idle"
    BY DEF Start, TInv, OffAtRest, AtRest
  <2> QED BY <1>4, <2>1 DEF Adopting
<1> QED BY <1>5, <1>6, <1>8, <1>9 DEF TInv, AdoptsLaunch, OffAtRest

LEMMA ExitT == ASSUME TInv, Exit PROVE TInv'
<1>1. launch' = None /\ exclude' = {} /\ life' = "off" /\ records' = Empty
      /\ seeded' = FALSE /\ running' = FALSE
  BY DEF Exit
<1>2. AtRest'
  BY DEF Exit, AtRest
<1>3. /\ pc' \in [Task -> Stages] /\ todo' \in [Task -> SUBSET Repo]
      /\ fly' \in [Task -> SUBSET Repo] /\ held' \in [Task -> BOOLEAN]
  BY DEF Exit, Stages
<1>4. carried' \in [Task -> Set] /\ snap' \in [Task -> Set] /\ records' \in Set
  BY <1>1, EmptyType DEF Exit
<1>5. UNCHANGED <<session, starts, doc, mark, listed, failures>>
  BY DEF Exit, disk_vars, history_vars
<1>6. TypeOK'
  BY <1>1, <1>3, <1>4, <1>5 DEF TInv, TypeOK
<1>7. AdoptsLaunch'
  BY <1>1, <1>2 DEF AdoptsLaunch, AtRest, Adopting
<1> QED BY <1>1, <1>2, <1>6, <1>7 DEF TInv, OffAtRest

\* A step of a task, or one that starts a task, is a step of a session, and
\* leaves what the session is about.
TaskStep == \/ Primed \/ GiveUp \/ PressRefresh \/ Carry
            \/ \E ids \in SUBSET Repo : Due(ids)
            \/ \E t \in Task : TaskNext(t)

LEMMA FlyingIsUp ==
  ASSUME TInv, NEW t \in Task, pc[t] # "idle" \/ fly[t] # {} \/ life = "on"
  PROVE  life # "off"
BY DEF TInv, OffAtRest, AtRest

\* What such a step has left to show.
LEMMA StepT ==
  ASSUME TInv, life # "off", UNCHANGED <<life, launch, exclude>>, TypeOK',
         \A t \in Task : pc'[t] \in Adopting => pc[t] \in Adopting \/ launch # None
  PROVE  TInv'
BY DEF TInv, AdoptsLaunch, OffAtRest

\* Steps that end or move a task and write no set of repositories.
LEMMA MovesT ==
  ASSUME TInv, NEW t \in Task, NEW next \in Stages,
         pc[t] # "idle",
         pc' = [pc EXCEPT ![t] = next],
         next \in Adopting => pc[t] \in Adopting \/ launch # None,
         UNCHANGED <<life, session, launch, exclude, starts, listed, mark>>,
         seeded' \in BOOLEAN, running' \in BOOLEAN,
         records' \in Set, doc' \in Set,
         todo' \in [Task -> SUBSET Repo], fly' \in [Task -> SUBSET Repo],
         carried' \in [Task -> Set], snap' \in [Task -> Set],
         held' \in [Task -> BOOLEAN],
         failures' \in [Repo -> 0..RetirementThreshold]
  PROVE  TInv'
<1>1. life # "off"
  BY FlyingIsUp
<1>2. pc' \in [Task -> Stages] /\ \A u \in Task : u # t => pc'[u] = pc[u]
  BY DEF TInv, TypeOK
<1>3. TypeOK'
  BY <1>2 DEF TInv, TypeOK
<1>4. ASSUME NEW u \in Task, pc'[u] \in Adopting
      PROVE  pc[u] \in Adopting \/ launch # None
  <2>1. pc'[t] = next
    BY DEF TInv, TypeOK
  <2> QED BY <1>2, <1>4, <2>1
<1> QED BY <1>1, <1>3, <1>4, StepT

LEMMA StartsT ==
  ASSUME TInv, Primed \/ GiveUp \/ PressRefresh \/ Carry \/ \E ids \in SUBSET Repo : Due(ids)
  PROVE  TInv'
<1> USE DEF Stages, Adopting, To, End, Task, session_vars, disk_vars, work_vars,
            history_vars, Frame, Launcher, Refresher, Reprober
<1>1. CASE Primed
  BY <1>1, MovesT DEF Primed, TInv, TypeOK
<1>2. CASE GiveUp
  BY <1>2, MovesT DEF GiveUp, TInv, TypeOK
<1>3. CASE PressRefresh
  <2>1. pc' \in [Task -> Stages] /\ starts' \in Nat /\ running' \in BOOLEAN
    <3>1. starts' \in Nat
      <4>1. starts \in Nat
        BY DEF TInv, TypeOK
      <4>2. starts' = starts + 1
        BY <1>3 DEF PressRefresh
      <4> QED BY <4>1, <4>2
    <3>2. running' \in BOOLEAN
      BY <1>3 DEF PressRefresh
    <3>3. pc' \in [Task -> Stages]
      BY <1>3 DEF PressRefresh, TInv, TypeOK
    <3> QED BY <3>1, <3>2, <3>3
  <2>2. UNCHANGED <<life, session, launch, exclude, seeded, records, doc, mark,
                    todo, fly, carried, snap, held, listed, failures>>
    BY <1>3 DEF PressRefresh
  <2>3. TypeOK'
    BY <2>1, <2>2 DEF TInv, TypeOK
  <2> QED BY <1>3, <2>3, StepT DEF PressRefresh, TInv, TypeOK
<1>4. CASE Carry
  <2>1. [r \in Repo |-> IF r \in todo[Reprober] THEN records[r] ELSE None] \in Set
    BY DEF TInv, TypeOK, Set
  <2>2. carried' \in [Task -> Set]
    BY <1>4, <2>1 DEF Carry, TInv, TypeOK
  <2> QED BY <1>4, <2>2, MovesT DEF Carry, TInv, TypeOK
<1>5. ASSUME NEW ids \in SUBSET Repo, Due(ids) PROVE TInv'
  <2>1. pc' \in [Task -> Stages] /\ starts' \in Nat
        /\ todo' \in [Task -> SUBSET Repo]
    <3>1. starts' \in Nat
      <4>1. starts \in Nat
        BY DEF TInv, TypeOK
      <4>2. starts' = starts + 1
        BY <1>5 DEF Due
      <4> QED BY <4>1, <4>2
    <3>2. todo' \in [Task -> SUBSET Repo]
      BY <1>5 DEF Due, TInv, TypeOK
    <3>3. pc' \in [Task -> Stages]
      BY <1>5 DEF Due, TInv, TypeOK
    <3> QED BY <3>1, <3>2, <3>3
  <2>2. UNCHANGED <<life, session, launch, exclude, seeded, records, doc, mark,
                    running, fly, carried, snap, held, listed, failures>>
    BY <1>5 DEF Due
  <2>3. TypeOK'
    BY <2>1, <2>2 DEF TInv, TypeOK
  <2> QED BY <1>5, <2>3, StepT DEF Due, TInv, TypeOK
<1> QED BY <1>1, <1>2, <1>3, <1>4, <1>5

LEMMA PassT ==
  ASSUME TInv, NEW t \in Task,
         \/ \E ids \in SUBSET Repo : Enumerate(t, ids)
         \/ EnumerateFails(t) \/ Break(t) \/ Persist(t)
         \/ \E r \in Repo : Spawn(t, r)
         \/ \E b \in BOOLEAN : Save(t, b) \/ Mark(t, b)
  PROVE  TInv'
<1> USE DEF Stages, Adopting, To, End, session_vars, disk_vars, work_vars,
            history_vars, Frame
<1>1. ASSUME NEW ids \in SUBSET Repo, Enumerate(t, ids) PROVE TInv'
  <2>1. TypeOK'
    BY <1>1 DEF Enumerate, TInv, TypeOK
  <2>2. life # "off"
    BY <1>1, FlyingIsUp DEF Enumerate
  <2> QED BY <1>1, <2>1, <2>2, StepT DEF Enumerate, TInv, TypeOK
<1>2. CASE EnumerateFails(t)
  BY <1>2, MovesT DEF EnumerateFails, TInv, TypeOK
<1>3. CASE Break(t)
  <2>1. TypeOK'
    BY <1>3 DEF Break, TInv, TypeOK
  <2>2. life # "off"
    BY <1>3, FlyingIsUp DEF Break
  <2> QED BY <1>3, <2>1, <2>2, StepT DEF Break, TInv, TypeOK
<1>4. CASE Persist(t)
  <2>1. snap' \in [Task -> Set] /\ carried' \in [Task -> Set]
    BY <1>4, PersistableType, EmptyType DEF Persist, TInv, TypeOK
  <2>2. pc[t] # "idle"
    BY <1>4 DEF Persist
  <2> QED BY <1>4, <2>1, <2>2, MovesT DEF Persist, TInv, TypeOK
<1>5. ASSUME NEW r \in Repo, Spawn(t, r) PROVE TInv'
  <2>1. TypeOK'
    BY <1>5 DEF Spawn, TInv, TypeOK
  <2>2. life # "off"
    BY <1>5 DEF Spawn
  <2> QED BY <1>5, <2>1, <2>2, StepT DEF Spawn, TInv, TypeOK
<1>6. ASSUME NEW b \in BOOLEAN, Save(t, b) PROVE TInv'
  <2>1. snap' \in [Task -> Set] /\ doc' \in Set
    BY <1>6, EmptyType DEF Save, TInv, TypeOK
  <2> QED BY <1>6, <2>1, MovesT DEF Save, TInv, TypeOK
<1>7. ASSUME NEW b \in BOOLEAN, Mark(t, b) PROVE TInv'
  <2>1. mark' \in SUBSET Repo
    BY <1>7 DEF Mark, TInv, TypeOK
  <2>2. TypeOK'
    BY <1>7, <2>1 DEF Mark, TInv, TypeOK
  <2>3. life # "off"
    BY <1>7, FlyingIsUp DEF Mark
  <2> QED BY <1>7, <2>2, <2>3, StepT DEF Mark, TInv, TypeOK
<1> QED BY <1>1, <1>2, <1>3, <1>4, <1>5, <1>6, <1>7

LEMMA AnswersT ==
  ASSUME TInv, NEW t \in Task, NEW r \in Repo,
         \/ \E b \in BOOLEAN : Succeeds(t, r, b)
         \/ FailsForGood(t, r) \/ FailsForNow(t, r)
  PROVE  TInv'
<1>1. Lands(t, r)
  BY DEF Succeeds, FailsForGood, FailsForNow
<1>2. fly' \in [Task -> SUBSET Repo]
      /\ UNCHANGED <<life, session, launch, exclude, seeded, starts, doc, mark,
                     running, pc, todo, carried, snap, held, listed>>
  BY <1>1 DEF Lands, TInv, TypeOK, Frame, session_vars, disk_vars
<1>3. records' \in Set /\ failures' \in [Repo -> 0..RetirementThreshold]
  <2>1. ASSUME NEW b \in BOOLEAN, Succeeds(t, r, b)
        PROVE  records' \in Set /\ failures' \in [Repo -> 0..RetirementThreshold]
    BY <2>1, BuildType, PutProbedType DEF Succeeds, TInv
  <2>2. CASE FailsForGood(t, r)
    BY <2>2, CountType DEF FailsForGood, TInv
  <2>3. CASE FailsForNow(t, r)
    BY <2>3 DEF FailsForNow, TInv, TypeOK
  <2> QED BY <2>1, <2>2, <2>3
<1>4. TypeOK'
  BY <1>2, <1>3 DEF TInv, TypeOK
<1>5. life # "off"
  BY <1>1, FlyingIsUp DEF Lands
<1> QED BY <1>2, <1>4, <1>5, StepT

LEMMA AdoptionT ==
  ASSUME TInv, NEW t \in Task,
         \/ Member(t) \/ HasRecord(t) \/ Capability(t) \/ Admit(t) \/ AdoptFails(t)
         \/ \E b \in BOOLEAN : ClassifyOne(t, b)
  PROVE  TInv'
<1> USE DEF Stages, Adopting, To, End, session_vars, disk_vars, work_vars,
            history_vars, Frame
<1>1. CASE Member(t)
  BY <1>1, MovesT DEF Member, TInv, TypeOK
<1>2. CASE HasRecord(t)
  BY <1>2, MovesT DEF HasRecord, TInv, TypeOK
<1>3. CASE Capability(t)
  <2>1. held' \in [Task -> BOOLEAN]
    <3>1. (records[launch] # None /\ records[launch].hasRuns) \in BOOLEAN
      <4>1. CASE records[launch] = None
        BY <4>1
      <4>2. CASE records[launch] # None
        <5>1. launch \in Repo
          BY <1>3 DEF Capability, TInv, AdoptsLaunch, TypeOK
        <5>2. records[launch] \in Record
          BY <4>2, <5>1 DEF TInv, TypeOK, Set
        <5> QED BY <5>2 DEF Record
      <4> QED BY <4>1, <4>2
    <3> QED BY <1>3, <3>1 DEF Capability, TInv, TypeOK
  <2> QED BY <1>3, <2>1, MovesT DEF Capability, TInv, TypeOK
<1>4. CASE Admit(t)
  <2>1. launch \in Repo
    BY <1>4 DEF Admit, TInv, AdoptsLaunch, TypeOK
  <2>2. [known |-> TRUE, adopted |-> TRUE, hasRuns |-> held[t], fails |-> 0] \in Record
    <3>1. held[t] \in BOOLEAN
      BY DEF TInv, TypeOK
    <3>2. 0 \in 0..(RetirementThreshold - 1)
      BY DiscoveryAssumption
    <3> QED BY <3>1, <3>2 DEF Record
  <2>3. records' \in Set
    BY <1>4, <2>1, <2>2, PutType DEF Admit, TInv, TypeOK
  <2>4. held' \in [Task -> BOOLEAN]
    BY <1>4 DEF Admit, TInv, TypeOK
  <2> QED BY <1>4, <2>3, <2>4, MovesT DEF Admit, TInv, TypeOK
<1>5. CASE AdoptFails(t)
  BY <1>5, MovesT DEF AdoptFails, TInv, TypeOK
<1>6. ASSUME NEW b \in BOOLEAN, ClassifyOne(t, b) PROVE TInv'
  <2>1. launch \in Repo
    BY <1>6 DEF ClassifyOne, TInv, AdoptsLaunch, TypeOK
  <2>2. [Blank EXCEPT !.hasRuns = b] \in Record
    BY BlankType, RecordFields
  <2>3. records' \in Set /\ failures' \in [Repo -> 0..RetirementThreshold]
    BY <1>6, <2>1, <2>2, PutProbedType DEF ClassifyOne, TInv
  <2> QED BY <1>6, <2>3, MovesT DEF ClassifyOne, TInv, TypeOK
<1> QED BY <1>1, <1>2, <1>3, <1>4, <1>5, <1>6

LEMMA StepPreservesT == TInv /\ [Next]_vars => TInv'
<1> SUFFICES ASSUME TInv, [Next]_vars PROVE TInv'
  OBVIOUS
<1>1. ASSUME NEW first \in Launches, NEW ex \in Excludes, Start(first, ex)
      PROVE  TInv'
  BY <1>1, StartT
<1>2. CASE Quit
  <2>1. TypeOK'
    BY <1>2 DEF Quit, TInv, TypeOK, disk_vars, work_vars, history_vars
  <2>2. life' # "off" /\ UNCHANGED <<launch, exclude, pc>>
    BY <1>2 DEF Quit
  <2> QED BY <2>1, <2>2 DEF TInv, AdoptsLaunch, OffAtRest
<1>3. CASE Exit
  BY <1>3, ExitT
<1>4. CASE Primed \/ GiveUp \/ PressRefresh \/ Carry \/ \E ids \in SUBSET Repo : Due(ids)
  BY <1>4, StartsT
<1>5. ASSUME NEW t \in Task, TaskNext(t) PROVE TInv'
  BY <1>5, PassT, AnswersT, AdoptionT DEF TaskNext
<1>6. CASE UNCHANGED vars
  <2>1. UNCHANGED <<life, session, launch, exclude, seeded, starts, records,
                    doc, mark, running, pc, todo, fly, carried, snap, held,
                    listed, failures>>
    BY <1>6 DEF vars, session_vars, disk_vars, work_vars, history_vars
  <2>2. TypeOK'
    BY <2>1 DEF TInv, TypeOK
  <2>3. AdoptsLaunch'
    BY <2>1 DEF TInv, AdoptsLaunch
  <2>4. OffAtRest'
    BY <2>1 DEF TInv, OffAtRest, AtRest
  <2> QED BY <2>2, <2>3, <2>4 DEF TInv
<1> QED BY <1>1, <1>2, <1>3, <1>4, <1>5, <1>6 DEF Next, SessionNext

LEMMA Typed == Spec => []TInv
BY InitT, StepPreservesT, PTL DEF Spec

\* Every variable keeps its type.
THEOREM TypeCorrect == Spec => []TypeOK
<1>1. TInv => TypeOK
  BY DEF TInv
<1> QED BY <1>1, Typed, PTL

-----------------------------------------------------------------------------
(***************************************************************************)
(* Excluded repositories.  Every door to the set refuses them, fanOut does *)
(* before a probe is sent, and the launch repository is not excluded while *)
(* a session runs: ExcludedGetNothing is inductive over TInv.              *)
(***************************************************************************)
Closed == /\ exclude \cap Recorded = {}
          /\ \A t \in Task : exclude \cap fly[t] = {}

LEMMA StepKeepsClosed ==
  ASSUME TInv, Closed, [Next]_vars
  PROVE  Closed'
<1> USE DEF Closed, Recorded
<1>1. ASSUME NEW first \in Launches, NEW ex \in Excludes, Start(first, ex)
      PROVE  Closed'
  <2>1. \A t \in Task : fly'[t] = {}
    BY <1>1 DEF Start, work_vars, TInv, OffAtRest, AtRest
  <2>2. \A r \in Repo : r \in ex => records'[r] = None
    BY <1>1 DEF Start, Reload
  <2> QED BY <1>1, <2>1, <2>2 DEF Start
<1>2. CASE Exit
  BY <1>2 DEF Exit
<1>3. ASSUME exclude' = exclude, fly' = fly,
             \A r \in exclude : records'[r] = records[r]
      PROVE  Closed'
  BY <1>3
<1>4. ASSUME NEW r \in Repo, NEW rec, Put(r, rec)
      PROVE  \A q \in exclude : records'[q] = records[q]
  BY <1>4 DEF Put, TInv, TypeOK, Set
<1>5. CASE Quit \/ Primed \/ GiveUp \/ PressRefresh \/ Carry \/ \E ids \in SUBSET Repo : Due(ids)
  BY <1>3, <1>5 DEF Quit, Primed, GiveUp, PressRefresh, Carry, Due, Frame,
     session_vars, work_vars
<1>6. ASSUME NEW t \in Task, TaskNext(t) PROVE Closed'
  <2> USE DEF Frame, session_vars, work_vars
  <2>1. CASE \/ \E ids \in SUBSET Repo : Enumerate(t, ids)
             \/ EnumerateFails(t) \/ Break(t) \/ Persist(t)
             \/ \E b \in BOOLEAN : Save(t, b) \/ Mark(t, b)
             \/ Member(t) \/ HasRecord(t) \/ Capability(t) \/ AdoptFails(t)
    BY <1>3, <2>1 DEF Enumerate, EnumerateFails, Break, Persist, Save, Mark,
       Member, HasRecord, Capability, AdoptFails
  <2>2. ASSUME NEW r \in Repo, Spawn(t, r) PROVE Closed'
    BY <2>2 DEF Spawn, TInv, TypeOK
  <2>3. ASSUME NEW r \in Repo, Lands(t, r),
               \A q \in exclude : records'[q] = records[q]
        PROVE  Closed'
    BY <2>3 DEF Lands, TInv, TypeOK
  <2>4. ASSUME NEW r \in Repo, NEW b \in BOOLEAN, Succeeds(t, r, b) PROVE Closed'
    BY <1>4, <2>3, <2>4 DEF Succeeds, PutProbed
  <2>5. ASSUME NEW r \in Repo, FailsForGood(t, r) \/ FailsForNow(t, r) PROVE Closed'
    <3>1. \A q \in exclude : records'[q] = records[q]
      BY <2>5 DEF FailsForGood, FailsForNow, CountDefinitiveFailure, Lands,
         TInv, TypeOK, Set
    <3> QED BY <2>3, <2>5, <3>1 DEF FailsForGood, FailsForNow
  <2>6. ASSUME NEW b \in BOOLEAN, ClassifyOne(t, b) PROVE Closed'
    <3>1. launch \in Repo
      BY <2>6 DEF ClassifyOne, TInv, AdoptsLaunch, TypeOK, Adopting
    <3> QED BY <1>3, <1>4, <2>6, <3>1 DEF ClassifyOne, PutProbed
  <2>7. CASE Admit(t)
    <3>1. launch \in Repo
      BY <2>7 DEF Admit, TInv, AdoptsLaunch, TypeOK, Adopting
    <3> QED BY <1>3, <1>4, <2>7, <3>1 DEF Admit
  <2> QED BY <1>6, <2>1, <2>2, <2>4, <2>5, <2>6, <2>7 DEF TaskNext
<1>7. CASE UNCHANGED vars
  BY <1>3, <1>7 DEF vars, session_vars, work_vars
<1> QED BY <1>1, <1>2, <1>5, <1>6, <1>7 DEF Next, SessionNext

LEMMA AlwaysClosed == Spec => []Closed
<1>1. Init => Closed
  BY DEF Init, Closed
<1>2. TInv /\ Closed /\ [Next]_vars => Closed'
  BY StepKeepsClosed
<1> QED BY <1>1, <1>2, Typed, PTL DEF Spec

\* An excluded repository is never recorded or asked about, in any session.
THEOREM NothingForExcluded == Spec => []ExcludedGetNothing
<1>1. TInv /\ Closed => ExcludedGetNothing
  BY DEF TInv, AdoptsLaunch, Closed, ExcludedGetNothing
<1> QED BY <1>1, Typed, AlwaysClosed, PTL

-----------------------------------------------------------------------------
(***************************************************************************)
(* Outsiders.  A record says by itself whether it may outlive its session: *)
(* one that an enumeration never vouched for is adopted or is unknown, and *)
(* a reload takes neither.  The argument follows the record from the set   *)
(* through a re-probe's snapshot and through persist into the document.    *)
(***************************************************************************)
VouchedIn(S) == \A r \in Repo :
    S[r] # None /\ S[r].known => r \in listed \/ S[r].adopted
KnownIn(S) == \A r \in Repo : S[r] # None => r \in listed \/ S[r].adopted
WorkFrom(t) == IF t = Reprober THEN listed \cup {launch} ELSE listed

Vouched ==
  /\ OutsidersAreLaunched
  /\ VouchedIn(records) /\ KnownIn(doc)
  /\ \A t \in Task : VouchedIn(carried[t]) /\ KnownIn(snap[t])
  /\ \A t \in Task : todo[t] \subseteq WorkFrom(t) /\ fly[t] \subseteq WorkFrom(t)

\* What a step that writes one record owes.
LEMMA OneRecordVouched ==
  ASSUME TInv, Vouched, NEW r \in Repo, NEW rec \in Record \cup {None},
         r \in listed \cup {launch},
         rec # None /\ rec.known => r \in listed \/ rec.adopted,
         listed' = listed, launch' = launch,
         \/ records' = records
         \/ records' = [records EXCEPT ![r] = rec]
  PROVE  (OutsidersAreLaunched /\ VouchedIn(records))'
BY DEF Vouched, OutsidersAreLaunched, VouchedIn, Recorded, TInv, TypeOK, Set

\* Steps that leave every set of repositories, or the set of records alone,
\* where it was.
LEMMA QuietVouched ==
  ASSUME TInv, Vouched, launch' = launch, listed' = listed,
         (OutsidersAreLaunched /\ VouchedIn(records))',
         UNCHANGED <<doc, carried, snap, todo, fly>>
  PROVE  Vouched'
BY DEF Vouched, VouchedIn, KnownIn, WorkFrom

LEMMA SessionVouched ==
  ASSUME TInv, Vouched, SessionNext
  PROVE  Vouched'
<1>1. ASSUME NEW first \in Launches, NEW ex \in Excludes, Start(first, ex)
      PROVE  Vouched'
  <2>1. UNCHANGED <<doc, todo, fly, carried, snap, listed>>
        /\ records' = Reload(ex)
    BY <1>1 DEF Start, disk_vars, work_vars
  <2>2. \A t \in Task : todo[t] = {} /\ fly[t] = {}
    BY <1>1 DEF Start, TInv, OffAtRest, AtRest
  <2>3. \A r \in Repo : records'[r] # None => r \in listed
    BY <2>1 DEF Reload, Vouched, KnownIn
  <2> QED BY <2>1, <2>2, <2>3 DEF Vouched, VouchedIn, KnownIn, OutsidersAreLaunched,
         Recorded
<1>2. CASE Quit
  BY <1>2 DEF Quit, disk_vars, work_vars, history_vars, Vouched, VouchedIn,
     KnownIn, OutsidersAreLaunched, Recorded, WorkFrom
<1>3. CASE Exit
  BY <1>3 DEF Exit, disk_vars, history_vars, Vouched, VouchedIn, KnownIn,
     OutsidersAreLaunched, Recorded, Empty
<1> QED BY <1>1, <1>2, <1>3 DEF SessionNext

LEMMA StartsVouched ==
  ASSUME TInv, Vouched,
         Primed \/ GiveUp \/ PressRefresh \/ Carry \/ \E ids \in SUBSET Repo : Due(ids)
  PROVE  Vouched'
<1>1. (OutsidersAreLaunched /\ VouchedIn(records))' /\ UNCHANGED <<records, listed, launch, doc>>
  BY DEF Primed, GiveUp, PressRefresh, Carry, Due, Frame, session_vars, disk_vars,
     history_vars, Vouched, OutsidersAreLaunched, VouchedIn, Recorded
<1>2. CASE Primed \/ GiveUp \/ PressRefresh
  BY <1>1, <1>2, QuietVouched DEF Primed, GiveUp, PressRefresh, work_vars
<1>3. CASE Carry
  <2>1. VouchedIn(carried'[Reprober])
    BY <1>1, <1>3 DEF Carry, Vouched, VouchedIn, TInv, TypeOK, Task
  <2>2. \A t \in Task : VouchedIn(carried'[t])
    BY <1>1, <1>3, <2>1 DEF Carry, Vouched, VouchedIn, TInv, TypeOK
  <2> QED BY <1>1, <1>3, <2>2 DEF Carry, Vouched, VouchedIn, KnownIn, WorkFrom
<1>4. ASSUME NEW ids \in SUBSET Repo, Due(ids) PROVE Vouched'
  <2>1. ids \subseteq WorkFrom(Reprober)
    BY <1>4 DEF Due, Vouched, OutsidersAreLaunched, Recorded, WorkFrom
  <2>2. \A t \in Task : todo'[t] \subseteq WorkFrom(t)
    BY <1>4, <2>1 DEF Due, Vouched, TInv, TypeOK
  <2> QED BY <1>1, <1>4, <2>2 DEF Due, Vouched, VouchedIn, KnownIn, WorkFrom
<1> QED BY <1>2, <1>3, <1>4

LEMMA PassVouched ==
  ASSUME TInv, Vouched, NEW t \in Task,
         \/ \E ids \in SUBSET Repo : Enumerate(t, ids)
         \/ EnumerateFails(t) \/ Break(t) \/ Persist(t)
         \/ \E r \in Repo : Spawn(t, r)
         \/ \E b \in BOOLEAN : Save(t, b) \/ Mark(t, b)
  PROVE  Vouched'
<1> USE DEF Frame, session_vars
<1>1. records' = records /\ launch' = launch /\ listed \subseteq listed'
  BY DEF Enumerate, EnumerateFails, Break, Persist, Spawn, Save, Mark, disk_vars,
     work_vars, history_vars
<1>2. (OutsidersAreLaunched /\ VouchedIn(records))'
  BY <1>1 DEF Vouched, OutsidersAreLaunched, VouchedIn, Recorded
<1>3. ASSUME NEW ids \in SUBSET Repo, Enumerate(t, ids) PROVE Vouched'
  <2>1. \A u \in Task : todo'[u] \subseteq WorkFrom(u)' /\ fly'[u] \subseteq WorkFrom(u)'
    BY <1>1, <1>3 DEF Enumerate, Vouched, WorkFrom, TInv, TypeOK
  <2> QED BY <1>1, <1>2, <1>3, <2>1 DEF Enumerate, disk_vars, Vouched, VouchedIn, KnownIn
<1>4. CASE EnumerateFails(t) \/ \E b \in BOOLEAN : Mark(t, b)
  BY <1>1, <1>2, <1>4, QuietVouched DEF EnumerateFails, Mark, disk_vars, work_vars,
     history_vars
<1>5. ASSUME Break(t) \/ \E r \in Repo : Spawn(t, r) PROVE Vouched'
  <2>1. /\ \A u \in Task : todo'[u] \subseteq todo[u] /\ fly'[u] \subseteq fly[u] \cup todo[u]
        /\ UNCHANGED <<doc, carried, snap, listed, launch>>
    BY <1>5 DEF Break, Spawn, disk_vars, history_vars, TInv, TypeOK
  <2>2. \A u \in Task : todo'[u] \subseteq WorkFrom(u)' /\ fly'[u] \subseteq WorkFrom(u)'
    BY <2>1 DEF Vouched, WorkFrom
  <2> QED BY <1>2, <2>1, <2>2 DEF Vouched, VouchedIn, KnownIn
<1>6. CASE Persist(t)
  <2>1. UNCHANGED <<doc, todo, fly, listed, launch>>
    BY <1>6 DEF Persist, disk_vars, history_vars
  <2>2. KnownIn(Persistable)
    BY DEF Vouched, VouchedIn, KnownIn, Persistable
  <2>3. VouchedIn(Empty)
    BY DEF VouchedIn, Empty
  <2>4. \A u \in Task : VouchedIn(carried'[u]) /\ KnownIn(snap'[u])
    BY <1>6, <2>2, <2>3 DEF Persist, Vouched, TInv, TypeOK
  <2> QED BY <1>2, <2>1, <2>4 DEF Vouched, VouchedIn, KnownIn, WorkFrom
<1>7. ASSUME NEW b \in BOOLEAN, Save(t, b) PROVE Vouched'
  <2>1. UNCHANGED <<todo, fly, listed, launch, carried>>
    BY <1>7 DEF Save, history_vars
  <2>2. KnownIn(doc')
    BY <1>7 DEF Save, Vouched
  <2>3. KnownIn(Empty)
    BY DEF KnownIn, Empty
  <2>4. \A u \in Task : KnownIn(snap'[u])
    BY <1>7, <2>3 DEF Save, Vouched, TInv, TypeOK
  <2> QED BY <1>2, <2>1, <2>2, <2>4 DEF Vouched, VouchedIn, KnownIn, WorkFrom
<1> QED BY <1>3, <1>4, <1>5, <1>6, <1>7

LEMMA AnswersVouched ==
  ASSUME TInv, Vouched, NEW t \in Task, NEW r \in Repo,
         \/ \E b \in BOOLEAN : Succeeds(t, r, b)
         \/ FailsForGood(t, r) \/ FailsForNow(t, r)
  PROVE  Vouched'
<1>1. Lands(t, r)
  BY DEF Succeeds, FailsForGood, FailsForNow
<1>2. /\ r \in fly[t] /\ \A u \in Task : fly'[u] \subseteq fly[u]
      /\ UNCHANGED <<launch, listed, doc, todo, carried, snap>>
  BY <1>1 DEF Lands, Frame, session_vars, disk_vars, TInv, TypeOK
<1>3. r \in listed \cup {launch} /\ (t # Reprober => r \in listed)
  BY <1>2 DEF Vouched, WorkFrom
<1>4. (OutsidersAreLaunched /\ VouchedIn(records))'
  <2>1. ASSUME NEW b \in BOOLEAN, Succeeds(t, r, b)
        PROVE  (OutsidersAreLaunched /\ VouchedIn(records))'
    <3> DEFINE rec == [Build(t, r, b) EXCEPT !.fails = 0]
    <3>1. Build(t, r, b) \in Record
      BY BuildType DEF TInv
    <3>2. rec \in Record
      BY <3>1, RecordFields
    <3>3. rec.known = Build(t, r, b).known /\ rec.adopted = Build(t, r, b).adopted
      BY <3>1 DEF Record
    <3>4. Build(t, r, b).known => r \in listed \/ Build(t, r, b).adopted
      BY <1>3, BuildType DEF TInv, Vouched, VouchedIn
    <3>5. records' = records \/ records' = [records EXCEPT ![r] = rec]
      BY <2>1 DEF Succeeds, PutProbed, Put
    <3> HIDE DEF rec
    <3> QED BY <1>2, <1>3, <3>2, <3>3, <3>4, <3>5, OneRecordVouched
  <2>2. CASE FailsForGood(t, r)
    <3>1. CASE records[r] = None
      BY <1>2, <2>2, <3>1 DEF FailsForGood, CountDefinitiveFailure, Vouched,
         OutsidersAreLaunched, VouchedIn, Recorded
    <3>2. CASE records[r] # None
      <4>1. records[r] \in Record
        BY <3>2 DEF TInv, TypeOK, Set
      <4>2. Counted(records[r]) \in Record \cup {None}
        BY <4>1, RecordFields, DiscoveryAssumption DEF Counted, Record
      <4>3. Counted(records[r]) # None =>
              /\ Counted(records[r]).known = records[r].known
              /\ Counted(records[r]).adopted = records[r].adopted
        BY <4>1 DEF Counted, Record
      <4>4. Counted(records[r]) # None /\ Counted(records[r]).known
              => r \in listed \/ Counted(records[r]).adopted
        BY <3>2, <4>3 DEF Vouched, VouchedIn
      <4>5. records' = [records EXCEPT ![r] = Counted(records[r])]
        BY <2>2, <3>2 DEF FailsForGood, CountDefinitiveFailure
      <4> QED BY <1>2, <1>3, <4>2, <4>4, <4>5, OneRecordVouched
    <3> QED BY <3>1, <3>2
  <2>3. CASE FailsForNow(t, r)
    BY <1>2, <2>3 DEF FailsForNow, Vouched, OutsidersAreLaunched, VouchedIn, Recorded
  <2> QED BY <2>1, <2>2, <2>3
<1> QED BY <1>2, <1>4 DEF Vouched, VouchedIn, KnownIn, WorkFrom

LEMMA AdoptionVouched ==
  ASSUME TInv, Vouched, NEW t \in Task,
         \/ Member(t) \/ HasRecord(t) \/ Capability(t) \/ Admit(t) \/ AdoptFails(t)
         \/ \E b \in BOOLEAN : ClassifyOne(t, b)
  PROVE  Vouched'
<1>1. UNCHANGED <<launch, listed, doc, todo, fly, carried, snap>>
  BY DEF Member, HasRecord, Capability, Admit, AdoptFails, ClassifyOne, Frame,
     session_vars, disk_vars, work_vars, history_vars
<1>2. (OutsidersAreLaunched /\ VouchedIn(records))'
  <2>1. CASE Member(t) \/ HasRecord(t) \/ Capability(t) \/ AdoptFails(t)
    BY <1>1, <2>1 DEF Member, HasRecord, Capability, AdoptFails, Vouched,
       OutsidersAreLaunched, VouchedIn, Recorded
  <2>2. ASSUME NEW b \in BOOLEAN, ClassifyOne(t, b)
        PROVE  (OutsidersAreLaunched /\ VouchedIn(records))'
    <3> DEFINE rec == [[Blank EXCEPT !.hasRuns = b] EXCEPT !.fails = 0]
    <3>1. launch \in Repo
      BY <2>2 DEF ClassifyOne, TInv, AdoptsLaunch, TypeOK, Adopting
    <3>2. rec \in Record
      BY BlankType, RecordFields
    <3>3. ~rec.known
      BY DEF Blank
    <3>4. records' = records \/ records' = [records EXCEPT ![launch] = rec]
      BY <2>2 DEF ClassifyOne, PutProbed, Put
    <3> HIDE DEF rec
    <3> QED BY <1>1, <3>1, <3>2, <3>3, <3>4, OneRecordVouched
  <2>3. CASE Admit(t)
    <3> DEFINE rec == [known |-> TRUE, adopted |-> TRUE, hasRuns |-> held[t], fails |-> 0]
    <3>1. launch \in Repo
      BY <2>3 DEF Admit, TInv, AdoptsLaunch, TypeOK, Adopting
    <3>2. rec \in Record
      <4>1. held[t] \in BOOLEAN
        BY DEF TInv, TypeOK
      <4>2. 0 \in 0..(RetirementThreshold - 1)
        BY DiscoveryAssumption
      <4> QED BY <4>1, <4>2 DEF Record
    <3>3. rec.adopted
      OBVIOUS
    <3>4. records' = records \/ records' = [records EXCEPT ![launch] = rec]
      BY <2>3 DEF Admit, Put
    <3> HIDE DEF rec
    <3> QED BY <1>1, <3>1, <3>2, <3>3, <3>4, OneRecordVouched
  <2> QED BY <2>1, <2>2, <2>3
<1> QED BY <1>1, <1>2, QuietVouched

\* The set never holds a repository that no enumeration has returned, other
\* than the one this session was launched in.
THEOREM OutsidersDoNotStay == Spec => []OutsidersAreLaunched
<1>1. Init => Vouched
  BY DEF Init, Vouched, OutsidersAreLaunched, Recorded, VouchedIn, KnownIn, Empty
<1>2. TInv /\ Vouched /\ [Next]_vars => Vouched'
  <2> SUFFICES ASSUME TInv, Vouched, [Next]_vars PROVE Vouched'
    OBVIOUS
  <2>1. ASSUME NEW t \in Task, TaskNext(t) PROVE Vouched'
    BY <2>1, PassVouched, AnswersVouched, AdoptionVouched DEF TaskNext
  <2>2. CASE UNCHANGED vars
    BY <2>2 DEF vars, session_vars, disk_vars, work_vars, history_vars, Vouched,
       VouchedIn, KnownIn, OutsidersAreLaunched, Recorded, WorkFrom
  <2> QED BY <2>1, <2>2, SessionVouched, StartsVouched DEF Next
<1>3. Vouched => OutsidersAreLaunched
  BY DEF Vouched
<1> QED BY <1>1, <1>2, <1>3, Typed, PTL DEF Spec

-----------------------------------------------------------------------------
(***************************************************************************)
(* Retirement.  A record's count never runs ahead of the definitive        *)
(* failures since its repository's last successful probe.  A success resets*)
(* both only because what it may not write, it holds no record of.         *)
(***************************************************************************)
CountsTrail == \A r \in Repo : records[r] # None => records[r].fails <= failures[r]

LEMMA StepKeepsCounts ==
  ASSUME TInv, Closed, CountsTrail, [Next]_vars
  PROVE  CountsTrail'
<1> USE DEF CountsTrail
<1>0. \A r \in Repo : failures[r] \in Nat
  BY DiscoveryAssumption DEF TInv, TypeOK
<1>1. ASSUME records' = records, failures' = failures PROVE CountsTrail'
  BY <1>1
<1>2. ASSUME NEW first \in Launches, NEW ex \in Excludes, Start(first, ex)
      PROVE  CountsTrail'
  <2>1. ASSUME NEW r \in Repo, Reload(ex)[r] # None
        PROVE  Reload(ex)[r].fails \in Nat
    BY <2>1, ReloadType, DiscoveryAssumption DEF TInv, Set, Record
  <2> QED BY <1>2, <2>1 DEF Start
<1>3. CASE Exit
  BY <1>3 DEF Exit, Empty
<1>4. CASE Quit \/ Primed \/ GiveUp \/ PressRefresh \/ Carry \/ \E ids \in SUBSET Repo : Due(ids)
  BY <1>1, <1>4 DEF Quit, Primed, GiveUp, PressRefresh, Carry, Due, history_vars
<1>5. ASSUME NEW t \in Task, TaskNext(t) PROVE CountsTrail'
  <2>1. CASE \/ \E ids \in SUBSET Repo : Enumerate(t, ids)
             \/ EnumerateFails(t) \/ Break(t) \/ Persist(t)
             \/ \E r \in Repo : Spawn(t, r) \/ FailsForNow(t, r)
             \/ \E b \in BOOLEAN : Save(t, b) \/ Mark(t, b)
             \/ Member(t) \/ HasRecord(t) \/ Capability(t) \/ AdoptFails(t)
    BY <1>1, <2>1 DEF Enumerate, EnumerateFails, Break, Persist, Save, Mark, Spawn,
       FailsForNow, Member, HasRecord, Capability, AdoptFails, history_vars
  <2>2. ASSUME NEW r \in Repo, NEW rec \in Record, PutProbed(r, rec) PROVE CountsTrail'
    <3>1. [rec EXCEPT !.fails = 0].fails = 0
      BY DEF Record
    <3>2. failures' = [failures EXCEPT ![r] = 0]
      BY <2>2 DEF PutProbed
    <3>3. CASE r \in exclude
      <4>1. records' = records
        BY <2>2, <3>3 DEF PutProbed, Put
      <4>2. records[r] = None
        BY <3>3 DEF Closed, Recorded
      <4> QED BY <3>2, <4>1, <4>2 DEF TInv, TypeOK
    <3>4. CASE r \notin exclude
      BY <2>2, <3>1, <3>2, <3>4, <1>0 DEF PutProbed, Put, TInv, TypeOK, Set
    <3> QED BY <3>3, <3>4
  <2>3. ASSUME NEW r \in Repo, NEW b \in BOOLEAN, Succeeds(t, r, b) PROVE CountsTrail'
    BY <2>2, <2>3, BuildType DEF Succeeds, TInv
  <2>4. ASSUME NEW b \in BOOLEAN, ClassifyOne(t, b) PROVE CountsTrail'
    <3>1. launch \in Repo
      BY <2>4 DEF ClassifyOne, TInv, AdoptsLaunch, TypeOK, Adopting
    <3> QED BY <2>2, <2>4, <3>1, BlankType, RecordFields DEF ClassifyOne
  <2>5. CASE Admit(t)
    <3>1. launch \in Repo
      BY <2>5 DEF Admit, TInv, AdoptsLaunch, TypeOK, Adopting
    <3>2. failures' = failures
      BY <2>5 DEF Admit, history_vars
    <3> QED BY <2>5, <3>1, <3>2, <1>0 DEF Admit, Put, TInv, TypeOK, Set
  <2>6. ASSUME NEW r \in Repo, FailsForGood(t, r) PROVE CountsTrail'
    <3>1. CASE records[r] = None
      BY <1>1, <2>6, <3>1 DEF FailsForGood, CountDefinitiveFailure
    <3>2. CASE records[r] # None
      <4>1. records[r] \in Record
        BY <3>2 DEF TInv, TypeOK, Set
      <4>2. records[r].fails \in Nat /\ records[r].fails < RetirementThreshold
            /\ RetirementThreshold \in Nat
        BY <4>1, DiscoveryAssumption DEF Record
      <4>3. Counted(records[r]) # None
              => Counted(records[r]).fails = records[r].fails + 1
                 /\ records[r].fails + 1 < RetirementThreshold
        BY <4>1, <4>2 DEF Counted, Record
      <4>4. records' = [records EXCEPT ![r] = Counted(records[r])]
            /\ failures' = [failures EXCEPT ![r] =
                 IF failures[r] < RetirementThreshold THEN failures[r] + 1 ELSE failures[r]]
        BY <2>6, <3>2 DEF FailsForGood, CountDefinitiveFailure
      <4>5. records[r].fails <= failures[r]
        BY <3>2
      <4>6. records'[r] # None => records'[r].fails <= failures'[r]
        BY <1>0, <4>2, <4>3, <4>4, <4>5 DEF TInv, TypeOK, Set
      <4>7. \A q \in Repo : q # r => records'[q] = records[q] /\ failures'[q] = failures[q]
        BY <4>4 DEF TInv, TypeOK, Set
      <4> QED BY <4>6, <4>7
    <3> QED BY <3>1, <3>2
  <2> QED BY <1>5, <2>1, <2>3, <2>4, <2>5, <2>6 DEF TaskNext
<1>6. CASE UNCHANGED vars
  BY <1>1, <1>6 DEF vars, history_vars
<1> QED BY <1>2, <1>3, <1>4, <1>5, <1>6 DEF Next, SessionNext

Retired == \A r \in Repo : Up /\ records[r] # None /\ records'[r] = None
                         => life' = "off" \/ failures'[r] >= RetirementThreshold

LEMMA StepRetires ==
  ASSUME TInv, CountsTrail, [Next]_vars
  PROVE  Retired
<1> SUFFICES ASSUME NEW r \in Repo, Up, records[r] # None, records'[r] = None
             PROVE  life' = "off" \/ failures'[r] >= RetirementThreshold
  BY DEF Retired
<1>1. records' # records
  OBVIOUS
<1>2. CASE SessionNext
  BY <1>1, <1>2 DEF SessionNext, Start, Quit, Exit, Up
<1>3. CASE Primed \/ GiveUp \/ PressRefresh \/ Carry \/ \E ids \in SUBSET Repo : Due(ids)
  BY <1>1, <1>3 DEF Primed, GiveUp, PressRefresh, Carry, Due
<1>4. ASSUME NEW q \in Repo, NEW rec \in Record, Put(q, rec) PROVE FALSE
  BY <1>4, DiscoveryAssumption DEF Put, TInv, TypeOK, Set
<1>5. ASSUME NEW t \in Task, TaskNext(t)
      PROVE  failures'[r] >= RetirementThreshold
  <2>1. PICK q \in Repo : FailsForGood(t, q)
    <3>1. ASSUME NEW q \in Repo, NEW b \in BOOLEAN, Succeeds(t, q, b) PROVE FALSE
      BY <1>4, <3>1, BuildType, RecordFields DEF Succeeds, PutProbed, TInv
    <3>2. launch \in Repo \/ ~(Admit(t) \/ \E b \in BOOLEAN : ClassifyOne(t, b))
      BY DEF Admit, ClassifyOne, TInv, AdoptsLaunch, TypeOK, Adopting
    <3>3. ASSUME NEW b \in BOOLEAN, ClassifyOne(t, b) PROVE FALSE
      BY <1>4, <3>2, <3>3, BlankType, RecordFields DEF ClassifyOne, PutProbed
    <3>4. ASSUME Admit(t) PROVE FALSE
      <4>1. held[t] \in BOOLEAN /\ 0 \in 0..(RetirementThreshold - 1)
        BY DiscoveryAssumption DEF TInv, TypeOK
      <4>2. [known |-> TRUE, adopted |-> TRUE, hasRuns |-> held[t], fails |-> 0] \in Record
        BY <4>1 DEF Record
      <4> QED BY <1>4, <3>2, <3>4, <4>2 DEF Admit
    <3>5. ~(\/ \E ids \in SUBSET Repo : Enumerate(t, ids)
            \/ EnumerateFails(t) \/ Break(t) \/ Persist(t)
            \/ \E q \in Repo : Spawn(t, q) \/ FailsForNow(t, q)
            \/ \E b \in BOOLEAN : Save(t, b) \/ Mark(t, b)
            \/ Member(t) \/ HasRecord(t) \/ Capability(t) \/ AdoptFails(t))
      BY <1>1 DEF Enumerate, EnumerateFails, Break, Persist, Save, Mark, Spawn,
         FailsForNow, Member, HasRecord, Capability, AdoptFails
    <3> QED BY <1>5, <3>1, <3>3, <3>4, <3>5 DEF TaskNext
  <2>2. records[q] # None /\ q = r
    BY <1>1, <2>1 DEF FailsForGood, CountDefinitiveFailure, TInv, TypeOK, Set
  <2>3. records[r] \in Record
    BY DEF TInv, TypeOK, Set
  <2>4. records[r].fails \in Nat /\ RetirementThreshold \in Nat
        /\ failures[r] \in 0..RetirementThreshold
    BY <2>3, DiscoveryAssumption DEF Record, TInv, TypeOK
  <2>5. Counted(records[r]) = None
    BY <2>1, <2>2 DEF FailsForGood, CountDefinitiveFailure, TInv, TypeOK, Set
  <2>6. [records[r] EXCEPT !.fails = @ + 1] # None
        \/ records[r].fails + 1 >= RetirementThreshold
    <3>1. CASE records[r].fails + 1 >= RetirementThreshold
      BY <3>1
    <3>2. CASE ~(records[r].fails + 1 >= RetirementThreshold)
      <4>1. records[r].fails + 1 < RetirementThreshold
        BY <2>4, <3>2
      <4>2. [records[r] EXCEPT !.fails = @ + 1] \in Record
        BY <2>3, <4>1, RecordFields
      <4> QED BY <4>2, RecordFields
    <3> QED BY <3>1, <3>2
  <2>7. records[r].fails + 1 >= RetirementThreshold
    BY <2>5, <2>6 DEF Counted
  <2>8. failures'[r] = IF failures[r] < RetirementThreshold THEN failures[r] + 1
                       ELSE failures[r]
    BY <2>1, <2>2 DEF FailsForGood, CountDefinitiveFailure, TInv, TypeOK
  <2> QED BY <2>4, <2>7, <2>8 DEF CountsTrail
<1> QED BY <1>1, <1>2, <1>3, <1>5 DEF Next, vars

\* Only RetirementThreshold definitive failures since its last successful probe
\* take a repository out of the set of a running session.
THEOREM RetirementNeedsFailures == Spec => RetiredByFailures
<1>1. Init => CountsTrail
  BY DEF Init, CountsTrail, Empty
<1>2. TInv /\ CountsTrail /\ [Next]_vars => [Retired]_vars
  BY StepRetires
<1>3. TInv /\ Closed /\ CountsTrail /\ [Next]_vars => CountsTrail'
  BY StepKeepsCounts
<1> QED BY <1>1, <1>2, <1>3, Typed, AlwaysClosed, PTL DEF Spec, RetiredByFailures, Retired

\* Reload, Pass, adopt and reprobe: for any repositories and lists, the set
\* holds nothing excluded and no outsider but the launch repository.
THEOREM SetStaysRight == Spec => []SetIsRight
<1>1. ExcludedGetNothing /\ OutsidersAreLaunched => SetIsRight
  BY DEF SetIsRight
<1> QED BY <1>1, NothingForExcluded, OutsidersDoNotStay, PTL

=============================================================================
