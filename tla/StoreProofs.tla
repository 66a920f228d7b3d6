------------------------------ MODULE StoreProofs ------------------------------
(***************************************************************************)
(* Proofs about the local store, for any number of processes, goroutines,  *)
(* keys, versions, kills and restarts, and any sizes and bounds.           *)
(***************************************************************************)
EXTENDS Store, FiniteSetTheorems, WellFoundedInduction, TLAPS

-----------------------------------------------------------------------------
(***************************************************************************)
(* The shape of the state.  The clock is one of its parts: it counts the   *)
(* starts, each of a process that is up or was killed.                     *)
(***************************************************************************)
ClockCounts == now = Cardinality(up) + crashes

Shape == /\ stage \in [Task -> Stage]
         /\ target \in [Task -> Key \cup Repo \cup {Doc, Nothing}]
         /\ \A t \in Task : target[t] \in Fits(stage[t])
         /\ held \in [Task -> Entry \cup {NoEntry}]
         /\ reply \in [Task -> Version]
         /\ seen \in [Task -> SUBSET Version]

LEMMA LeaveType ==
  ASSUME TypeOK, NEW T, Leave(T)
  PROVE  Shape'
<1>1. stage' \in [Task -> Stage]
  BY DEF Leave, TypeOK, Stage
<1>2. target' \in [Task -> Key \cup Repo \cup {Doc, Nothing}]
  BY DEF Leave, TypeOK
<1>3. held' \in [Task -> Entry \cup {NoEntry}]
  BY DEF Leave, TypeOK
<1>4. 0 \in Version
  BY StoreAssumption DEF Version
<1>5. reply' \in [Task -> Version] /\ seen' \in [Task -> SUBSET Version]
  BY <1>4 DEF Leave, TypeOK
<1>6. ASSUME NEW t \in Task PROVE target'[t] \in Fits(stage'[t])
  <2>1. CASE t \in T
    BY <2>1 DEF Leave, Fits
  <2>2. CASE t \notin T
    BY <2>2 DEF Leave, TypeOK
  <2> QED BY <2>1, <2>2
<1> QED BY <1>1, <1>2, <1>3, <1>5, <1>6 DEF Shape

LEMMA InitType == Init => TypeOK /\ ClockCounts
<1> SUFFICES ASSUME Init PROVE TypeOK /\ ClockCounts
  OBVIOUS
<1>1. Cardinality({}) = 0 /\ Cardinality(Proc) \in Nat
  BY StoreAssumption, FS_EmptySet, FS_CardinalityType
<1>2. 0 \in Version /\ 0 \in Sessions
  BY <1>1, StoreAssumption DEF Version, Sessions
<1>3. /\ server \in [Key -> Version] /\ disk \in [Key -> Disk]
      /\ temps \subseteq Task /\ lock \in Proc \cup {NoProc} /\ up \subseteq Proc
      /\ invalidated \in [Proc -> SUBSET Repo]
      /\ writeMu \in [Proc -> Task \cup {NoTask}]
  BY <1>2, StoreAssumption DEF Init
<1>4. Shape
  BY <1>2 DEF Init, Stage, Shape, Fits
<1>5. now \in Sessions /\ overdue \in BOOLEAN
  BY <1>2 DEF Init
<1>7. requests \in 0..MaxRequests /\ crashes \in 0..MaxCrashes
  BY StoreAssumption DEF Init
<1>6. ClockCounts
  BY <1>1 DEF Init, ClockCounts
<1> QED BY <1>3, <1>4, <1>5, <1>6, <1>7 DEF TypeOK, Shape

LEMMA StartType ==
  ASSUME TypeOK, ClockCounts, NEW p \in Proc, Start(p)
  PROVE  TypeOK' /\ ClockCounts'
<1>1. /\ IsFiniteSet(up) /\ IsFiniteSet(Proc) /\ p \notin up
      /\ up' = up \cup {p} /\ up' \subseteq Proc
  BY StoreAssumption, FS_Subset DEF Start, TypeOK
<1>2. /\ Cardinality(up) \in Nat /\ Cardinality(Proc) \in Nat
      /\ Cardinality(up') = Cardinality(up) + 1
      /\ Cardinality(up') <= Cardinality(Proc)
  BY <1>1, FS_AddElement, FS_Subset, FS_CardinalityType
<1>3. now' = now + 1 /\ crashes' = crashes /\ crashes \in 0..MaxCrashes
  BY DEF Start, TypeOK
<1>4. ClockCounts'
  BY <1>2, <1>3 DEF ClockCounts
<1>5. now' \in Sessions
  BY <1>2, <1>3, <1>4, StoreAssumption DEF ClockCounts, Sessions
<1>6. temps' \subseteq Task /\ lock' \in Proc \cup {NoProc}
  BY DEF Start, TypeOK
<1>7. UNCHANGED <<server, disk, invalidated, writeMu, request, requests, crashes,
                  overdue>>
  BY DEF Start
<1> QED BY <1>1, <1>4, <1>5, <1>6, <1>7 DEF TypeOK, request

LEMMA CrashType ==
  ASSUME TypeOK, ClockCounts, NEW p \in Proc, Crash(p)
  PROVE  TypeOK' /\ ClockCounts'
<1>1. IsFiniteSet(up) /\ p \in up /\ up' = up \ {p}
  BY StoreAssumption, FS_Subset DEF Crash, TypeOK
<1>2. Cardinality(up) \in Nat /\ Cardinality(up') = Cardinality(up) - 1
  BY <1>1, FS_RemoveElement, FS_CardinalityType
<1>3. crashes' = crashes + 1 /\ crashes' \in 0..MaxCrashes /\ crashes \in Nat /\ now' = now
  BY StoreAssumption DEF Crash, TypeOK
<1>4. ClockCounts'
  BY <1>2, <1>3 DEF ClockCounts
<1>5. \E T : Leave(T)
  BY DEF Crash
<1>6. Shape'
  BY <1>5, LeaveType
<1>7. /\ lock' \in Proc \cup {NoProc} /\ up' \subseteq Proc
      /\ invalidated' \in [Proc -> SUBSET Repo]
      /\ writeMu' \in [Proc -> Task \cup {NoTask}]
  BY DEF Crash, TypeOK
<1>8. overdue' \in BOOLEAN
  BY DEF Crash, TypeOK
<1>9. UNCHANGED <<server, disk, temps, now, requests>>
  BY DEF Crash
<1> QED BY <1>3, <1>4, <1>6, <1>7, <1>8, <1>9 DEF TypeOK, Shape

LEMMA ChangesType ==
  ASSUME TypeOK, NEW r, Changes(r)
  PROVE  server' \in [Key -> Version] /\ seen' \in [Task -> SUBSET Version]
<1> DEFINE K == {k \in Key : RepoOf[k] = r}
<1>1. /\ \A k \in K : server[k] < MaxVersion
      /\ server' = [k \in Key |-> IF k \in K THEN server[k] + 1 ELSE server[k]]
      /\ seen' = [t \in Task |->
                    IF stage[t] \in {"sent", "answered"} /\ target[t] \in K
                    THEN seen[t] \cup {server[target[t]] + 1} ELSE seen[t]]
  BY DEF Changes
<1>2. \A k \in K : server[k] + 1 \in Version
  BY <1>1, StoreAssumption DEF TypeOK, Version
<1> QED BY <1>1, <1>2 DEF TypeOK

LEMMA ChangeType ==
  ASSUME TypeOK, NEW r \in Repo, Change(r)
  PROVE  TypeOK'
<1>1. server' \in [Key -> Version] /\ seen' \in [Task -> SUBSET Version]
  BY ChangesType DEF Change
<1> QED BY <1>1 DEF Change, TypeOK, budget

\* A call that moves on and keeps its target.
LEMMA MoveType ==
  ASSUME TypeOK, NEW t \in Task, NEW s \in Stage, NEW g \in Fits(s),
         stage' = [stage EXCEPT ![t] = s],
         target' = [target EXCEPT ![t] = g]
  PROVE  /\ stage' \in [Task -> Stage]
         /\ target' \in [Task -> Key \cup Repo \cup {Doc, Nothing}]
         /\ \A u \in Task : target'[u] \in Fits(stage'[u])
<1>1. g \in Key \cup Repo \cup {Doc, Nothing}
  BY DEF Fits, Stage
<1>2. stage' \in [Task -> Stage] /\ target' \in [Task -> Key \cup Repo \cup {Doc, Nothing}]
  BY <1>1 DEF TypeOK
<1>3. ASSUME NEW u \in Task PROVE target'[u] \in Fits(stage'[u])
  <2>1. CASE u = t
    BY <2>1 DEF TypeOK
  <2>2. CASE u # t
    BY <2>2 DEF TypeOK
  <2> QED BY <2>1, <2>2
<1> QED BY <1>2, <1>3

LEMMA BeginType ==
  ASSUME TypeOK, NEW t \in Task,
         (\E k \in Key : Get(t, k)) \/ (\E r \in Repo : Post(t, r)) \/ SaveDoc(t)
  PROVE  TypeOK' /\ UNCHANGED <<now, up, crashes>>
<1>1. ASSUME NEW k \in Key, Get(t, k)
      PROVE  TypeOK' /\ UNCHANGED <<now, up, crashes>>
  <2>1. requests' \in 0..MaxRequests
    BY <1>1, StoreAssumption DEF Get, Begin, TypeOK
  <2>2. Loaded(k) \in Entry \cup {NoEntry}
    BY DEF Loaded
  <2>3. held' \in [Task -> Entry \cup {NoEntry}]
    BY <1>1, <2>2 DEF Get, TypeOK
  <2>4. "sent" \in Stage /\ k \in Fits("sent")
    BY DEF Stage, Fits
  <2>5. /\ stage' \in [Task -> Stage]
        /\ target' \in [Task -> Key \cup Repo \cup {Doc, Nothing}]
        /\ \A u \in Task : target'[u] \in Fits(stage'[u])
    BY <1>1, <2>4, MoveType DEF Get
  <2>6. seen' \in [Task -> SUBSET Version]
    BY <1>1 DEF Get, TypeOK
  <2> QED BY <1>1, <2>1, <2>3, <2>5, <2>6 DEF Get, TypeOK
<1>2. ASSUME NEW r \in Repo, Post(t, r)
      PROVE  TypeOK' /\ UNCHANGED <<now, up, crashes>>
  <2>1. requests' \in 0..MaxRequests
    BY <1>2, StoreAssumption DEF Post, Begin, TypeOK
  <2>2. "posted" \in Stage /\ r \in Fits("posted")
    BY DEF Stage, Fits
  <2>3. /\ stage' \in [Task -> Stage]
        /\ target' \in [Task -> Key \cup Repo \cup {Doc, Nothing}]
        /\ \A u \in Task : target'[u] \in Fits(stage'[u])
    BY <1>2, <2>2, MoveType DEF Post
  <2> QED BY <1>2, <2>1, <2>3 DEF Post, TypeOK
<1>3. CASE SaveDoc(t)
  <2>1. requests' \in 0..MaxRequests
    BY <1>3, StoreAssumption DEF SaveDoc, Begin, TypeOK
  <2>2. "lock" \in Stage /\ Doc \in Fits("lock")
    BY DEF Stage, Fits
  <2>3. /\ stage' \in [Task -> Stage]
        /\ target' \in [Task -> Key \cup Repo \cup {Doc, Nothing}]
        /\ \A u \in Task : target'[u] \in Fits(stage'[u])
    BY <1>3, <2>2, MoveType DEF SaveDoc
  <2> QED BY <1>3, <2>1, <2>3 DEF SaveDoc, TypeOK
<1> QED BY <1>1, <1>2, <1>3

LEMMA StageType ==
  ASSUME TypeOK, NEW t \in Task, NEW s \in Stage, target[t] \in Fits(s),
         stage' = [stage EXCEPT ![t] = s], UNCHANGED target
  PROVE  /\ stage' \in [Task -> Stage]
         /\ target' \in [Task -> Key \cup Repo \cup {Doc, Nothing}]
         /\ \A u \in Task : target'[u] \in Fits(stage'[u])
<1>1. target' = [target EXCEPT ![t] = target[t]]
  BY DEF TypeOK
<1> QED BY <1>1, MoveType

\* Unlock, and a removal that keeps it, both leave the entries well typed.
LEMMA UnlockType ==
  ASSUME TypeOK, NEW t \in Task, Unlock(t)
  PROVE  Shape' /\ writeMu' \in [Proc -> Task \cup {NoTask}]
BY LeaveType DEF Unlock, TypeOK

LEMMA StepType ==
  ASSUME TypeOK, NEW t \in Task, Answer(t) \/ Apply(t) \/ Step(t)
  PROVE  TypeOK' /\ UNCHANGED <<now, up, crashes>>
<1>1. CASE Answer(t)
  <2>1. stage[t] = "sent" /\ target[t] \in Key
    BY <1>1 DEF Answer, TypeOK, Fits
  <2>2. "answered" \in Stage /\ target[t] \in Fits("answered")
    BY <2>1 DEF Stage, Fits
  <2>3. reply' \in [Task -> Version]
    BY <1>1, <2>1 DEF Answer, TypeOK
  <2>4. /\ stage' \in [Task -> Stage]
        /\ target' \in [Task -> Key \cup Repo \cup {Doc, Nothing}]
        /\ \A u \in Task : target'[u] \in Fits(stage'[u])
    BY <1>1, <2>2, StageType DEF Answer
  <2> QED BY <1>1, <2>3, <2>4 DEF Answer, TypeOK, budget
<1>2. CASE Apply(t)
  <2>1. server' \in [Key -> Version] /\ seen' \in [Task -> SUBSET Version]
    BY <1>2, ChangesType DEF Apply
  <2>2. "applied" \in Stage /\ target[t] \in Fits("applied")
    BY <1>2 DEF Apply, Stage, Fits, TypeOK
  <2>3. /\ stage' \in [Task -> Stage]
        /\ target' \in [Task -> Key \cup Repo \cup {Doc, Nothing}]
        /\ \A u \in Task : target'[u] \in Fits(stage'[u])
    BY <1>2, <2>2, StageType DEF Apply
  <2> QED BY <1>2, <2>1, <2>3 DEF Apply, TypeOK, budget
<1>3. CASE Pass(t) \/ Return(t)
  <2>1. Shape'
    BY <1>3, LeaveType DEF Pass, Return
  <2> QED BY <1>3, <2>1 DEF Pass, Return, TypeOK, Shape, budget
<1>4. CASE Receive(t)
  <2>1. target[t] \in Fits("lock") /\ target[t] \in Fits("done")
    BY <1>4 DEF Receive, Fits, TypeOK
  <2>2. "lock" \in Stage /\ "done" \in Stage
    BY DEF Stage
  <2>3. /\ stage' \in [Task -> Stage]
        /\ target' \in [Task -> Key \cup Repo \cup {Doc, Nothing}]
        /\ \A u \in Task : target'[u] \in Fits(stage'[u])
    BY <1>4, <2>1, <2>2, StageType DEF Receive
  <2>4. [ver |-> reply[t], at |-> now] \in Entry
    BY DEF TypeOK, Entry
  <2>5. held' \in [Task -> Entry \cup {NoEntry}]
    BY <1>4, <2>4 DEF Receive, TypeOK
  <2> QED BY <1>4, <2>3, <2>5 DEF Receive, TypeOK, budget
<1>5. CASE ReceiveWrite(t)
  <2>1. target[t] \in Repo /\ "lock" \in Stage /\ target[t] \in Fits("lock")
    BY <1>5 DEF ReceiveWrite, Fits, TypeOK, Stage
  <2>2. CASE Writer(t)
    <3>1. /\ stage' \in [Task -> Stage]
          /\ target' \in [Task -> Key \cup Repo \cup {Doc, Nothing}]
          /\ \A u \in Task : target'[u] \in Fits(stage'[u])
      BY <1>5, <2>1, <2>2, StageType DEF ReceiveWrite
    <3> QED BY <1>5, <2>2, <3>1 DEF ReceiveWrite, TypeOK, budget
  <2>3. CASE ~Writer(t)
    <3>1. Shape'
      BY <1>5, <2>3, LeaveType DEF ReceiveWrite
    <3>2. invalidated' \in [Proc -> SUBSET Repo]
      BY <1>5, <2>1, <2>3 DEF ReceiveWrite, TypeOK
    <3> QED BY <1>5, <3>1, <3>2 DEF ReceiveWrite, TypeOK, Shape, budget
  <2> QED BY <2>2, <2>3
<1>6. CASE Lock(t)
  <2>1. target[t] \in Key \cup Repo \cup {Doc}
    BY <1>6 DEF Lock, Fits, TypeOK
  <2>2. \E s \in {"drop", "temp"} : /\ target[t] \in Fits(s)
                                    /\ stage' = [stage EXCEPT ![t] = s]
    BY <1>6, <2>1 DEF Lock, Fits
  <2>3. /\ stage' \in [Task -> Stage]
        /\ target' \in [Task -> Key \cup Repo \cup {Doc, Nothing}]
        /\ \A u \in Task : target'[u] \in Fits(stage'[u])
    <3>1. PICK s \in {"drop", "temp"} : /\ target[t] \in Fits(s)
                                        /\ stage' = [stage EXCEPT ![t] = s]
      BY <2>2
    <3>2. s \in Stage
      BY DEF Stage
    <3> QED BY <1>6, <3>1, <3>2, StageType DEF Lock
  <2>4. temps' \subseteq Task /\ writeMu' \in [Proc -> Task \cup {NoTask}]
    BY <1>6 DEF Lock, TypeOK
  <2> QED BY <1>6, <2>3, <2>4 DEF Lock, TypeOK, budget
<1>7. CASE Rename(t)
  <2>1. temps' \subseteq Task
    BY <1>7 DEF Rename, TypeOK
  <2>2. CASE target[t] = Doc /\ Unlock(t) /\ UNCHANGED disk
    BY <1>7, <2>1, <2>2, UnlockType DEF Rename, TypeOK, Shape, budget
  <2>3. CASE /\ target[t] \in Key
             /\ disk' = [disk EXCEPT ![target[t]] = held[t]]
             /\ stage' = [stage EXCEPT ![t] = "sweep"]
             /\ UNCHANGED <<writeMu, target, held, reply, seen>>
    <3>1. "sweep" \in Stage /\ target[t] \in Fits("sweep")
      BY <2>3 DEF Stage, Fits
    <3>2. /\ stage' \in [Task -> Stage]
          /\ target' \in [Task -> Key \cup Repo \cup {Doc, Nothing}]
          /\ \A u \in Task : target'[u] \in Fits(stage'[u])
      BY <2>3, <3>1, StageType
    <3>3. disk' \in [Key -> Disk]
      BY <2>3 DEF TypeOK, Disk
    <3> QED BY <1>7, <2>1, <2>3, <3>2, <3>3 DEF Rename, TypeOK, budget
  <2> QED BY <1>7, <2>2, <2>3 DEF Rename
<1>8. CASE WriteFails(t)
  BY <1>8, UnlockType DEF WriteFails, TypeOK, Shape, budget
<1>9. CASE Evict(t) \/ Drop(t)
  <2>1. disk' \in [Key -> Disk]
    BY <1>9 DEF Evict, Drop, TypeOK, Disk
  <2>2. Shape' /\ writeMu' \in [Proc -> Task \cup {NoTask}]
    <3>1. UNCHANGED <<writeMu, request>> \/ Unlock(t)
      BY <1>9 DEF Evict, Drop
    <3> QED BY <3>1, UnlockType DEF request, Shape, TypeOK
  <2>3. overdue' \in BOOLEAN
    BY <1>9 DEF Evict, Drop, TypeOK
  <2> QED BY <1>9, <2>1, <2>2, <2>3 DEF Evict, Drop, TypeOK, Shape, budget
<1> QED BY <1>1, <1>2, <1>3, <1>4, <1>5, <1>6, <1>7, <1>8, <1>9 DEF Step

\* Every reachable state has the shape the Go types give it, and every call at
\* every stage is about what that stage is about.
THEOREM TypeCorrect == Spec => []TypeOK
<1>1. TypeOK /\ ClockCounts /\ [Next]_vars => (TypeOK /\ ClockCounts)'
  <2> SUFFICES ASSUME TypeOK, ClockCounts, [Next]_vars
               PROVE  TypeOK' /\ ClockCounts'
    OBVIOUS
  <2>1. CASE \E p \in Proc : Start(p) \/ Crash(p)
    BY <2>1, StartType, CrashType
  <2>2. CASE \E r \in Repo : Change(r)
    BY <2>2, ChangeType DEF Change, budget, ClockCounts
  <2>3. ASSUME NEW t \in Task,
               \/ \E k \in Key : Get(t, k)
               \/ \E r \in Repo : Post(t, r)
               \/ SaveDoc(t) \/ Answer(t) \/ Apply(t) \/ Step(t)
        PROVE  TypeOK' /\ ClockCounts'
    <3>1. TypeOK' /\ UNCHANGED <<now, up, crashes>>
      BY <2>3, BeginType, StepType
    <3> QED BY <3>1 DEF ClockCounts
  <2>4. CASE UNCHANGED vars
    BY <2>4 DEF vars, request, budget, TypeOK, ClockCounts
  <2> QED BY <2>1, <2>2, <2>3, <2>4 DEF Next
<1> QED BY <1>1, InitType, PTL DEF Spec

-----------------------------------------------------------------------------
(***************************************************************************)
(* One writer at the files.  Inductive: a call that goes for writeMu or    *)
(* holds it belongs to a running process, the one with store.lock; a       *)
(* mutex is held by a call that is at the files; and the temporaries of a  *)
(* store with a writer are its own.  Uniqueness then follows: two calls at *)
(* the files share the lock's process, and so its one mutex.               *)
(***************************************************************************)
AtFiles(s) == s \in {"temp", "sweep", "drop"}

HolderRuns == /\ \A t \in Task : stage[t] # "idle" => ProcOf[t] \in up
              /\ lock # NoProc => lock \in up
              /\ \A t \in Task : stage[t] = "lock" => lock = ProcOf[t]
              /\ \A t \in Task : AtFiles(stage[t]) =>
                    lock = ProcOf[t] /\ writeMu[ProcOf[t]] = t
              /\ \A p \in Proc : writeMu[p] # NoTask =>
                    AtFiles(stage[writeMu[p]]) /\ ProcOf[writeMu[p]] = p

FilesInv == HolderRuns /\ TempsAreLive

\* Two calls never are at the files together.
LEMMA OnlyOne ==
  ASSUME HolderRuns, NEW t \in Task, NEW u \in Task,
         AtFiles(stage[t]), AtFiles(stage[u])
  PROVE  t = u
BY DEF HolderRuns

LEMMA FilesInit == Init => FilesInv
BY StoreAssumption DEF Init, FilesInv, HolderRuns, TempsAreLive, AtFiles

LEMMA StartFiles ==
  ASSUME TypeOK, FilesInv, NEW p \in Proc, Start(p)
  PROVE  FilesInv'
<1>1. UNCHANGED <<stage, writeMu>> /\ up' = up \cup {p}
  BY DEF Start, request
<1>2. CASE UNCHANGED <<lock, temps>>
  BY <1>1, <1>2 DEF FilesInv, HolderRuns, TempsAreLive, AtFiles
<1>3. CASE lock = NoProc /\ lock' = p /\ temps' = {}
  <2>1. \A t \in Task : ~AtFiles(stage[t]) /\ stage[t] # "lock"
    BY <1>3, StoreAssumption DEF FilesInv, HolderRuns
  <2>2. HolderRuns'
    BY <1>1, <1>3, <2>1 DEF FilesInv, HolderRuns, AtFiles
  <2>3. TempsAreLive'
    BY <1>1, <1>3, <2>1 DEF TempsAreLive, AtFiles
  <2> QED BY <2>2, <2>3 DEF FilesInv
<1> QED BY <1>2, <1>3 DEF Start

LEMMA CrashFiles ==
  ASSUME TypeOK, FilesInv, NEW p \in Proc, Crash(p)
  PROVE  FilesInv'
<1> DEFINE mine == {t \in Task : ProcOf[t] = p}
<1>1. /\ stage' = [t \in Task |-> IF t \in mine THEN "idle" ELSE stage[t]]
      /\ lock' = IF lock = p THEN NoProc ELSE lock
      /\ writeMu' = [writeMu EXCEPT ![p] = NoTask]
      /\ up' = up \ {p} /\ temps' = temps
  BY DEF Crash, Leave
<1>2. \A t \in Task : stage'[t] # "idle" => ProcOf[t] # p /\ stage'[t] = stage[t]
  BY <1>1
<1>3. \A q \in Proc : writeMu'[q] # NoTask => q # p /\ writeMu'[q] = writeMu[q]
  BY <1>1 DEF TypeOK
<1>4. HolderRuns'
  <2>1. \A t \in Task : stage'[t] # "idle" => ProcOf[t] \in up'
    BY <1>1, <1>2 DEF FilesInv, HolderRuns
  <2>2. lock' # NoProc => lock' \in up'
    BY <1>1 DEF FilesInv, HolderRuns
  <2>3. ASSUME NEW t \in Task, stage'[t] = "lock" \/ AtFiles(stage'[t])
        PROVE  lock' = ProcOf[t] /\ (AtFiles(stage'[t]) => writeMu'[ProcOf[t]] = t)
    <3>1. ProcOf[t] # p /\ stage'[t] = stage[t] /\ ProcOf[t] \in Proc
      BY <1>2, <2>3, StoreAssumption DEF AtFiles
    <3>2. lock = ProcOf[t] /\ (AtFiles(stage[t]) => writeMu[ProcOf[t]] = t)
      BY <2>3, <3>1 DEF FilesInv, HolderRuns
    <3> QED BY <1>1, <3>1, <3>2 DEF TypeOK
  <2>4. ASSUME NEW q \in Proc, writeMu'[q] # NoTask
        PROVE  AtFiles(stage'[writeMu'[q]]) /\ ProcOf[writeMu'[q]] = q
    <3>1. /\ q # p /\ writeMu'[q] = writeMu[q] /\ writeMu[q] \in Task
          /\ AtFiles(stage[writeMu[q]]) /\ ProcOf[writeMu[q]] = q
      BY <1>3, <2>4 DEF FilesInv, HolderRuns, TypeOK
    <3> QED BY <1>1, <3>1
  <2> QED BY <2>1, <2>2, <2>3, <2>4 DEF HolderRuns
<1>5. TempsAreLive'
  <2>1. SUFFICES ASSUME lock' # NoProc
                 PROVE  temps' = {t \in Task : stage'[t] = "temp"}
    BY DEF TempsAreLive
  <2>2. lock # p /\ lock # NoProc
    BY <1>1, <2>1
  <2>3. \A t \in Task : stage[t] = "temp" => t \notin mine
    BY <2>2 DEF FilesInv, HolderRuns, AtFiles
  <2>4. \A t \in Task : stage'[t] = "temp" <=> stage[t] = "temp"
    BY <1>1, <2>3
  <2> QED BY <1>1, <2>2, <2>4 DEF FilesInv, TempsAreLive
<1> QED BY <1>4, <1>5 DEF FilesInv

\* A call that moves without reaching or leaving the files.
LEMMA AwayFiles ==
  ASSUME TypeOK, FilesInv, NEW t \in Task,
         UNCHANGED <<up, lock, writeMu, temps>>,
         \A u \in Task : u # t => stage'[u] = stage[u],
         ~AtFiles(stage[t]), ~AtFiles(stage'[t]),
         stage'[t] # "idle" => ProcOf[t] \in up,
         stage'[t] = "lock" => lock = ProcOf[t]
  PROVE  FilesInv'
<1>1. \A u \in Task : AtFiles(stage'[u]) <=> (AtFiles(stage[u]) /\ stage'[u] = stage[u])
  BY DEF AtFiles
<1>2. \A p \in Proc : writeMu[p] # NoTask => writeMu[p] \in Task
  BY DEF TypeOK
<1>3. HolderRuns'
  BY <1>1, <1>2 DEF FilesInv, HolderRuns
<1>4. \A u \in Task : stage'[u] = "temp" <=> stage[u] = "temp"
  BY <1>1 DEF AtFiles
<1> QED BY <1>3, <1>4 DEF FilesInv, TempsAreLive

\* A call that leaves the files gives writeMu and its temporary up.
LEMMA UnlockFiles ==
  ASSUME TypeOK, FilesInv, NEW t \in Task, AtFiles(stage[t]), Unlock(t),
         UNCHANGED <<up, lock>>,
         temps' = temps \ {t} \/ (temps' = temps /\ stage[t] # "temp")
  PROVE  FilesInv'
<1>1. /\ stage' = [u \in Task |-> IF u = t THEN "idle" ELSE stage[u]]
      /\ writeMu' = [writeMu EXCEPT ![ProcOf[t]] = NoTask]
  BY DEF Unlock, Leave
<1>2. \A u \in Task : AtFiles(stage'[u]) => u # t /\ AtFiles(stage[u])
  BY <1>1 DEF AtFiles
<1>3. \A u \in Task : ~AtFiles(stage'[u])
  BY <1>2, OnlyOne DEF FilesInv
<1>4. \A p \in Proc : writeMu'[p] = NoTask
  <2> SUFFICES ASSUME NEW p \in Proc, writeMu'[p] # NoTask PROVE FALSE
    OBVIOUS
  <2>1. p # ProcOf[t] /\ writeMu[p] # NoTask /\ writeMu[p] \in Task
    BY <1>1, StoreAssumption DEF TypeOK
  <2>2. AtFiles(stage[writeMu[p]]) /\ ProcOf[writeMu[p]] = p
    BY <2>1 DEF FilesInv, HolderRuns
  <2> QED BY <2>1, <2>2, OnlyOne DEF FilesInv
<1>5. HolderRuns'
  BY <1>1, <1>3, <1>4 DEF FilesInv, HolderRuns
<1>6. TempsAreLive'
  <2>1. lock # NoProc
    BY StoreAssumption DEF FilesInv, HolderRuns
  <2>2. temps = {u \in Task : stage[u] = "temp"}
    BY <2>1 DEF FilesInv, TempsAreLive
  <2>3. temps' = temps \ {t}
    BY <2>2
  <2>4. {u \in Task : stage'[u] = "temp"} = {u \in Task : stage[u] = "temp"} \ {t}
    BY <1>1
  <2> QED BY <2>2, <2>3, <2>4 DEF TempsAreLive
<1> QED BY <1>5, <1>6 DEF FilesInv

LEMMA StepFiles ==
  ASSUME TypeOK, FilesInv, NEW t \in Task,
         \/ \E k \in Key : Get(t, k)
         \/ \E r \in Repo : Post(t, r)
         \/ SaveDoc(t) \/ Answer(t) \/ Apply(t) \/ Step(t)
  PROVE  FilesInv'
<1>1. CASE (\E k \in Key : Get(t, k)) \/ (\E r \in Repo : Post(t, r)) \/ SaveDoc(t)
  <2>1. /\ UNCHANGED <<up, lock, writeMu, temps>> /\ stage[t] = "idle"
        /\ ProcOf[t] \in up
        /\ \E s \in {"sent", "posted"} : stage' = [stage EXCEPT ![t] = s]
           \/ (stage' = [stage EXCEPT ![t] = "lock"] /\ lock = ProcOf[t])
    BY <1>1 DEF Get, Post, SaveDoc, Begin, Writer
  <2> QED BY <2>1, AwayFiles DEF AtFiles, TypeOK
<1>2. CASE Answer(t) \/ Apply(t) \/ Receive(t)
  <2>1. /\ UNCHANGED <<up, lock, writeMu, temps>>
        /\ stage[t] \in {"sent", "posted", "answered"}
        /\ \E s \in {"answered", "applied", "done"} : stage' = [stage EXCEPT ![t] = s]
           \/ (stage' = [stage EXCEPT ![t] = "lock"] /\ lock = ProcOf[t])
    BY <1>2 DEF Answer, Apply, Receive, Saves, Writer, TypeOK
  <2>2. ProcOf[t] \in up
    BY <2>1 DEF FilesInv, HolderRuns
  <2> QED BY <2>1, <2>2, AwayFiles DEF AtFiles, TypeOK
<1>3. CASE Pass(t) \/ Return(t)
  <2>1. /\ UNCHANGED <<up, lock, writeMu, temps>> /\ ~AtFiles(stage[t])
        /\ stage' = [u \in Task |-> IF u = t THEN "idle" ELSE stage[u]]
    BY <1>3 DEF Pass, Return, Leave, AtFiles
  <2> QED BY <2>1, AwayFiles DEF AtFiles
<1>4. CASE ReceiveWrite(t)
  <2>1. /\ UNCHANGED <<up, lock, writeMu, temps>> /\ stage[t] = "applied"
        /\ \/ stage' = [u \in Task |-> IF u = t THEN "idle" ELSE stage[u]]
           \/ stage' = [stage EXCEPT ![t] = "lock"] /\ lock = ProcOf[t]
    BY <1>4 DEF ReceiveWrite, Leave, Writer
  <2>2. ProcOf[t] \in up
    BY <2>1 DEF FilesInv, HolderRuns
  <2> QED BY <2>1, <2>2, AwayFiles DEF AtFiles, TypeOK
<1>5. CASE Lock(t)
  <2> DEFINE p == ProcOf[t]
  <2>1. /\ stage[t] = "lock" /\ writeMu[p] = NoTask /\ lock = p /\ p \in up /\ p \in Proc
        /\ writeMu' = [writeMu EXCEPT ![p] = t] /\ UNCHANGED <<up, lock>>
    BY <1>5, StoreAssumption DEF Lock, FilesInv, HolderRuns
  <2>2. /\ \A u \in Task : u # t => stage'[u] = stage[u]
        /\ \/ stage'[t] = "drop" /\ temps' = temps
           \/ stage'[t] = "temp" /\ temps' = temps \cup {t}
    BY <1>5 DEF Lock, TypeOK
  <2>3. \A u \in Task : ~AtFiles(stage[u])
    BY <2>1, StoreAssumption DEF FilesInv, HolderRuns
  <2>4. \A q \in Proc : writeMu[q] = NoTask
    BY <2>3 DEF FilesInv, HolderRuns, TypeOK
  <2>5. \A u \in Task : AtFiles(stage'[u]) <=> u = t
    BY <2>2, <2>3 DEF AtFiles
  <2>6. /\ writeMu'[p] = t
        /\ \A q \in Proc : q # p => writeMu'[q] = NoTask
    BY <2>1, <2>4 DEF TypeOK
  <2>7. HolderRuns'
    <3>1. \A u \in Task : stage'[u] # "idle" => ProcOf[u] \in up'
      BY <2>1, <2>2 DEF FilesInv, HolderRuns
    <3>2. \A u \in Task : stage'[u] = "lock" => lock' = ProcOf[u]
      BY <2>1, <2>2 DEF FilesInv, HolderRuns
    <3>3. \A u \in Task : AtFiles(stage'[u]) =>
             lock' = ProcOf[u] /\ writeMu'[ProcOf[u]] = u
      BY <2>1, <2>5, <2>6
    <3>4. \A q \in Proc : writeMu'[q] # NoTask =>
             AtFiles(stage'[writeMu'[q]]) /\ ProcOf[writeMu'[q]] = q
      BY <2>5, <2>6
    <3>5. lock' # NoProc => lock' \in up'
      BY <2>1
    <3> QED BY <3>1, <3>2, <3>3, <3>4, <3>5 DEF HolderRuns
  <2>8. TempsAreLive'
    <3>1. temps = {}
      BY <2>1, <2>3, StoreAssumption DEF FilesInv, TempsAreLive, AtFiles
    <3>2. {u \in Task : stage'[u] = "temp"} = IF stage'[t] = "temp" THEN {t} ELSE {}
      BY <2>5 DEF AtFiles
    <3> QED BY <2>2, <3>1, <3>2 DEF TempsAreLive
  <2> QED BY <2>7, <2>8 DEF FilesInv
<1>6. CASE Rename(t)
  <2>1. stage[t] = "temp" /\ temps' = temps \ {t} /\ UNCHANGED <<up, lock>>
    BY <1>6 DEF Rename
  <2>2. CASE Unlock(t)
    BY <2>1, <2>2, UnlockFiles DEF AtFiles
  <2>3. CASE stage' = [stage EXCEPT ![t] = "sweep"] /\ UNCHANGED writeMu
    <3>1. /\ \A u \in Task : u # t => stage'[u] = stage[u]
          /\ stage'[t] = "sweep"
      BY <2>3 DEF TypeOK
    <3>2. \A u \in Task : AtFiles(stage'[u]) <=> AtFiles(stage[u])
      BY <2>1, <3>1 DEF AtFiles
    <3>3. \A q \in Proc : writeMu[q] # NoTask => writeMu[q] \in Task
      BY DEF TypeOK
    <3>4. ProcOf[t] \in up /\ \A u \in Task : stage'[u] = "lock" => stage[u] = "lock"
      BY <2>1, <3>1 DEF FilesInv, HolderRuns
    <3>5. HolderRuns'
      BY <2>1, <2>3, <3>1, <3>2, <3>3, <3>4 DEF FilesInv, HolderRuns
    <3>6. TempsAreLive'
      BY <2>1, <3>1 DEF FilesInv, TempsAreLive
    <3> QED BY <3>5, <3>6 DEF FilesInv
  <2> QED BY <1>6, <2>2, <2>3 DEF Rename
<1>7. CASE WriteFails(t)
  BY <1>7, UnlockFiles DEF WriteFails, AtFiles
<1>8. CASE Evict(t) \/ Drop(t)
  <2>1. /\ stage[t] \in {"sweep", "drop"} /\ UNCHANGED <<up, lock, temps>>
        /\ Unlock(t) \/ UNCHANGED <<writeMu, stage>>
    BY <1>8 DEF Evict, Drop, request
  <2>2. CASE Unlock(t)
    BY <2>1, <2>2, UnlockFiles DEF AtFiles
  <2>3. CASE UNCHANGED <<writeMu, stage>>
    BY <2>1, <2>3 DEF FilesInv, HolderRuns, TempsAreLive, AtFiles
  <2> QED BY <2>1, <2>2, <2>3
<1> QED BY <1>1, <1>2, <1>3, <1>4, <1>5, <1>6, <1>7, <1>8 DEF Step

LEMMA FilesAlways == Spec => []FilesInv
<1>1. TypeOK /\ FilesInv /\ [Next]_vars => FilesInv'
  <2> SUFFICES ASSUME TypeOK, FilesInv, [Next]_vars PROVE FilesInv'
    OBVIOUS
  <2>1. CASE UNCHANGED vars \/ \E r \in Repo : Change(r)
    BY <2>1 DEF vars, request, Change, FilesInv, HolderRuns, TempsAreLive, AtFiles
  <2> QED BY <2>1, StartFiles, CrashFiles, StepFiles DEF Next
<1> QED BY <1>1, FilesInit, TypeCorrect, PTL DEF Spec

\* R21, R23: for any number of processes and goroutines, one call at a time is
\* at the files, in the process that holds store.lock.
THEOREM OneWriter == Spec => []WriterAlone
<1>1. FilesInv => WriterAlone
  BY OnlyOne DEF FilesInv, HolderRuns, WriterAlone, Mutating, AtFiles
<1> QED BY <1>1, FilesAlways, PTL

\* writeMu: it is never left held by a call that is over or dead.
THEOREM MutexAlwaysHeld == Spec => []MutexHasHolder
<1>1. TypeOK /\ FilesInv => MutexHasHolder
  BY DEF TypeOK, FilesInv, HolderRuns, MutexHasHolder, Mutating, AtFiles
<1> QED BY <1>1, FilesAlways, TypeCorrect, PTL

\* sweepTempFiles: no start takes a temporary from under a rename, and none is
\* left over once somebody writes again.
THEOREM TempsStayLive == Spec => []TempsAreLive
BY FilesAlways, PTL DEF FilesInv

-----------------------------------------------------------------------------
(***************************************************************************)
(* Revalidation.  Inductive: the version GitHub has now was current while  *)
(* every GET on the wire was, and so was the one it answered with.         *)
(***************************************************************************)
WireIsCurrent ==
    \A t \in Task :
        /\ stage[t] = "sent" => server[target[t]] \in seen[t]
        /\ stage[t] = "answered" =>
              server[target[t]] \in seen[t] /\ reply[t] \in seen[t]

Fresh == WireIsCurrent /\ ServedIsCurrent

\* What Fresh says of one call.
FreshCall(t) ==
    /\ stage[t] = "sent" => server[target[t]] \in seen[t]
    /\ stage[t] = "answered" =>
          server[target[t]] \in seen[t] /\ reply[t] \in seen[t]
    /\ stage[t] \in {"lock", "temp", "sweep", "done"} /\ target[t] \in Key
          => held[t].ver \in seen[t]

LEMMA FreshIsPerCall == Fresh <=> \A t \in Task : FreshCall(t)
BY DEF Fresh, FreshCall, WireIsCurrent, ServedIsCurrent

\* Calls whose locals a step leaves alone stay fresh.
LEMMA OthersFresh ==
  ASSUME Fresh, NEW t \in Task, UNCHANGED server,
         \A u \in Task : u # t =>
             /\ stage'[u] = stage[u] /\ target'[u] = target[u]
             /\ held'[u] = held[u] /\ reply'[u] = reply[u] /\ seen'[u] = seen[u],
         FreshCall(t)'
  PROVE  Fresh'
<1>1. ASSUME NEW u \in Task, u # t PROVE FreshCall(u)'
  <2>1. FreshCall(u)
    BY FreshIsPerCall
  <2> QED BY <1>1, <2>1 DEF FreshCall
<1>2. \A u \in Task : FreshCall(u)'
  BY <1>1
<1> QED BY <1>2 DEF Fresh, FreshCall, WireIsCurrent, ServedIsCurrent

\* A call that is over has nothing to be fresh.
LEMMA LeaveFresh ==
  ASSUME Fresh, NEW T, Leave(T), UNCHANGED server
  PROVE  Fresh'
<1>1. ASSUME NEW u \in Task PROVE FreshCall(u)'
  <2>1. FreshCall(u)
    BY FreshIsPerCall
  <2>2. CASE u \in T
    BY <2>2 DEF Leave, FreshCall
  <2>3. CASE u \notin T
    BY <2>1, <2>3 DEF Leave, FreshCall
  <2> QED BY <2>2, <2>3
<1> QED BY <1>1 DEF Fresh, FreshCall, WireIsCurrent, ServedIsCurrent

\* A change at GitHub reaches everybody who may see it.
LEMMA ChangesFresh ==
  ASSUME TypeOK, Fresh, NEW r, Changes(r), UNCHANGED <<target, held, reply>>,
         \A u \in Task : stage'[u] = stage[u] \/ stage'[u] = "applied"
  PROVE  Fresh'
<1> DEFINE K == {k \in Key : RepoOf[k] = r}
<1>1. /\ server' = [k \in Key |-> IF k \in K THEN server[k] + 1 ELSE server[k]]
      /\ seen' = [t \in Task |->
                    IF stage[t] \in {"sent", "answered"} /\ target[t] \in K
                    THEN seen[t] \cup {server[target[t]] + 1} ELSE seen[t]]
  BY DEF Changes
<1>2. ASSUME NEW u \in Task PROVE FreshCall(u)'
  <2>1. FreshCall(u) /\ seen[u] \subseteq seen'[u]
    BY <1>1, FreshIsPerCall
  <2>2. stage'[u] = stage[u] \/ stage'[u] = "applied"
    OBVIOUS
  <2>3. ASSUME stage'[u] \in {"sent", "answered"}
        PROVE  server'[target[u]] \in seen'[u]
    <3>1. stage[u] \in {"sent", "answered"} /\ target[u] \in Key
      BY <2>2, <2>3 DEF TypeOK, Fits
    <3>2. server[target[u]] \in seen[u]
      BY <2>1, <3>1 DEF FreshCall
    <3> QED BY <1>1, <3>1, <3>2
  <2> QED BY <2>1, <2>2, <2>3 DEF FreshCall
<1> QED BY <1>2 DEF Fresh, FreshCall, WireIsCurrent, ServedIsCurrent

LEMMA StepFresh ==
  ASSUME TypeOK, Fresh, NEW t \in Task,
         \/ \E k \in Key : Get(t, k)
         \/ \E r \in Repo : Post(t, r)
         \/ SaveDoc(t) \/ Answer(t) \/ Apply(t) \/ Step(t)
  PROVE  Fresh'
<1>0. FreshCall(t)
  BY FreshIsPerCall
<1>1. ASSUME NEW k \in Key, Get(t, k) PROVE Fresh'
  <2>1. stage'[t] = "sent" /\ target'[t] = k /\ seen'[t] = {server[k]} /\ server' = server
    BY <1>1 DEF Get, TypeOK
  <2>2. FreshCall(t)'
    BY <2>1 DEF FreshCall
  <2> QED BY <1>1, <2>2, OthersFresh DEF Get, TypeOK
<1>2. ASSUME NEW r \in Repo, Post(t, r) PROVE Fresh'
  <2>1. FreshCall(t)'
    BY <1>2 DEF Post, TypeOK, FreshCall
  <2> QED BY <1>2, <2>1, OthersFresh DEF Post, TypeOK
<1>3. CASE SaveDoc(t)
  <2>1. FreshCall(t)'
    BY <1>3, StoreAssumption DEF SaveDoc, TypeOK, FreshCall
  <2> QED BY <1>3, <2>1, OthersFresh DEF SaveDoc, TypeOK
<1>4. CASE Answer(t)
  <2>1. FreshCall(t)'
    BY <1>0, <1>4 DEF Answer, TypeOK, FreshCall
  <2> QED BY <1>4, <2>1, OthersFresh DEF Answer, TypeOK
<1>5. CASE Apply(t)
  BY <1>5, ChangesFresh DEF Apply, TypeOK
<1>6. CASE Pass(t) \/ Return(t)
  BY <1>6, LeaveFresh DEF Pass, Return
<1>7. CASE Receive(t)
  <2>1. held'[t].ver = reply[t] /\ reply[t] \in seen[t] /\ seen' = seen
    BY <1>0, <1>7 DEF Receive, TypeOK, FreshCall
  <2>2. stage'[t] \in {"lock", "done"}
    BY <1>7 DEF Receive, TypeOK
  <2>3. FreshCall(t)'
    BY <2>1, <2>2 DEF FreshCall
  <2> QED BY <1>7, <2>3, OthersFresh DEF Receive, TypeOK
<1>8. CASE ReceiveWrite(t)
  <2>1. CASE Writer(t)
    <3>1. stage[t] = "applied" /\ target[t] \notin Key
      BY <1>8, StoreAssumption DEF ReceiveWrite, TypeOK, Fits
    <3>2. FreshCall(t)'
      BY <1>8, <2>1, <3>1 DEF ReceiveWrite, TypeOK, FreshCall
    <3> QED BY <1>8, <2>1, <3>2, OthersFresh DEF ReceiveWrite, TypeOK
  <2>2. CASE ~Writer(t)
    BY <1>8, <2>2, LeaveFresh DEF ReceiveWrite
  <2> QED BY <2>1, <2>2
<1>9. CASE Lock(t)
  <2>1. stage[t] = "lock" /\ stage'[t] \in {"temp", "drop"}
    BY <1>9 DEF Lock, TypeOK
  <2>2. FreshCall(t)'
    BY <1>0, <1>9, <2>1 DEF Lock, FreshCall
  <2> QED BY <1>9, <2>2, OthersFresh DEF Lock, TypeOK
<1>10. CASE Rename(t) /\ ~Unlock(t)
  <2>1. stage[t] = "temp" /\ stage'[t] = "sweep"
    BY <1>10 DEF Rename, TypeOK
  <2>2. FreshCall(t)'
    BY <1>0, <1>10, <2>1 DEF Rename, FreshCall
  <2> QED BY <1>10, <2>2, OthersFresh DEF Rename, TypeOK
<1>11. CASE (Rename(t) \/ WriteFails(t) \/ Evict(t) \/ Drop(t)) /\ Unlock(t)
  BY <1>11, LeaveFresh DEF Rename, WriteFails, Evict, Drop, Unlock
<1>12. CASE (Evict(t) \/ Drop(t)) /\ UNCHANGED request
  BY <1>12 DEF Evict, Drop, request, Fresh, WireIsCurrent, ServedIsCurrent
<1> QED BY <1>1, <1>2, <1>3, <1>4, <1>5, <1>6, <1>7, <1>8, <1>9, <1>10, <1>11, <1>12
        DEF Step, WriteFails, Evict, Drop

\* R8: for any store left behind, any sizes, and any interleaving of GETs,
\* writes, evictions, invalidations, kills and restarts, no GET returns a body
\* that was not GitHub's at some instant of it.
THEOREM NothingStaleServed == Spec => []ServedIsCurrent
<1>1. Init => Fresh
  BY DEF Init, Fresh, WireIsCurrent, ServedIsCurrent
<1>2. TypeOK /\ Fresh /\ [Next]_vars => Fresh'
  <2> SUFFICES ASSUME TypeOK, Fresh, [Next]_vars PROVE Fresh'
    OBVIOUS
  <2>1. CASE UNCHANGED vars
    BY <2>1 DEF vars, request, Fresh, WireIsCurrent, ServedIsCurrent
  <2>2. CASE \E p \in Proc : Start(p)
    BY <2>2 DEF Start, request, Fresh, WireIsCurrent, ServedIsCurrent
  <2>3. CASE \E p \in Proc : Crash(p)
    BY <2>3, LeaveFresh DEF Crash
  <2>4. CASE \E r \in Repo : Change(r)
    BY <2>4, ChangesFresh DEF Change
  <2> QED BY <2>1, <2>2, <2>3, <2>4, StepFresh DEF Next
<1>3. Fresh => ServedIsCurrent
  BY DEF Fresh
<1> QED BY <1>1, <1>2, <1>3, TypeCorrect, PTL DEF Spec

\* save, SaveDoc, invalidate and sweepTempFiles: for any processes, kills and
\* restarts, one writer is at the files, no mutex is left held, and no live
\* temporary is swept.
THEOREM FilesStayInOrder == Spec => []FilesInOrder
<1>1. WriterAlone /\ MutexHasHolder /\ TempsAreLive => FilesInOrder
  BY DEF FilesInOrder
<1> QED BY <1>1, OneWriter, MutexAlwaysHeld, TempsStayLive, PTL

\* A set of numbers has a least.
LEMMA LeastNumber ==
  ASSUME NEW S \in SUBSET Nat, S # {}
  PROVE  \E w \in S : \A v \in S : w <= v
<1>. DEFINE Below == {ss \in Nat \X Nat : ss[1] < ss[2]}
<1>1. IsWellFoundedOn(Below, Nat)
  BY NatLessThanWellFounded, Zenon DEF OpToRel
<1>. HIDE DEF Below
<1>2. PICK w \in S : \A v \in S : <<v, w>> \notin Below
  BY <1>1, WFMin
<1>3. \A v \in Nat : v < w => <<v, w>> \in Below  BY DEF Below
<1>. HIDE DEF Below
<1>4. ASSUME NEW v \in S  PROVE w <= v
  <2>1. v \in Nat /\ w \in Nat /\ ~(v < w)  BY <1>2, <1>3
  <2>. QED BY <2>1
<1>. QED BY <1>4

-----------------------------------------------------------------------------
(***************************************************************************)
(* Sums.  The community modules sum a function by taking the members of    *)
(* its domain one after the other; two functions on one domain are summed  *)
(* in the same order, so they are compared set by set.                     *)
(***************************************************************************)

First(s) == CHOOSE x \in s : TRUE

\* What is left of a finite set when its first member is taken is smaller.
LEMMA FirstTaken ==
  ASSUME NEW S, IsFiniteSet(S), NEW s \in SUBSET S, s # {}
  PROVE  /\ First(s) \in s /\ s \ {First(s)} \in SUBSET S
         /\ Cardinality(s) \in Nat
         /\ Cardinality(s \ {First(s)}) = Cardinality(s) - 1
<1>1. First(s) \in s  BY DEF First
<1>2. IsFiniteSet(s)  BY FS_Subset
<1>. QED BY <1>1, <1>2, FS_RemoveElement, FS_CardinalityType

\* The sums of f over the members of D, each from that of a smaller set.
Sums(f, D, g) ==
  g = [s \in D |-> IF s = {} THEN 0 ELSE f[First(s)] + g[s \ {First(s)}]]

Small(S, n) == {s \in SUBSET S : Cardinality(s) <= n}

\* There are such sums over the sets up to any size.
LEMMA SumsUpTo ==
  ASSUME NEW S, IsFiniteSet(S), NEW f
  PROVE  \A n \in Nat : \E g : Sums(f, Small(S, n), g)
<1>. DEFINE Bad == {n \in Nat : ~ \E g : Sums(f, Small(S, n), g)}
<1>. SUFFICES ASSUME Bad # {} PROVE FALSE  OBVIOUS
<1>1. PICK n \in Bad : \A v \in Bad : n <= v  
  <2>1. Bad \in SUBSET Nat  OBVIOUS
  <2>. HIDE DEF Bad
  <2>. QED BY <2>1, LeastNumber
<1>2. \E g : Sums(f, Small(S, n), g)
  <2>1. CASE n = 0
    <3>. DEFINE g == [s \in Small(S, n) |-> 0]
    <3>1. ASSUME NEW s \in Small(S, n)  PROVE s = {}
      <4>1. s \in SUBSET S /\ Cardinality(s) <= 0  BY <2>1 DEF Small
      <4>2. IsFiniteSet(s)  BY <4>1, FS_Subset
      <4>3. Cardinality(s) \in Nat  BY <4>2, FS_CardinalityType
      <4>4. Cardinality(s) = 0  BY <4>1, <4>3
      <4>. QED BY <4>2, <4>4, FS_EmptySet
    <3>2. g = [s \in Small(S, n) |-> IF s = {} THEN 0 ELSE f[First(s)] + g[s \ {First(s)}]]
      BY <3>1
    <3>. QED BY <3>2 DEF Sums
  <2>2. CASE n # 0
    <3>1. n - 1 \in Nat /\ n - 1 \notin Bad  BY <1>1, <2>2
    <3>2. PICK g : Sums(f, Small(S, n - 1), g)  BY <3>1
    <3>. DEFINE h == [s \in Small(S, n) |->
                        IF s = {} THEN 0 ELSE f[First(s)] + g[s \ {First(s)}]]
    <3>3. ASSUME NEW s \in Small(S, n - 1)  PROVE s \in Small(S, n) /\ h[s] = g[s]
      <4>1. s \in Small(S, n)
        <5>1. Cardinality(s) \in Nat  BY FS_Subset, FS_CardinalityType DEF Small
        <5>. QED BY <5>1, <3>1 DEF Small
      <4>2. g[s] = IF s = {} THEN 0 ELSE f[First(s)] + g[s \ {First(s)}]
        BY <3>2 DEF Sums
      <4>. QED BY <4>1, <4>2
    <3>4. ASSUME NEW s \in Small(S, n), s # {}
          PROVE  s \ {First(s)} \in Small(S, n - 1)
      BY <3>1, <3>4, FirstTaken DEF Small
    <3>5. h = [s \in Small(S, n) |->
                 IF s = {} THEN 0 ELSE f[First(s)] + h[s \ {First(s)}]]
      <4>1. ASSUME NEW s \in Small(S, n)
            PROVE  (IF s = {} THEN 0 ELSE f[First(s)] + g[s \ {First(s)}])
                 = (IF s = {} THEN 0 ELSE f[First(s)] + h[s \ {First(s)}])
        <5>. HIDE DEF h
        <5>. QED BY <3>3, <3>4
      <4>. QED BY <4>1
    <3>. QED BY <3>5 DEF Sums
  <2>. QED BY <2>1, <2>2
<1>. QED BY <1>2

\* The sum of f is the last of its sums.
LEMMA SumIsLast ==
  ASSUME NEW f, IsFiniteSet(DOMAIN f)
  PROVE  \E g : Sums(f, SUBSET DOMAIN f, g) /\ SumFunction(f) = g[DOMAIN f]
<1>. DEFINE S == DOMAIN f
            g == CHOOSE g : Sums(f, SUBSET S, g)
<1>1. Small(S, Cardinality(S)) = SUBSET S
  BY FS_Subset DEF Small
<1>2. Sums(f, SUBSET S, g)
  <2>1. Cardinality(S) \in Nat  BY FS_CardinalityType
  <2>2. \E k : Sums(f, Small(S, Cardinality(S)), k)  BY <2>1, SumsUpTo
  <2>3. \E k : Sums(f, SUBSET S, k)
    <3>. HIDE DEF S
    <3>. QED BY <2>2, <1>1
  <2>. HIDE DEF S
  <2>. QED BY <2>3
<1>3. SumFunction(f) = g[S]
  BY DEF SumFunction, SumFunctionOnSet, FoldFunctionOnSet, MapThenFoldSet, Sums, First
<1>. QED BY <1>2, <1>3

\* A function nowhere larger has no larger sum.
LEMMA SumMonotone ==
  ASSUME NEW S, IsFiniteSet(S), NEW f \in [S -> Nat], NEW h \in [S -> Nat],
         \A x \in S : f[x] <= h[x]
  PROVE  SumFunction(f) \in Nat /\ SumFunction(h) \in Nat /\ SumFunction(f) <= SumFunction(h)
<1>1. PICK F : Sums(f, SUBSET S, F) /\ SumFunction(f) = F[S]  BY SumIsLast
<1>2. PICK H : Sums(h, SUBSET S, H) /\ SumFunction(h) = H[S]  BY SumIsLast
<1>. DEFINE Fine(s) == F[s] \in Nat /\ H[s] \in Nat /\ F[s] <= H[s]
            Bad == {n \in Nat : \E s \in SUBSET S : Cardinality(s) = n /\ ~Fine(s)}
<1>3. ASSUME NEW s \in SUBSET S, s # {} => Fine(s \ {First(s)})  PROVE Fine(s)
  <2>1. F[s] = IF s = {} THEN 0 ELSE f[First(s)] + F[s \ {First(s)}]  BY <1>1 DEF Sums
  <2>2. H[s] = IF s = {} THEN 0 ELSE h[First(s)] + H[s \ {First(s)}]  BY <1>2 DEF Sums
  <2>3. CASE s = {}  BY <2>1, <2>2, <2>3
  <2>4. CASE s # {}
    <3>1. First(s) \in S  BY <2>4, FirstTaken
    <3>2. f[First(s)] \in Nat /\ h[First(s)] \in Nat /\ f[First(s)] <= h[First(s)]  BY <3>1
    <3>. QED BY <1>3, <2>1, <2>2, <2>4, <3>2
  <2>. QED BY <2>3, <2>4
<1>4. ASSUME Bad # {}  PROVE FALSE
  <2>1. PICK n \in Bad : \A v \in Bad : n <= v
    <3>1. Bad \in SUBSET Nat  OBVIOUS
    <3>. HIDE DEF Bad
    <3>. QED BY <1>4, <3>1, LeastNumber
  <2>2. PICK s \in SUBSET S : Cardinality(s) = n /\ ~Fine(s)  BY <2>1
  <2>3. s # {} /\ ~Fine(s \ {First(s)})  
    <3>. HIDE DEF Fine
    <3>. QED BY <1>3, <2>2
  <2>4. /\ s \ {First(s)} \in SUBSET S /\ n - 1 = Cardinality(s \ {First(s)})
        /\ n - 1 \in Nat
    <3>1. IsFiniteSet(s \ {First(s)})  BY FS_Subset, <2>2
    <3>2. Cardinality(s \ {First(s)}) \in Nat  BY <3>1, FS_CardinalityType
    <3>3. /\ s \ {First(s)} \in SUBSET S
          /\ Cardinality(s \ {First(s)}) = Cardinality(s) - 1
      BY <2>2, <2>3, FirstTaken
    <3>. QED BY <2>2, <3>2, <3>3
  <2>5. n - 1 \in Bad
    <3>. HIDE DEF Fine
    <3>. QED BY <2>3, <2>4
  <2>. QED BY <2>1, <2>5
<1>5. Cardinality(S) \in Nat  BY FS_CardinalityType
<1>6. Fine(S)  
  <2>. HIDE DEF Fine
  <2>. QED BY <1>4, <1>5
<1>. QED BY <1>1, <1>2, <1>6

-----------------------------------------------------------------------------
(***************************************************************************)
(* The bound.                                                              *)
(***************************************************************************)

\* Who owes the sweep: a session that was killed, or a write at its sweep.
Owes == overdue \/ \E t \in Task : stage[t] = "sweep"

\* Every file has a size.
LEMMA SizesType == TypeOK => FileSize \in [Key -> Nat]
<1>. SUFFICES ASSUME TypeOK, NEW k \in Key
              PROVE  (CASE disk[k] = NoEntry -> 0
                        [] disk[k] = Junk -> JunkSize
                        [] OTHER -> Size[k][disk[k].ver]) \in Nat
  BY DEF FileSize
<1>1. JunkSize \in Nat /\ Size[k] \in [Version -> Nat]  BY StoreAssumption
<1>. DEFINE body == CASE disk[k] = NoEntry -> 0
                      [] disk[k] = Junk -> JunkSize
                      [] OTHER -> Size[k][disk[k].ver]
<1>2. CASE disk[k] = NoEntry
  <2>1. disk[k] # Junk  BY <1>2 DEF NoEntry, Junk
  <2>2. body = 0  BY <1>2, <2>1, Zenon
  <2>. HIDE DEF body
  <2>3. body \in Nat  BY <2>2
  <2>. QED BY <2>3 DEF body
<1>3. CASE disk[k] # NoEntry /\ disk[k] = Junk
  <2>1. body = JunkSize  BY <1>3, Zenon
  <2>. HIDE DEF body
  <2>2. body \in Nat  BY <1>1, <2>1
  <2>. QED BY <2>2 DEF body
<1>4. CASE disk[k] # NoEntry /\ disk[k] # Junk
  <2>1. disk[k].ver \in Version  BY <1>4 DEF TypeOK, Disk, Entry
  <2>2. Size[k][disk[k].ver] \in Nat  BY <1>1, <2>1
  <2>3. body = Size[k][disk[k].ver]  BY <1>4, Zenon
  <2>. HIDE DEF body
  <2>4. body \in Nat  BY <2>2, <2>3
  <2>. QED BY <2>4 DEF body
<1>. QED BY <1>2, <1>3, <1>4

LEMMA SizesTypeNext == (TypeOK => FileSize \in [Key -> Nat])'
BY SizesType, PTL

\* A step that only removes files makes the store no larger.
LEMMA RemovingShrinks ==
  ASSUME TypeOK, TypeOK', \A k \in Key : disk'[k] \in {disk[k], NoEntry}
  PROVE  Total \in Nat /\ Total' \in Nat /\ Total' <= Total
<1>1. FileSize \in [Key -> Nat] /\ FileSize' \in [Key -> Nat]
  BY SizesType, SizesTypeNext
<1>2. ASSUME NEW k \in Key  PROVE FileSize'[k] <= FileSize[k]
  <2>1. FileSize[k] \in Nat /\ FileSize'[k] \in Nat  BY <1>1
  <2>2. CASE disk'[k] = disk[k]
    <3>1. FileSize'[k] = FileSize[k]  BY <2>2 DEF FileSize
    <3>. QED BY <2>1, <3>1
  <2>3. CASE disk'[k] = NoEntry
    <3>0. disk'[k] # Junk  BY <2>3 DEF NoEntry, Junk
    <3>1. FileSize'[k] = 0  BY <2>3, <3>0, Zenon DEF FileSize
    <3>. QED BY <2>1, <3>1
  <2>. QED BY <2>2, <2>3
<1>3. IsFiniteSet(Key)  BY StoreAssumption
<1>. HIDE DEF FileSize
<1>4. SumFunction(FileSize') \in Nat /\ SumFunction(FileSize) \in Nat
      /\ SumFunction(FileSize') <= SumFunction(FileSize)
  BY <1>1, <1>2, <1>3, SumMonotone
<1>. QED BY <1>4 DEF Total

\* Every step leaves the debt, or the store, as small as it was; or owes
\* afterwards; or has swept the store to its bound.
LEMMA StepOwes ==
  ASSUME TypeOK, TypeOK', [Next]_vars
  PROVE  \/ (\A k \in Key : disk'[k] \in {disk[k], NoEntry}) /\ (Owes => Owes')
         \/ Owes'
         \/ disk' = disk /\ Total <= MaxBytes
<1>. DEFINE Kept == \A k \in Key : disk'[k] \in {disk[k], NoEntry}
            Goal == (Kept /\ (Owes => Owes')) \/ Owes' \/ (disk' = disk /\ Total <= MaxBytes)
<1>1. ASSUME disk' = disk, overdue' = overdue,
             \A t \in Task : stage[t] = "sweep" => stage'[t] = "sweep"
      PROVE  Goal
  BY <1>1 DEF Owes
<1>2. ASSUME NEW t \in Task, stage[t] # "sweep",
             \A u \in Task \ {t} : stage'[u] = stage[u]
      PROVE  \A u \in Task : stage[u] = "sweep" => stage'[u] = "sweep"
  BY <1>2
<1>3. ASSUME NEW t \in Task, Leave({t})
      PROVE  \A u \in Task \ {t} : stage'[u] = stage[u]
  BY <1>3 DEF Leave
<1>4. ASSUME NEW p \in Proc, Start(p) \/ Crash(p)  PROVE Goal
  <2>1. CASE Start(p)  BY <1>1, <2>1 DEF Start, request
  <2>2. CASE Crash(p)
    <3>1. disk' = disk /\ (overdue => overdue')  BY <2>2 DEF Crash
    <3>2. ASSUME NEW t \in Task, stage[t] = "sweep"  PROVE Owes'
      <4>1. CASE ProcOf[t] = p  BY <2>2, <3>2, <4>1 DEF Crash, Owes
      <4>2. CASE ProcOf[t] # p
        <5>1. stage'[t] = stage[t]  BY <2>2, <4>2 DEF Crash, Leave
        <5>. QED BY <3>2, <5>1 DEF Owes
      <4>. QED BY <4>1, <4>2
    <3>. QED BY <3>1, <3>2 DEF Owes
  <2>. QED BY <1>4, <2>1, <2>2
<1>5. ASSUME NEW r \in Repo, Change(r)  PROVE Goal
  BY <1>1, <1>5 DEF Change
<1>6. ASSUME NEW t \in Task,
             \/ \E k \in Key : Get(t, k)
             \/ \E r \in Repo : Post(t, r)
             \/ SaveDoc(t) \/ Answer(t) \/ Apply(t)
      PROVE  Goal
  <2>1. stage[t] # "sweep" /\ disk' = disk /\ overdue' = overdue
    BY <1>6 DEF Get, Post, SaveDoc, Answer, Apply, Begin
  <2>2. \A u \in Task \ {t} : stage'[u] = stage[u]
    BY <1>6 DEF Get, Post, SaveDoc, Answer, Apply, TypeOK
  <2>. QED BY <1>1, <1>2, <2>1, <2>2
<1>7. ASSUME NEW t \in Task, Pass(t) \/ Receive(t) \/ ReceiveWrite(t) \/ Lock(t)
                             \/ WriteFails(t) \/ Return(t)
      PROVE  Goal
  <2>1. stage[t] # "sweep" /\ disk' = disk /\ overdue' = overdue
    BY <1>7 DEF Pass, Receive, ReceiveWrite, Lock, WriteFails, Return
  <2>2. \A u \in Task \ {t} : stage'[u] = stage[u]
    BY <1>3, <1>7 DEF Pass, Receive, ReceiveWrite, Lock, WriteFails, Return, Unlock, TypeOK
  <2>. QED BY <1>1, <1>2, <2>1, <2>2
<1>8. ASSUME NEW t \in Task, Rename(t)  PROVE Goal
  <2>1. CASE target[t] \in Key /\ stage' = [stage EXCEPT ![t] = "sweep"]
    <3>1. stage'[t] = "sweep"  BY <2>1 DEF TypeOK
    <3>. QED BY <3>1 DEF Owes
  <2>2. CASE Unlock(t) /\ UNCHANGED disk
    <3>1. \A u \in Task \ {t} : stage'[u] = stage[u]  BY <1>3, <2>2 DEF Unlock
    <3>2. stage[t] # "sweep" /\ overdue' = overdue  BY <1>8 DEF Rename
    <3>. QED BY <1>1, <1>2, <2>2, <3>1, <3>2
  <2>. QED BY <1>8, <2>1, <2>2 DEF Rename
<1>9. ASSUME NEW t \in Task, Evict(t)  PROVE Goal
  <2>1. stage[t] = "sweep"  BY <1>9 DEF Evict
  <2>2. CASE UNCHANGED <<writeMu, request, overdue>>
    BY <2>1, <2>2 DEF Owes, request
  <2>3. CASE Total <= MaxBytes /\ UNCHANGED disk
    BY <2>3
  <2>. QED BY <1>9, <2>2, <2>3 DEF Evict
<1>10. ASSUME NEW t \in Task, Drop(t)  PROVE Goal
  <2>1. stage[t] # "sweep" /\ overdue' = overdue  BY <1>10 DEF Drop
  <2>2. CASE (\E k \in Owned(target[t]) : disk' = [disk EXCEPT ![k] = NoEntry])
             /\ UNCHANGED <<writeMu, request>>
    <3>1. Kept  BY <2>2 DEF TypeOK
    <3>2. Owes => Owes'  BY <2>1, <2>2 DEF Owes, request
    <3>. QED BY <3>1, <3>2
  <2>3. CASE Unlock(t) /\ UNCHANGED disk
    <3>1. \A u \in Task \ {t} : stage'[u] = stage[u]  BY <1>3, <2>3 DEF Unlock
    <3>. QED BY <1>1, <1>2, <2>1, <2>3, <3>1
  <2>. QED BY <1>10, <2>2, <2>3 DEF Drop
<1>11. ASSUME UNCHANGED vars  PROVE Goal
  BY <1>1, <1>11 DEF vars, request
<1>. HIDE DEF Goal
<1>12. ASSUME NEW t \in Task, Step(t)  PROVE Goal
  BY <1>12, <1>7, <1>8, <1>9, <1>10, Zenon DEF Step
<1>13. ASSUME Next  PROVE Goal
  BY <1>4, <1>5, <1>6, <1>12, <1>13, Zenon DEF Next
<1>14. Goal  BY <1>11, <1>13
<1>. QED BY <1>14 DEF Goal

\* R15, for any sizes, any bound and whatever earlier sessions left: the
\* store is over its bound only while a write is at its sweep, or after one
\* was killed before it, until the next write sweeps.
THEOREM BoundIsPaidFor == Spec => []Bounded
<1>1. Init => Bounded  BY DEF Init, Bounded
<1>2. ASSUME TypeOK, TypeOK', [Next]_vars, Bounded  PROVE Bounded'
  <2>. SUFFICES ASSUME Total' > MaxBytes  PROVE Owes'
    BY DEF Bounded, Owes
  <2>1. ASSUME \A k \in Key : disk'[k] \in {disk[k], NoEntry}
        PROVE  Total \in Nat /\ Total' \in Nat /\ Total' <= Total
    BY <1>2, <2>1, RemovingShrinks
  <2>2. CASE disk' = disk /\ Total <= MaxBytes
    <3>1. Total' <= Total /\ Total \in Nat /\ Total' \in Nat  BY <2>1, <2>2
    <3>. QED BY <2>2, <3>1, StoreAssumption
  <2>3. CASE (\A k \in Key : disk'[k] \in {disk[k], NoEntry}) /\ (Owes => Owes')
    <3>1. Total' <= Total /\ Total \in Nat /\ Total' \in Nat  BY <2>1, <2>3
    <3>2. Total > MaxBytes  BY <3>1, StoreAssumption
    <3>. QED BY <1>2, <2>3, <3>2 DEF Bounded, Owes
  <2>. QED BY <1>2, <2>2, <2>3, StepOwes
<1>. QED BY <1>1, <1>2, TypeCorrect, PTL DEF Spec
==============================================================================
