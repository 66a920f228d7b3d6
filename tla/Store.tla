-------------------------------- MODULE Store --------------------------------
(***************************************************************************)
(* The local store (internal/store): the innermost RoundTripper, which     *)
(* revalidates every GET against an entry on disk, saves what comes back,  *)
(* and drops a repository's entries after a successful write.              *)
(*                                                                         *)
(* Several processes share one directory.  Each tries the advisory lock    *)
(* once, at its start; the one that gets it writes, the others only read.  *)
(* In a process many goroutines call RoundTrip at once; each is a Task.    *)
(* A process may be killed between any two steps, and the kernel then      *)
(* releases its lock and leaves its temporaries.  Resources are versions:  *)
(* an ETag names a version, and the server compares it with its current    *)
(* one (docs/research/filtered-listing-etag.md).  The clock counts the     *)
(* starts of processes: stamps of different sessions are ordered, and of   *)
(* two stamps of one session eviction may take either for the older.       *)
(***************************************************************************)
EXTENDS Integers, FiniteSets, Functions

CONSTANTS
    Proc, Task, ProcOf,     \* processes, their goroutines
    Key, Repo, RepoOf,      \* cache keys, and the repository each belongs to
    NoProc, NoTask,
    MaxVersion,             \* bound: changes of one resource
    Size,                   \* Size[k][v]: bytes of version v of k
    JunkSize,               \* bytes of a file that does not decode
    LeftBehind,             \* the files earlier sessions left
    MaxBytes, MaxEntry,     \* maxStoreBytes, maxEntryBytes
    MaxRequests,            \* bound: requests of all processes
    MaxCrashes              \* bound: processes killed

Version == 0..MaxVersion
Sessions == 0..(Cardinality(Proc) + MaxCrashes)     \* 0: before the first

NoEntry == [ver |-> -1, at |-> 0]       \* no file
Junk    == [ver |-> -2, at |-> 0]       \* a file that does not decode
Entry   == [ver : Version, at : Sessions]
Disk    == Entry \cup {NoEntry, Junk}
Nothing == "nothing"                    \* the target of no call
Doc     == "document"                   \* the target of SaveDoc

ASSUME StoreAssumption ==
    /\ NoProc \notin Proc /\ NoTask \notin Task
    /\ IsFiniteSet(Proc) /\ IsFiniteSet(Key)
    /\ Key \cap (Repo \cup {Doc, Nothing}) = {} /\ Repo \cap {Doc, Nothing} = {}
    /\ ProcOf \in [Task -> Proc] /\ RepoOf \in [Key -> Repo]
    /\ Size \in [Key -> [Version -> Nat]]
    /\ LeftBehind \in [Key -> Disk]
    /\ {JunkSize, MaxBytes, MaxEntry, MaxVersion,
        MaxRequests, MaxCrashes} \subseteq Nat

VARIABLES
    server,         \* the current version of every resource, at GitHub
    disk,           \* the entry file of every key
    temps,          \* store.tmp-* files, by the task that made them
    lock,           \* who holds store.lock
    up,             \* the processes running
    invalidated,    \* a degraded reader's own view, per process
    writeMu,        \* per process, the task that holds it
    stage, target,  \* per task: how far, and at which key or repository
    held,           \* per task: the entry loaded, then the one to be saved
    reply,          \* per task: the version the server answered with
    now, requests, crashes

\* History: the versions that were current at some instant of a GET, and
\* whether a process was killed before its write had paid for itself.
VARIABLES seen, overdue

request == <<stage, target, held, reply, seen>>
budget  == <<now, requests, crashes>>
vars    == <<server, disk, temps, lock, up, invalidated, writeMu, request,
             budget, overdue>>

Stage == {"idle",
          "sent",       \* a GET on the wire
          "answered",   \* its answer on the way back
          "posted",     \* a write on the wire
          "applied",    \* its 2xx on the way back
          "lock",       \* waiting for writeMu
          "temp",       \* writeFileAtomic, before the rename
          "sweep",      \* enforceBound
          "drop",       \* invalidate
          "done"}       \* the response, not to be saved, is the caller's

Writer(t) == lock = ProcOf[t]

\* (mutant: whatever the file holds is taken for an entry)
LoadedAsIs(k) == disk[k]

\* The entry of k that load returns: a file that is there and decodes.
Loaded(k) == IF disk[k] \in Entry THEN disk[k] ELSE NoEntry

FileSize == [k \in Key |-> CASE disk[k] = NoEntry -> 0
                             [] disk[k] = Junk    -> JunkSize
                             [] OTHER             -> Size[k][disk[k].ver]]
Total == SumFunction(FileSize)
Files == {k \in Key : disk[k] # NoEntry}

-----------------------------------------------------------------------------
Init ==
    /\ server = [k \in Key |-> 0]
    /\ disk = LeftBehind
    /\ temps = {}
    /\ lock = NoProc
    /\ up = {}
    /\ invalidated = [p \in Proc |-> {}]
    /\ writeMu = [p \in Proc |-> NoTask]
    /\ stage = [t \in Task |-> "idle"]
    /\ target = [t \in Task |-> Nothing]
    /\ held = [t \in Task |-> NoEntry]
    /\ reply = [t \in Task |-> 0]
    /\ seen = [t \in Task |-> {}]
    /\ now = 0 /\ requests = 0 /\ crashes = 0
    /\ overdue = (Total > MaxBytes)      \* an earlier session's debt

\* NewTransport: acquire tries the lock and, having it, sweeps the orphans.
\* An open or a flock that fails makes a reader, as contention does.
Start(p) ==
    /\ p \notin up
    /\ up' = up \cup {p}
    /\ now' = now + 1
    /\ \/ lock = NoProc /\ lock' = p /\ temps' = {}
       \/ UNCHANGED <<lock, temps>>
    /\ UNCHANGED <<server, disk, invalidated, writeMu, request, requests, crashes,
                   overdue>>

\* The calls of T are over, and their locals with them.
Leave(T) ==
    /\ stage'  = [t \in Task |-> IF t \in T THEN "idle" ELSE stage[t]]
    /\ target' = [t \in Task |-> IF t \in T THEN Nothing ELSE target[t]]
    /\ held'   = [t \in Task |-> IF t \in T THEN NoEntry ELSE held[t]]
    /\ reply'  = [t \in Task |-> IF t \in T THEN 0 ELSE reply[t]]
    /\ seen'   = [t \in Task |-> IF t \in T THEN {} ELSE seen[t]]

\* The process is killed: its goroutines, its lock and its memory go.
Crash(p) ==
    LET mine == {t \in Task : ProcOf[t] = p}
    IN  /\ p \in up
        /\ crashes < MaxCrashes
        /\ crashes' = crashes + 1
        /\ up' = up \ {p}
        /\ lock' = IF lock = p THEN NoProc ELSE lock
        /\ invalidated' = [invalidated EXCEPT ![p] = {}]
        /\ writeMu' = [writeMu EXCEPT ![p] = NoTask]
        /\ Leave(mine)
        /\ overdue' = (overdue \/ \E t \in mine : stage[t] = "sweep")
        /\ UNCHANGED <<server, disk, temps, now, requests>>

-----------------------------------------------------------------------------
Begin(t) ==
    /\ stage[t] = "idle"
    /\ ProcOf[t] \in up
    /\ requests < MaxRequests
    /\ requests' = requests + 1

\* (mutant: an entry is served without revalidation)
GetOnAge(t, k) ==
    /\ Begin(t)
    /\ held' = [held EXCEPT ![t] = Loaded(k)]
    /\ target' = [target EXCEPT ![t] = k]
    /\ seen' = [seen EXCEPT ![t] = {server[k]}]
    /\ stage' = [stage EXCEPT ![t] =
                    IF Loaded(k) # NoEntry THEN "done" ELSE "sent"]
    /\ UNCHANGED <<server, disk, temps, lock, up, invalidated, writeMu, reply,
                   now, crashes, overdue>>

\* RoundTrip of a GET, down to the wire: the persisted entry is loaded, unless
\* this process is a reader that invalidated the repository, and its ETag goes
\* out as If-None-Match.
Get(t, k) ==
    /\ Begin(t)
    /\ held' = [held EXCEPT ![t] =
                   IF RepoOf[k] \in invalidated[ProcOf[t]] THEN NoEntry
                                                           ELSE Loaded(k)]
    /\ target' = [target EXCEPT ![t] = k]
    /\ seen' = [seen EXCEPT ![t] = {server[k]}]
    /\ stage' = [stage EXCEPT ![t] = "sent"]
    /\ UNCHANGED <<server, disk, temps, lock, up, invalidated, writeMu, reply,
                   now, crashes, overdue>>

\* RoundTrip of anything else: never conditional.
Post(t, r) ==
    /\ Begin(t)
    /\ target' = [target EXCEPT ![t] = r]
    /\ stage' = [stage EXCEPT ![t] = "posted"]
    /\ UNCHANGED <<server, disk, temps, lock, up, invalidated, writeMu, held,
                   reply, seen, now, crashes, overdue>>

\* SaveDoc: a reader returns at once, a writer goes for writeMu.
SaveDoc(t) ==
    /\ Begin(t)
    /\ Writer(t)
    /\ target' = [target EXCEPT ![t] = Doc]
    /\ stage' = [stage EXCEPT ![t] = "lock"]
    /\ UNCHANGED <<server, disk, temps, lock, up, invalidated, writeMu, held,
                   reply, seen, now, crashes, overdue>>

\* GitHub answers a GET: 304 when the ETag sent is the current one, else 200.
Answer(t) ==
    /\ stage[t] = "sent"
    /\ reply' = [reply EXCEPT ![t] = server[target[t]]]
    /\ stage' = [stage EXCEPT ![t] = "answered"]
    /\ UNCHANGED <<server, disk, temps, lock, up, invalidated, writeMu, target,
                   held, seen, budget, overdue>>

\* The repository r changes at GitHub, in everything it serves, and a GET in
\* flight may see it before or after.
Changes(r) ==
    LET K == {k \in Key : RepoOf[k] = r}
    IN  /\ \A k \in K : server[k] < MaxVersion
        /\ server' = [k \in Key |-> IF k \in K THEN server[k] + 1 ELSE server[k]]
        /\ seen' = [t \in Task |->
                       IF stage[t] \in {"sent", "answered"} /\ target[t] \in K
                       THEN seen[t] \cup {server[target[t]] + 1} ELSE seen[t]]

\* GitHub applies a write.
Apply(t) ==
    /\ stage[t] = "posted"
    /\ Changes(target[t])
    /\ stage' = [stage EXCEPT ![t] = "applied"]
    /\ UNCHANGED <<disk, temps, lock, up, invalidated, writeMu, target, held,
                   reply, budget, overdue>>

\* Somebody else changes the repository, or time does.
Change(r) ==
    /\ Changes(r)
    /\ UNCHANGED <<disk, temps, lock, up, invalidated, writeMu, stage, target,
                   held, reply, budget, overdue>>

\* The network fails, before or after GitHub acted, or the status is one the
\* store does not act on: the caller gets it, and the store does nothing.
Pass(t) ==
    /\ stage[t] \in {"sent", "answered", "posted", "applied"}
    /\ Leave({t})
    /\ UNCHANGED <<server, disk, temps, lock, up, invalidated, writeMu, budget,
                   overdue>>

-----------------------------------------------------------------------------
\* What goes to disk: save is a no-op in a reader, a 304 saves the entry it
\* revalidated, and a 200 is declined above the ceiling.
Saves(t) ==
    /\ Writer(t)
    /\ held[t].ver = reply[t] \/ Size[target[t]][reply[t]] <= MaxEntry

\* reconstitute, on a 304, and persist, on a 200: the entry, stamped with the
\* clock, goes to save, and its body is the caller's.
Receive(t) ==
    /\ stage[t] = "answered"
    /\ held' = [held EXCEPT ![t] = [ver |-> reply[t], at |-> now]]
    /\ stage' = [stage EXCEPT ![t] = IF Saves(t) THEN "lock" ELSE "done"]
    /\ UNCHANGED <<server, disk, temps, lock, up, invalidated, writeMu, target,
                   reply, seen, budget, overdue>>

\* A write's 2xx: a reader marks the repository in its own view, the writer
\* goes for its files.
ReceiveWrite(t) ==
    LET p == ProcOf[t]
    IN  /\ stage[t] = "applied"
        /\ IF Writer(t)
           THEN /\ stage' = [stage EXCEPT ![t] = "lock"]
                /\ UNCHANGED invalidated
                /\ UNCHANGED <<target, held, reply, seen>>
           ELSE /\ invalidated' = [invalidated EXCEPT ![p] = @ \cup {target[t]}]
                /\ Leave({t})
        /\ UNCHANGED <<server, disk, temps, lock, up, writeMu, budget, overdue>>

\* (mutant: invalidate does not take writeMu)
LockToSaveOnly(t) ==
    /\ stage[t] = "lock"
    /\ \/ target[t] \in Repo
       \/ writeMu[ProcOf[t]] = NoTask
    /\ writeMu' = [writeMu EXCEPT ![ProcOf[t]] = t]
    /\ \/ target[t] \in Repo
          /\ stage' = [stage EXCEPT ![t] = "drop"] /\ UNCHANGED temps
       \/ target[t] \notin Repo
          /\ stage' = [stage EXCEPT ![t] = "temp"] /\ temps' = temps \cup {t}
    /\ UNCHANGED <<server, disk, lock, up, invalidated, target, held, reply,
                   seen, budget, overdue>>

\* writeMu is free: invalidate starts removing files, save and SaveDoc create
\* a temporary.
Lock(t) ==
    /\ stage[t] = "lock"
    /\ writeMu[ProcOf[t]] = NoTask
    /\ writeMu' = [writeMu EXCEPT ![ProcOf[t]] = t]
    /\ \/ target[t] \in Repo
          /\ stage' = [stage EXCEPT ![t] = "drop"] /\ UNCHANGED temps
       \/ target[t] \notin Repo
          /\ stage' = [stage EXCEPT ![t] = "temp"] /\ temps' = temps \cup {t}
    /\ UNCHANGED <<server, disk, lock, up, invalidated, target, held, reply,
                   seen, budget, overdue>>

\* The deferred Unlock, and the return to the caller.
Unlock(t) ==
    /\ writeMu' = [writeMu EXCEPT ![ProcOf[t]] = NoTask]
    /\ Leave({t})

\* (mutant: a file that was there before is not counted again)
RenameInPlace(t) ==
    /\ stage[t] = "temp"
    /\ temps' = temps \ {t}
    /\ IF target[t] \in Key
       THEN disk' = [disk EXCEPT ![target[t]] = held[t]]
       ELSE UNCHANGED disk
    /\ IF target[t] \in Key /\ disk[target[t]] = NoEntry
       THEN /\ stage' = [stage EXCEPT ![t] = "sweep"]
            /\ UNCHANGED <<writeMu, target, held, reply, seen>>
       ELSE Unlock(t)
    /\ UNCHANGED <<server, lock, up, invalidated, budget, overdue>>

\* writeFileAtomic's rename: an entry then pays for its bytes, a document,
\* outside the bound, is finished.
Rename(t) ==
    /\ stage[t] = "temp"
    /\ temps' = temps \ {t}
    /\ \/ /\ target[t] \in Key
          /\ disk' = [disk EXCEPT ![target[t]] = held[t]]
          /\ stage' = [stage EXCEPT ![t] = "sweep"]
          /\ UNCHANGED <<writeMu, target, held, reply, seen>>
       \/ target[t] = Doc /\ Unlock(t) /\ UNCHANGED disk
    /\ UNCHANGED <<server, lock, up, invalidated, budget, overdue>>

\* writeFileAtomic fails anywhere before the rename: the temporary goes, the
\* old entry stays, nothing is swept.
WriteFails(t) ==
    /\ stage[t] = "temp"
    /\ temps' = temps \ {t}
    /\ Unlock(t)
    /\ UNCHANGED <<server, disk, lock, up, invalidated, budget, overdue>>

\* enforceBound: over the bound it removes a file no other is older than, one
\* that does not decode counting as oldest, and within it returns.
Evict(t) ==
    /\ stage[t] = "sweep"
    /\ \/ /\ Total > MaxBytes
          /\ \E k \in Files :
                /\ \A f \in Files : disk[k].at <= disk[f].at
                /\ disk' = [disk EXCEPT ![k] = NoEntry]
          /\ UNCHANGED <<writeMu, request, overdue>>
       \/ /\ Total <= MaxBytes
          /\ Unlock(t)
          /\ overdue' = FALSE
          /\ UNCHANGED disk
    /\ UNCHANGED <<server, temps, lock, up, invalidated, budget>>

\* The files invalidate removes: the repository's, of those that decode.
Owned(r) == {k \in Key : RepoOf[k] = r /\ disk[k] \in Entry}

\* invalidate, one file at a time.
Drop(t) ==
    /\ stage[t] = "drop"
    /\ \/ /\ \E k \in Owned(target[t]) : disk' = [disk EXCEPT ![k] = NoEntry]
          /\ UNCHANGED <<writeMu, request>>
       \/ Owned(target[t]) = {} /\ Unlock(t) /\ UNCHANGED disk
    /\ UNCHANGED <<server, temps, lock, up, invalidated, budget, overdue>>

Return(t) ==
    /\ stage[t] = "done"
    /\ Leave({t})
    /\ UNCHANGED <<server, disk, temps, lock, up, invalidated, writeMu, budget,
                   overdue>>

Step(t) ==
    \/ Pass(t) \/ Receive(t) \/ ReceiveWrite(t) \/ Lock(t) \/ Rename(t)
    \/ WriteFails(t) \/ Evict(t) \/ Drop(t) \/ Return(t)

Next ==
    \/ \E p \in Proc : Start(p) \/ Crash(p)
    \/ \E r \in Repo : Change(r)
    \/ \E t \in Task :
          \/ \E k \in Key : Get(t, k)
          \/ \E r \in Repo : Post(t, r)
          \/ SaveDoc(t) \/ Answer(t) \/ Apply(t) \/ Step(t)

Spec == Init /\ [][Next]_vars

-----------------------------------------------------------------------------
\* What a call at a stage can be about: a GET a key, a write a repository.
Fits(s) ==
    CASE s = "idle"                              -> {Nothing}
      [] s \in {"sent", "answered", "sweep", "done"} -> Key
      [] s \in {"posted", "applied", "drop"}     -> Repo
      [] s = "temp"                              -> Key \cup {Doc}
      [] s = "lock"                              -> Key \cup Repo \cup {Doc}

\* The state has the shape the Go types give it.
TypeOK ==
    /\ server \in [Key -> Version]
    /\ disk \in [Key -> Disk]
    /\ temps \subseteq Task
    /\ lock \in Proc \cup {NoProc} /\ up \subseteq Proc
    /\ invalidated \in [Proc -> SUBSET Repo]
    /\ writeMu \in [Proc -> Task \cup {NoTask}]
    /\ stage \in [Task -> Stage]
    /\ target \in [Task -> Key \cup Repo \cup {Doc, Nothing}]
    /\ \A t \in Task : target[t] \in Fits(stage[t])
    /\ held \in [Task -> Entry \cup {NoEntry}]
    /\ reply \in [Task -> Version]
    /\ seen \in [Task -> SUBSET Version]
    /\ now \in Sessions /\ requests \in 0..MaxRequests
    /\ crashes \in 0..MaxCrashes /\ overdue \in BOOLEAN

Mutating == {t \in Task : stage[t] \in {"temp", "sweep", "drop"}}

\* R21, R23 and writeMu: of all the goroutines of all the processes at most
\* one is at the files, it is the holder's of its own process's writeMu, and
\* that process holds store.lock; kills, restarts and late answers included.
WriterAlone ==
    /\ \A t \in Mutating : lock = ProcOf[t] /\ writeMu[ProcOf[t]] = t
    /\ \A t, u \in Mutating : t = u

\* sweepTempFiles: while somebody writes, the temporaries on disk are exactly
\* those of renames under way.  An orphan is reclaimed by the next writer, and
\* no sweep takes a live one from under its rename.
TempsAreLive ==
    lock # NoProc => temps = {t \in Task : stage[t] = "temp"}

\* R15: the store is over its bound only while a write is paying for itself,
\* or after the process that owed it was killed, until the next write pays.
Bounded == Total > MaxBytes => overdue \/ \E t \in Task : stage[t] = "sweep"

\* R8: whatever a GET returns was GitHub's current version at some instant
\* between its start and its end, although the entry it revalidated may have
\* been rewritten, evicted or invalidated by others meanwhile, and although a
\* slow save may put an outdated entry back on disk.
ServedIsCurrent ==
    \A t \in Task :
        stage[t] \in {"lock", "temp", "sweep", "done"} /\ target[t] \in Key
            => held[t].ver \in seen[t]

\* save, SaveDoc and invalidate: writeMu is held only by a call that is at the files
\* and so will release it.  A failed write, a kill in the middle of one and a
\* restart included, nobody waits for a mutex whose holder is gone.
MutexHasHolder ==
    \A p \in Proc : writeMu[p] # NoTask =>
        writeMu[p] \in Mutating /\ ProcOf[writeMu[p]] = p

\* The three together: the files have one writer, whose mutex is let go and
\* whose temporaries are accounted for.
FilesInOrder == WriterAlone /\ MutexHasHolder /\ TempsAreLive
===============================================================================
