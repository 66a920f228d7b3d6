------------------------------ MODULE Discovery ------------------------------
(***************************************************************************)
(* Repository discovery (internal/discovery) and how main.go drives it.    *)
(*                                                                         *)
(* A session reloads the persisted records.  One goroutine then waits for  *)
(* the launch repository's first poll, spends a pass if nothing was        *)
(* reloaded, and adopts the launch repository if no enumeration returned   *)
(* it; the refresh key runs a pass and an adoption on a goroutine of its   *)
(* own; a re-probe revalidates repositories already recorded.  A pass      *)
(* probes every repository on its own goroutine, and every probe writes    *)
(* the one map of records when it returns.  The server is arbitrary: an    *)
(* enumeration may return any repositories, a probe any answer.            *)
(*                                                                         *)
(* Two-tier timing is left out: any recorded repository may be due.        *)
(***************************************************************************)
EXTENDS Integers, FiniteSets

CONSTANTS
    Repo, None,
    Launches, Excludes,     \* the launch repositories and exclude lists tried
    RetirementThreshold,
    MaxSessions,            \* bound: sessions
    MaxStarts               \* bound: refreshes and re-probes, over all sessions

Launcher  == "launch"       \* discoverBehind
Refresher == "refresh"      \* fullRefresh
Reprober  == "reprobe"      \* Reprobe
Task == {Launcher, Refresher, Reprober}

Record == [known : BOOLEAN, adopted : BOOLEAN, hasRuns : BOOLEAN,
           fails : 0..(RetirementThreshold - 1)]
Empty  == [r \in Repo |-> None]
Blank  == [known |-> FALSE, adopted |-> FALSE, hasRuns |-> FALSE, fails |-> 0]

ASSUME DiscoveryAssumption ==
    /\ None \notin Repo /\ \A rec \in Record : rec # None
    /\ Launches \subseteq Repo \cup {None} /\ Excludes \subseteq SUBSET Repo
    /\ RetirementThreshold \in Nat \ {0}
    /\ MaxSessions \in Nat /\ MaxStarts \in Nat

VARIABLES
    life, session, starts,  \* "off", "on" or "quit" (the context is done)
    launch, exclude,        \* the session's launch repository and exclude list
    seeded,                 \* Reload admitted a record, until that is read
    records,                \* the classified set
    doc, mark,              \* the two documents in the store
    running,                \* guardOnePass
    pc, todo, fly, carried, snap, held,     \* per task, see TypeOK
    listed,                 \* history: what enumerations ever returned
    failures                \* history: definitive failures since a success

session_vars == <<life, session, launch, exclude, seeded>>
disk_vars    == <<doc, mark>>
work_vars    == <<todo, fly, carried, snap, held>>
history_vars == <<listed, failures>>
vars == <<session_vars, starts, records, disk_vars, running, pc,
          work_vars, history_vars>>

Recorded == {r \in Repo : records[r] # None}
Up == life # "off"

----------------------------------------------------------------------------
(* The doors to the set.                                                   *)

\* put and putProbed refuse an excluded repository.
Put(r, rec) ==
    records' = IF r \in exclude THEN records ELSE [records EXCEPT ![r] = rec]

\* putProbed: the door of a successful probe.
PutProbed(r, rec) ==
    /\ Put(r, [rec EXCEPT !.fails = 0])
    /\ failures' = [failures EXCEPT ![r] = 0]

\* (mutant: one failure past the threshold)
CountPastThreshold(r) ==
    /\ records' = IF records[r] = None THEN records
                  ELSE [records EXCEPT ![r] =
                        IF @.fails >= RetirementThreshold THEN None
                        ELSE [@ EXCEPT !.fails = @ + 1]]
    /\ UNCHANGED failures

Counted(rec) ==
    IF rec.fails + 1 >= RetirementThreshold THEN None
    ELSE [rec EXCEPT !.fails = @ + 1]

CountDefinitiveFailure(r) ==
    IF records[r] = None
    THEN UNCHANGED <<records, failures>>
    ELSE /\ failures' = [failures EXCEPT ![r] =
                IF @ < RetirementThreshold THEN @ + 1 ELSE @]
         /\ records' = [records EXCEPT ![r] = Counted(records[r])]

\* A pass records the capability enumeration returned; a re-probe carries the
\* record it read before its requests went out.
Build(t, r, hasRuns) ==
    [(IF t # Reprober THEN [Blank EXCEPT !.known = TRUE]
      ELSE IF carried[t][r] = None THEN Blank ELSE carried[t][r])
     EXCEPT !.hasRuns = hasRuns]

\* A placeholder is not a result and is not written.
Persistable ==
    [r \in Repo |-> IF records[r] # None /\ records[r].known
                    THEN records[r] ELSE None]

\* An absent marker matches the empty list, an absent document holds nothing.
FingerprintMatches(ex) == mark = ex

\* (mutant: the marker is trusted to speak for the records)
ReloadUnchecked(ex) ==
    [r \in Repo |-> IF FingerprintMatches(ex) /\ doc[r] # None /\ ~doc[r].adopted
                    THEN doc[r] ELSE None]

Reload(ex) ==
    [r \in Repo |->
        IF /\ FingerprintMatches(ex) /\ r \notin ex
           /\ doc[r] # None /\ ~doc[r].adopted
        THEN doc[r] ELSE None]

----------------------------------------------------------------------------
(* Sessions.                                                               *)

Init ==
    /\ life = "off" /\ session = 0 /\ starts = 0
    /\ launch = None /\ exclude = {} /\ seeded = FALSE
    /\ records = Empty /\ doc = Empty /\ mark = {}
    /\ running = FALSE
    /\ pc = [t \in Task |-> "idle"]
    /\ todo = [t \in Task |-> {}] /\ fly = [t \in Task |-> {}]
    /\ carried = [t \in Task |-> Empty] /\ snap = [t \in Task |-> Empty]
    /\ held = [t \in Task |-> FALSE]
    /\ listed = {} /\ failures = [r \in Repo |-> 0]

Start(first, ex) ==
    /\ life = "off" /\ session < MaxSessions
    /\ life' = "on" /\ session' = session + 1
    /\ launch' = IF first \in ex THEN None ELSE first
    /\ exclude' = ex
    /\ records' = Reload(ex)
    /\ seeded' = (Reload(ex) # Empty)
    /\ failures' = [r \in Repo |-> IF Reload(ex)[r] = None THEN 0
                                   ELSE Reload(ex)[r].fails]
    /\ pc' = [pc EXCEPT ![Launcher] = "gate"]
    /\ UNCHANGED <<starts, disk_vars, running, work_vars, listed>>

Quit ==
    /\ life = "on" /\ life' = "quit"
    /\ UNCHANGED <<session, launch, exclude, seeded, starts, records,
                   disk_vars, running, pc, work_vars, history_vars>>

\* The process ends, after a quit or killed: the goroutines end with it.
Exit ==
    /\ Up /\ life' = "off"
    /\ launch' = None /\ exclude' = {} /\ seeded' = FALSE
    /\ records' = Empty /\ running' = FALSE
    /\ pc' = [t \in Task |-> "idle"]
    /\ todo' = [t \in Task |-> {}] /\ fly' = [t \in Task |-> {}]
    /\ carried' = [t \in Task |-> Empty] /\ snap' = [t \in Task |-> Empty]
    /\ held' = [t \in Task |-> FALSE]
    /\ UNCHANGED <<session, starts, disk_vars, history_vars>>

----------------------------------------------------------------------------
(* What starts a task, and what ends one.                                  *)

Frame == UNCHANGED <<session_vars, starts>>

End(t) ==
    /\ pc' = [pc EXCEPT ![t] = "idle"]
    /\ running' = IF t = Refresher THEN FALSE ELSE running

To(t, next) == pc' = [pc EXCEPT ![t] = next] /\ UNCHANGED running

\* The launch goroutine waits for the engine's first poll; a done context
\* releases it.
Primed ==
    /\ pc[Launcher] = "gate"
    /\ To(Launcher, IF seeded THEN "member" ELSE "enumerate")
    /\ seeded' = FALSE
    /\ UNCHANGED <<life, session, launch, exclude, starts>>
    /\ UNCHANGED <<records, disk_vars, work_vars, history_vars>>

GiveUp ==
    /\ pc[Launcher] = "gate" /\ life = "quit"
    /\ End(Launcher) /\ seeded' = FALSE
    /\ UNCHANGED <<life, session, launch, exclude, starts>>
    /\ UNCHANGED <<records, disk_vars, work_vars, history_vars>>

\* A press while a refresh runs is dropped.
PressRefresh ==
    /\ life = "on" /\ starts < MaxStarts /\ starts' = starts + 1
    /\ ~running /\ running' = TRUE
    /\ pc' = [pc EXCEPT ![Refresher] = "enumerate"]
    /\ UNCHANGED <<session_vars, records, disk_vars, work_vars,
                   history_vars>>

Due(ids) ==
    /\ life = "on" /\ starts < MaxStarts /\ starts' = starts + 1
    /\ pc[Reprober] = "idle" /\ ids # {} /\ ids \subseteq Recorded
    /\ todo' = [todo EXCEPT ![Reprober] = ids]
    /\ To(Reprober, "carry")
    /\ UNCHANGED <<session_vars, records, disk_vars, fly, carried,
                   snap, held, history_vars>>

Carry ==
    /\ pc[Reprober] = "carry"
    /\ carried' = [carried EXCEPT ![Reprober] =
            [r \in Repo |-> IF r \in todo[Reprober] THEN records[r] ELSE None]]
    /\ To(Reprober, "fan")
    /\ Frame /\ UNCHANGED <<records, disk_vars, todo, fly, snap, held, history_vars>>

----------------------------------------------------------------------------
(* A pass: enumerate, fan out, persist.                                    *)

Enumerate(t, ids) ==
    /\ pc[t] = "enumerate"
    /\ todo' = [todo EXCEPT ![t] = ids]
    /\ listed' = listed \cup ids
    /\ To(t, "fan")
    /\ Frame /\ UNCHANGED <<records, disk_vars, fly, carried, snap, held,
                            failures>>

EnumerateFails(t) ==
    /\ pc[t] = "enumerate"
    /\ End(t)
    /\ Frame /\ UNCHANGED <<records, disk_vars, work_vars, history_vars>>

\* fanOut starts a goroutine for a repository, unless it is excluded.
Spawn(t, r) ==
    /\ pc[t] = "fan" /\ r \in todo[t]
    /\ life = "on"
    /\ todo' = [todo EXCEPT ![t] = @ \ {r}]
    /\ fly' = [fly EXCEPT ![t] = IF r \in exclude THEN @ ELSE @ \cup {r}]
    /\ Frame /\ UNCHANGED <<records, disk_vars, running, pc, carried, snap, held,
                            history_vars>>

\* It starts no more once the context is done or the Readout, which may say so
\* at any moment, says that the Budget is spent.
Break(t) ==
    /\ pc[t] = "fan" /\ todo[t] # {}
    /\ todo' = [todo EXCEPT ![t] = {}]
    /\ Frame /\ UNCHANGED <<records, disk_vars, running, pc, fly, carried, snap,
                            held, history_vars>>

Lands(t, r) ==
    /\ r \in fly[t]
    /\ fly' = [fly EXCEPT ![t] = @ \ {r}]
    /\ Frame /\ UNCHANGED <<disk_vars, running, pc, todo, carried, snap, held, listed>>

Succeeds(t, r, hasRuns) ==
    /\ Lands(t, r)
    /\ PutProbed(r, Build(t, r, hasRuns))

\* A 404, or a 403 the governor classified as not rate limiting.
FailsForGood(t, r) ==
    /\ Lands(t, r)
    /\ CountDefinitiveFailure(r)

\* (mutant: a failure is a failure)
FailsAnyhow(t, r) ==
    /\ Lands(t, r)
    /\ CountPastThreshold(r)

\* Any other failure, and a goroutine that found the context done or the Budget
\* spent when it ran.
FailsForNow(t, r) ==
    /\ Lands(t, r)
    /\ UNCHANGED <<records, failures>>

Persist(t) ==
    /\ \/ pc[t] = "fan" /\ todo[t] = {} /\ fly[t] = {}
       \/ pc[t] = "admitted"
    /\ snap' = [snap EXCEPT ![t] = Persistable]
    /\ To(t, IF pc[t] = "fan" /\ t # Reprober THEN "save pass" ELSE "save")
    /\ carried' = [carried EXCEPT ![t] = Empty]
    /\ Frame /\ UNCHANGED <<records, disk_vars, todo, fly, held, history_vars>>

\* The two documents are written one after the other, each at best effort: a
\* session without the store's lock writes neither.
Save(t, lands) ==
    /\ pc[t] \in {"save pass", "save"}
    /\ doc' = IF lands THEN snap[t] ELSE doc
    /\ To(t, IF pc[t] = "save pass" THEN "mark pass" ELSE "mark")
    /\ snap' = [snap EXCEPT ![t] = Empty]
    /\ Frame /\ UNCHANGED <<records, mark, todo, fly, carried, held, history_vars>>

Mark(t, lands) ==
    /\ pc[t] \in {"mark pass", "mark"}
    /\ mark' = IF lands THEN exclude ELSE mark
    /\ IF pc[t] = "mark pass" THEN To(t, "member") ELSE End(t)
    /\ Frame /\ UNCHANGED <<records, doc, work_vars, history_vars>>

----------------------------------------------------------------------------
(* AdoptLaunchRepo.  The launch repository is None outside a repository and *)
(* in an excluded one.                                                      *)

KnownMember(r) == records[r] # None /\ records[r].known /\ ~records[r].adopted

Member(t) ==
    /\ pc[t] = "member"
    /\ IF launch = None \/ launch \in exclude THEN End(t)
       ELSE IF KnownMember(launch) THEN End(t) ELSE To(t, "record")
    /\ Frame /\ UNCHANGED <<records, disk_vars, work_vars, history_vars>>

HasRecord(t) ==
    /\ pc[t] = "record"
    /\ To(t, IF records[launch] # None THEN "capability" ELSE "classify")
    /\ Frame /\ UNCHANGED <<records, disk_vars, work_vars, history_vars>>

ClassifyOne(t, hasRuns) ==
    /\ pc[t] = "classify"
    /\ PutProbed(launch, [Blank EXCEPT !.hasRuns = hasRuns])
    /\ To(t, "capability")
    /\ Frame /\ UNCHANGED <<disk_vars, work_vars, listed>>

\* adopt's request returned; what the record says of Runs is read here.
Capability(t) ==
    /\ pc[t] = "capability"
    /\ held' = [held EXCEPT ![t] = records[launch] # None /\ records[launch].hasRuns]
    /\ To(t, "admit")
    /\ Frame /\ UNCHANGED <<records, disk_vars, todo, fly, carried, snap, history_vars>>

Admit(t) ==
    /\ pc[t] = "admit"
    /\ Put(launch, [known |-> TRUE, adopted |-> TRUE, hasRuns |-> held[t], fails |-> 0])
    /\ To(t, "admitted") /\ held' = [held EXCEPT ![t] = FALSE]
    /\ Frame /\ UNCHANGED <<disk_vars, todo, fly, carried, snap, history_vars>>

\* A failed classification or capability request ends the adoption.
AdoptFails(t) ==
    /\ pc[t] \in {"classify", "capability"}
    /\ End(t)
    /\ Frame /\ UNCHANGED <<records, disk_vars, work_vars, history_vars>>

----------------------------------------------------------------------------
TaskNext(t) ==
    \/ \E ids \in SUBSET Repo : Enumerate(t, ids)
    \/ EnumerateFails(t) \/ Break(t) \/ Persist(t)
    \/ \E r \in Repo : Spawn(t, r) \/ FailsForGood(t, r) \/ FailsForNow(t, r)
    \/ \E r \in Repo, b \in BOOLEAN : Succeeds(t, r, b)
    \/ \E b \in BOOLEAN : Save(t, b) \/ Mark(t, b) \/ ClassifyOne(t, b)
    \/ Member(t) \/ HasRecord(t) \/ Capability(t) \/ Admit(t) \/ AdoptFails(t)

SessionNext ==
    \/ \E first \in Launches, ex \in Excludes : Start(first, ex)
    \/ Quit \/ Exit

Next ==
    \/ SessionNext
    \/ Primed \/ GiveUp \/ PressRefresh \/ Carry
    \/ \E ids \in SUBSET Repo : Due(ids)
    \/ \E t \in Task : TaskNext(t)

Spec == Init /\ [][Next]_vars

----------------------------------------------------------------------------
(* Properties.                                                             *)

Stages == {"idle", "gate", "carry", "enumerate", "fan", "save pass", "save",
           "mark pass", "mark", "member", "record", "classify", "capability",
           "admit", "admitted"}
Set == [Repo -> Record \cup {None}]

\* Every variable keeps its type.
TypeOK ==
    /\ life \in {"off", "on", "quit"} /\ session \in Nat /\ starts \in Nat
    /\ launch \in Repo \cup {None} /\ exclude \in SUBSET Repo
    /\ {seeded, running} \subseteq BOOLEAN
    /\ records \in Set /\ doc \in Set
    /\ mark \in SUBSET Repo
    /\ pc \in [Task -> Stages]
    /\ todo \in [Task -> SUBSET Repo]     \* not yet started
    /\ fly \in [Task -> SUBSET Repo]      \* probes on the wire
    /\ carried \in [Task -> Set]          \* a re-probe's snapshot
    /\ snap \in [Task -> Set] \* what persist is writing
    /\ held \in [Task -> BOOLEAN]         \* what adopt read of Runs
    /\ listed \in SUBSET Repo
    /\ failures \in [Repo -> 0..RetirementThreshold]

\* An excluded repository is in no record and receives no request, through a
\* reload of documents other exclude lists shaped, a pass, a re-probe and an
\* adoption alike (settings R7).
ExcludedGetNothing ==
    /\ exclude \cap Recorded = {}
    /\ \A t \in Task : exclude \cap fly[t] = {}
    /\ \A t \in Task : pc[t] \in {"classify", "capability"} => launch \notin exclude

\* The set holds what some enumeration returned and the repository this session
\* was launched in: a clone adopted in an earlier session does not come back
\* through the documents (repo-discovery R22).
OutsidersAreLaunched ==
    \A r \in Recorded : r \in listed \/ r = launch

\* The two together: nothing is in the set that should not be there.
SetIsRight == ExcludedGetNothing /\ OutsidersAreLaunched

\* A session drops a repository after RetirementThreshold definitive failures
\* with no successful probe among them, the count reloaded included, and for
\* nothing else, whichever tasks the answers belong to (repo-discovery R23).
RetiredByFailures ==
    [][\A r \in Repo : Up /\ records[r] # None /\ records'[r] = None
            => life' = "off" \/ failures'[r] >= RetirementThreshold]_vars
===============================================================================
