-------------------------------- MODULE Command --------------------------------
(***************************************************************************)
(* The write commands of the command line (internal/cli), one invocation   *)
(* after another: delete, cancel and rerun.  An invocation's flags are     *)
(* guarded, its scope resolved, the Runs in it crawled or named by their   *)
(* IDs, their Jobs resolved by name, the set planned, confirmed by a flag  *)
(* and walked, and what happened becomes an exit code.  SIGINT may come at *)
(* any moment, and so may a kill.                                          *)
(*   Only a deletion is recorded, and invocations share the deletion log.  *)
(* The walk is module Pass's, without its retries of a rate limit; a       *)
(* listing is one answer per repository; exit 4 is an exit 1 here.         *)
(***************************************************************************)
EXTENDS Plan, DeletionLog

CONSTANTS
  Here,             \* the repository -R, GH_REPO or the directory names
  Known,            \* the repositories of the snapshot; one excluded is not
  Matching,         \* the Runs the filter matches
  HasJob,           \* the Runs with a Job of the name that is asked for
  Breaker,          \* breakerFailures
  Invocations,      \* the command lines
  MaxInvocations    \* bound

ASSUME CommandAssumption ==
  /\ Here \in Repo /\ Known \subseteq Repo /\ Matching \cup HasJob \subseteq Run
  /\ Breaker \in Nat \ {0} /\ MaxInvocations \in Nat /\ Invocations # {}
  /\ \A v \in Invocations :
       /\ v.verb \in {"delete", "cancel", "rerun"} /\ v.select \in {"none", "filter", "all"}
       /\ v.ids \subseteq {r \in Run : RepoOf[r] = Here} /\ v.job \in {"no", "id", "name", "both"}
       /\ v.verb # "rerun" => v.job = "no"
       /\ v.verb = "delete" => v.ids = {}
       /\ {v.dry, v.yes, v.wide} \subseteq BOOLEAN

VARIABLES
  there,         \* the Runs that exist
  inv,           \* the current invocation, or the last
  pc,
  interrupted,   \* ctx.Err() # nil
  queue,         \* the repositories still to list
  named,         \* history: the Runs the command line came to select
  todo,          \* what is still to resolve, or to walk
  frozen,        \* the members whose Status was completed when they were listed
  unreached,     \* Resolution.Unreached
  fate,          \* Run -> what this invocation did with it
  streak,        \* the breaker's
  stop,          \* why the walk stopped early: Summary's three flags
  code,          \* the exit code, or that there is none yet
  count,
  hit,           \* history: the Runs this invocation's requests took effect on
  about,         \* the member whose request is out, or whose line is written
  unlogged,      \* history: Runs a deletion destroyed that no line is about,
  excuses        \* and the kills, failed lines and interrupted requests so far

pipeVars == <<inv, interrupted, queue, named, todo, frozen, unreached>>
walkVars == <<fate, streak, stop, hit, about, unlogged, excuses>>
commandVars == <<there, pipeVars, walkVars, logVars, pc, code, count>>

Running == -1
Fresh == [r \in Run |-> "none"]

CommandInit ==
  /\ there = Run
  /\ inv = (CHOOSE v \in Invocations : TRUE) /\ pc = "idle" /\ interrupted = FALSE
  /\ queue = {} /\ named = {} /\ todo = {} /\ frozen = {} /\ unreached = {}
  /\ fate = Fresh /\ streak = 0 /\ stop = "no" /\ code = Running /\ count = 0
  /\ hit = {} /\ about = {} /\ unlogged = {} /\ excuses = 0
  /\ LogInit

-----------------------------------------------------------------------------
\* The operation a command line asks for.
Op(v) == IF v.verb = "rerun" /\ v.job # "no" THEN "rerun-job" ELSE v.verb

Scope(v) == IF v.wide THEN Known ELSE {Here}

\* What is refused before any request: a delete without --yes, a set nobody
\* asked for by name, two grammars at once, and an ID with no one repository.
DeleteRefused(v) == v.select = "none" \/ (~v.dry /\ ~v.yes)
LifecycleRefused(v) ==
  \/ v.job = "both"
  \/ v.ids # {} /\ v.select # "none"
  \/ (v.ids # {} \/ v.job = "id") /\ Cardinality(Scope(v)) # 1
  \/ v.job = "id" /\ Cardinality(v.ids) # 1     \* -j's one id stands in ids
  \/ v.ids = {} /\ v.select = "none"
Refused(v) == IF v.verb = "delete" THEN DeleteRefused(v) ELSE LifecycleRefused(v)

Exit(c) == pc' = "idle" /\ code' = c

\* runDelete and runLifecycle up to the first request.  Reading the discovered
\* set for a fan-out may fail.
Invoke ==
  /\ pc = "idle" /\ count < MaxInvocations /\ count' = count + 1
  /\ inv' \in Invocations
  /\ interrupted' = FALSE /\ unreached' = {} /\ hit' = {} /\ frozen' = {}
  /\ fate' = Fresh /\ streak' = 0 /\ stop' = "no"
  /\ named' = inv'.ids /\ todo' = inv'.ids
  /\ queue' = IF inv'.ids = {} THEN Scope(inv') ELSE {}
  /\ \/ (Refused(inv') \/ inv'.wide) /\ Exit(1)
     \/ ~Refused(inv') /\ code' = Running
        /\ pc' = IF inv'.ids = {} THEN "crawl" ELSE IF inv'.job = "name" THEN "resolve" ELSE "plan"
  /\ about' = {} /\ UNCHANGED <<there, unlogged, excuses, logVars>>

\* interrupted maps an error under a done context to exit 2; runDelete returns
\* the crawl's error as it is.
OnError == IF inv.verb # "delete" /\ interrupted THEN 2 ELSE 1

Selects(r) == inv.select = "all" \/ r \in Matching
\* Crawl: repository by repository, and nothing comes of one that fails.
Crawl ==      \* a Run's Status is what it is when it is listed
  /\ pc = "crawl"
  /\ \/ queue = {} /\ pc' = (IF inv.job = "name" THEN "resolve" ELSE "plan")
          /\ todo' = named /\ UNCHANGED <<queue, named, frozen, code>>
     \/ queue # {} /\ Exit(OnError) /\ UNCHANGED <<queue, named, todo, frozen>>
     \/ \E repo \in queue :
          LET page == {r \in there : RepoOf[r] = repo /\ Selects(r)}
          IN  /\ ~interrupted /\ queue' = queue \ {repo}
              /\ named' = named \cup page /\ \E done \in SUBSET page : frozen' = frozen \cup done
              /\ UNCHANGED <<todo, pc, code>>
  /\ UNCHANGED <<there, inv, interrupted, unreached, walkVars, logVars, count>>

\* ResolveJobsByName: a Run whose Jobs cannot be listed ends it, and it and
\* the rest are unreached, which is not the same as a Run that has no such Job.
Resolve ==
  /\ pc = "resolve"
  /\ \/ todo = {} /\ pc' = "plan" /\ todo' = {r \in named : fate[r] = "job"}
          /\ UNCHANGED <<code, unreached, fate>>
     \/ todo # {} /\ interrupted /\ Exit(2) /\ UNCHANGED <<todo, unreached, fate>>
     \/ \E r \in todo :
          /\ ~interrupted /\ todo' = todo \ {r}
          /\ fate' = [fate EXCEPT ![r] = IF r \in HasJob THEN "job" ELSE "unmatched"]
          /\ UNCHANGED <<pc, code, unreached>>
     \/ todo # {} /\ ~interrupted
          /\ unreached' = todo /\ pc' = "plan" /\ todo' = {r \in named : fate[r] = "job"}
          /\ UNCHANGED <<code, fate>>
  /\ UNCHANGED <<there, inv, interrupted, queue, named, frozen, streak, stop, hit, about,
                 unlogged, excuses, logVars, count>>

-----------------------------------------------------------------------------
\* Plan's set: the Items and the Item-less members.  Runs named by their IDs
\* carry no Run object, so no Status and no orphan is held against them.
Members == todo \cup {r \in Run : fate[r] = "unmatched"}
SkipOf(r) ==
  IF inv.ids # {} /\ Capability[RepoOf[r]] = "writable" THEN "none"
  ELSE SkipFor(Op(inv), r, r \in frozen)

\* The snapshot may fail to be read, and a member outside it refuses the plan.
\* A dry run then ends here; the price is confirmed by --yes, or is nothing.
MayProceed == inv.yes \/ FrictionFor(Op(inv), Members) = "none"
DryCode == IF unreached = {} THEN 0 ELSE 1
Plan ==
  /\ pc = "plan"
  /\ \/ Exit(1) /\ UNCHANGED <<fate, stop, logVars>>      \* no snapshot
     \/ /\ \A r \in Members : RepoOf[r] \in Known
        /\ \/ inv.dry /\ Exit(DryCode) /\ UNCHANGED <<fate, stop, logVars>>
           \/ ~inv.dry /\ MayProceed /\ code' = code /\ pc' = "walk"
                /\ fate' = [r \in Run |-> IF r \in todo THEN "pending" ELSE fate[r]]
                /\ \/ inv.verb = "delete" /\ OpenLog /\ stop' = stop
                   \/ inv.verb = "delete" /\ LogUnavailable /\ stop' = "log"
                   \/ inv.verb # "delete" /\ UNCHANGED logVars /\ stop' = stop
  /\ UNCHANGED <<there, pipeVars, streak, hit, about, unlogged, excuses, count>>

\* executeSet, over the members in the order the listing gave.  A skip and an
\* answer are counted, and a deletion's recorded before the next request.
Concluded(d) ==
  /\ fate' = [r \in Run |-> IF r \in about' THEN d ELSE fate[r]]
  /\ streak' = CASE d = "failed" -> streak + 1 [] d = "skipped" -> streak [] OTHER -> 0
  /\ stop' = IF d = "failed" /\ streak + 1 >= Breaker THEN "breaker" ELSE stop
  /\ IF inv.verb = "delete" THEN pc' = "logging" /\ BeginLine ELSE pc' = "walk" /\ UNCHANGED logVars

Ignored == UNCHANGED <<there, hit, unlogged>>

NextMember ==
  /\ pc = "walk" /\ stop = "no" /\ todo # {}
  /\ \/ interrupted /\ stop' = "cancelled" /\ UNCHANGED <<pc, about, todo, fate, streak, logVars>>
     \/ ~interrupted /\ \E r \in todo :
          /\ about' = {r} /\ todo' = todo \ {r}
          /\ \/ SkipOf(r) # "none" /\ Concluded("skipped")
             \/ SkipOf(r) = "none" /\ pc' = "wire" /\ UNCHANGED <<fate, streak, stop, logVars>>
  /\ Ignored /\ UNCHANGED <<inv, interrupted, queue, named, frozen, unreached, excuses, code, count>>

\* The request takes effect or not, and is answered: by a success, by what is
\* not there, by a conflict, which skips, or by a failure, which a lost answer
\* is too, unless an interrupt lost it.
Present == about \subseteq there
Takes ==
  /\ hit' = hit \cup about
  /\ there' = IF inv.verb = "delete" THEN there \ about ELSE there
  /\ unlogged' = IF inv.verb = "delete" THEN unlogged \cup about ELSE unlogged
Missing == CASE inv.verb = "delete" -> "gone" [] inv.verb = "cancel" -> "skipped" [] OTHER -> "failed"
Answer ==
  /\ pc = "wire" /\ UNCHANGED about
  /\ \/ Present /\ Takes /\ Concluded("done") /\ UNCHANGED excuses
     \/ Present /\ Ignored /\ inv.verb # "rerun" /\ Concluded("skipped") /\ UNCHANGED excuses
     \/ ~Present /\ Ignored /\ Concluded(Missing) /\ UNCHANGED excuses
     \/ ((Present /\ Takes) \/ Ignored) /\ Concluded("failed") /\ UNCHANGED excuses
     \/ ((Present /\ Takes) \/ Ignored) /\ interrupted
          /\ stop' = "cancelled" /\ pc' = "walk" /\ excuses' = excuses + 1
          /\ UNCHANGED <<fate, streak, logVars>>
  /\ UNCHANGED <<pipeVars, code, count>>

ExitFromSummary ==
  IF stop = "cancelled" THEN 2
  ELSE IF stop # "no" \/ \E r \in Run : fate[r] = "failed" THEN 1
  ELSE 0

\* Mutant: a resolution that stopped early is not counted against the exit.
SummaryAlone == ExitFromSummary
\* The summary's own outcome comes before the resolution's.
ExitCode == IF ExitFromSummary = 0 /\ unreached # {} THEN 1 ELSE ExitFromSummary

Finish ==
  /\ pc = "walk" /\ (stop # "no" \/ todo = {})
  /\ Exit(ExitCode)
  /\ IF inv.verb = "delete" THEN CloseLog ELSE UNCHANGED logVars
  /\ UNCHANGED <<there, pipeVars, walkVars, count>>

\* The line of the attempt, with the rotation it may need.
LogLine ==
  /\ pc = "logging" /\ UNCHANGED <<there, pipeVars, fate, streak, hit, about, code, count>>
  /\ \/ Rotate /\ UNCHANGED <<pc, stop, unlogged, excuses>>
     \/ AppendLine /\ pc' = "walk" /\ unlogged' = unlogged \ about /\ UNCHANGED <<stop, excuses>>
     \/ LineFails /\ pc' = "walk" /\ stop' = "log" /\ excuses' = excuses + 1 /\ UNCHANGED unlogged

-----------------------------------------------------------------------------
Interrupt ==
  /\ pc # "idle" /\ ~interrupted /\ interrupted' = TRUE
  /\ UNCHANGED <<there, inv, queue, named, todo, frozen, unreached, walkVars, logVars, pc, code, count>>
Kill ==
  /\ pc # "idle" /\ pc' = "idle" /\ LogKilled /\ excuses' = excuses + 1
  /\ UNCHANGED <<there, pipeVars, fate, streak, stop, hit, about, unlogged, code, count>>
CommandNext == \/ Invoke \/ Crawl \/ Resolve \/ Plan \/ NextMember \/ Answer \/ LogLine \/ Finish
        \/ Interrupt \/ Kill

CommandSpec == CommandInit /\ [][CommandNext]_commandVars

-----------------------------------------------------------------------------
CommandTypeOK ==
  /\ there \subseteq Run
  /\ inv \in Invocations /\ pc \in {"idle", "crawl", "resolve", "plan", "walk", "wire", "logging"}
  /\ queue \subseteq Repo /\ named \cup todo \cup frozen \cup unreached \cup about \subseteq Run
  /\ fate \in [Run -> {"none", "job", "pending", "done", "gone", "skipped", "unmatched", "failed"}]
  /\ streak \in 0..Breaker /\ stop \in {"no", "cancelled", "log", "breaker"}
  /\ code \in {Running, 0, 1, 2} /\ interrupted \in BOOLEAN
  /\ hit \cup unlogged \subseteq Run /\ excuses \in Nat
  /\ LogTypeOK

\* What the command line asks for, by its words.
Asked(v) ==
  IF v.ids # {} THEN v.ids
  ELSE {r \in Run : RepoOf[r] \in Scope(v) /\ (v.select = "all" \/ (v.select = "filter" /\ r \in Matching))}

\* An exit code tells all (cli-surface R16, R17): 0 is said only when each Run
\* the command line selected has its answer, done, gone, skipped for a reason
\* or without the Job, and not of one whose Jobs were never asked for; 2 only
\* of an interrupt that left a repository unlisted or a Run untouched.
ExitTellsAll ==
  pc = "idle" /\ code # Running =>
    /\ code = 0 => /\ unreached = {}
                   /\ ~inv.dry => \A r \in named :
                        fate[r] \in {"done", "gone", "skipped", "unmatched"}
                   /\ inv.verb = "delete" => \A r \in named : fate[r] = "done" => r \notin there
    /\ code = 2 => /\ interrupted
                   /\ queue # {} \/ \E r \in named : fate[r] \in {"none", "job", "pending"}

\* A request reaches a Run only if the command line asked for that Run, not as
\* a dry run, and confirmed the set or asked for one re-run; and where the
\* account may write; and a deletion, only a Run that was completed (R10, R11,
\* R26, R28c).
OnlyWhatWasAsked ==
  /\ hit \subseteq Asked(inv)
  /\ hit # {} => ~inv.dry /\ (inv.yes \/ (inv.verb = "rerun" /\ Cardinality(hit) = 1))
  /\ \A r \in hit : Capability[RepoOf[r]] = "writable" /\ RepoOf[r] \in Known
  /\ inv.verb = "delete" => hit \subseteq frozen

\* The two together: an invocation does what its words say, and says what it did.
WordIsKept == ExitTellsAll /\ OnlyWhatWasAsked

\* Over any number of invocations a destroyed Run is on record, but for one at
\* each kill, failed line and interrupted request (purge R29); and the record
\* on disk is the end of it, but for what a refused shift has left in the way.
RecordIsKept ==
  /\ Cardinality(unlogged \ (IF pc = "logging" THEN about ELSE {})) <= excuses
  /\ RecordIsATail
=============================================================================
