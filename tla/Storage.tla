-------------------------------- MODULE Storage --------------------------------
(***************************************************************************)
(* The storage tab (internal/tui/storage): what each repository's Caches   *)
(* and Artifacts take, the reclamation of a selection of them, and the     *)
(* download of an Artifact.  The three requests of a fetch are answered at *)
(* three moments, over listings that go on naming what was deleted.        *)
(*   An object is known by its size in bytes, so that a sum says which     *)
(* objects a figure counts; the list is in falling order of them.          *)
(***************************************************************************)
EXTENDS Integers, Sequences, FiniteSets, FiniteSetsExt, SequencesExt

CONSTANTS
  Cache, Artifact,   \* the objects there ever are
  Tombstone,         \* the Artifacts that have expired
  Home,              \* object -> its repository
  Here,              \* this-repo scope: {its repository}; all-repos: {}
  MaxFetches,        \* bound: fetches out at once
  MaxCopies          \* bound: downloads of one Artifact at once

ASSUME StorageAssumption ==
  /\ Cache \subseteq Nat \ {0} /\ Artifact \subseteq Nat \ {0} /\ Cache \cap Artifact = {}
  /\ IsFiniteSet(Cache \cup Artifact)
  /\ Tombstone \subseteq Artifact /\ DOMAIN Home = Cache \cup Artifact
  /\ Here \subseteq {Home[o] : o \in Cache \cup Artifact}
  /\ MaxFetches \in Nat /\ MaxCopies \in Nat

VARIABLES
  index,     \* the objects the API's listings name
  offers,    \* what discovery says of each repository
  tab,       \* Model
  fetches,   \* the fetches out: their repository, stage and answers so far
  work,      \* the running Reclamation: its frozen set and what it destroyed
  file,      \* Artifact -> what is at its archive's path
  copies     \* Artifact -> its writers, to that path and to an unlinked file

storageVars == <<index, offers, tab, fetches, work, file, copies>>

Object == Cache \cup Artifact
Place == {Home[o] : o \in Object}
In(r) == {o \in Object : Home[o] = r}
Idle == [aim |-> {}, done |-> {}]
Classification == {"unknown", "ours", "readonly"}

Known(r) == offers[r] # "unknown"

\* The tab once its first fetch has landed, of the repositories known by then.
StorageInit ==
  /\ index = Object /\ offers \in [Place -> {"unknown", "ours"}]
  /\ tab = [cap |-> offers, held |-> [r \in Place |-> IF Known(r) THEN In(r) ELSE {}],
            counted |-> [r \in Place |-> IF Known(r) THEN In(r) \cap Cache ELSE {}],
            cursor |-> 0, selected |-> {}, only |-> FALSE, reclaimed |-> {}, confirm |-> {}]
  /\ fetches = <<>> /\ work = Idle
  /\ file = [a \in Artifact |-> "absent"]
  /\ copies = [a \in Artifact |-> [on |-> 0, off |-> 0]]

\* A figure and a list are each of one repository.
Fetch ==
  {f \in [repo : Place, at : {"usage", "caches", "artifacts", "answered"},
           counted : SUBSET Cache, held : SUBSET Object] :
     f.counted \cup f.held \subseteq In(f.repo)}

StorageTypeOK ==
  /\ index \subseteq Object /\ offers \in [Place -> Classification]
  /\ tab \in [cap : [Place -> Classification], held : [Place -> SUBSET Object],
              counted : [Place -> SUBSET Cache], cursor : 0..Cardinality(Object),
              selected : SUBSET Object, only : BOOLEAN, reclaimed : SUBSET Object,
              confirm : SUBSET Object]
  /\ \A r \in Place : tab.held[r] \cup tab.counted[r] \subseteq In(r)
  /\ fetches \in Seq(Fetch) /\ Len(fetches) <= MaxFetches
  /\ work \in [aim : SUBSET Object, done : SUBSET Object] /\ work.done \subseteq work.aim
  /\ file \in [Artifact -> {"absent", "part", "whole"}]
  /\ copies \in [Artifact -> [on : 0..MaxCopies, off : 0..MaxCopies]]

-----------------------------------------------------------------------------
\* What the frame shows of a repository: the held lists without what this
\* session reclaimed, and the usage figure less what is reclaimed of the list.
Visible(t, r) == t.held[r] \ t.reclaimed
AllEverReclaimed(t, r) == (t.reclaimed \cap In(r)) \cap Cache   \* mutant: whatever the list says
Deducted(t, r) == (t.held[r] \cap t.reclaimed) \cap Cache
Unclipped(n) == n   \* mutant
Clip(n) == IF n < 0 THEN 0 ELSE n
Figure(t, r) == Clip(SumSet(t.counted[r]) - SumSet(Deducted(t, r)))

\* displayRows, in falling order of size, the cursor kept within them, and the
\* row it is on: that with as many larger ones above it.
Rows(t) == (UNION {Visible(t, r) : r \in Place}) \ (IF t.only THEN Cache ELSE {})
Clamp(t) ==
  LET n == Cardinality(Rows(t))
  IN  [t EXCEPT !.cursor = Clip(IF @ >= n THEN n - 1 ELSE @)]
OnRow(t) == {o \in Rows(t) : Cardinality({p \in Rows(t) : p > o}) = t.cursor}

\* startFetch: the capability data as it now is, and one fetch per repository.
ScopeRepos(cap) == IF Here # {} THEN Here ELSE {r \in Place : cap[r] # "unknown"}
StartFetch ==
  LET asks == {[repo |-> r, at |-> "usage", counted |-> {}, held |-> {}] : r \in ScopeRepos(offers)}
  IN  /\ Len(fetches) + Cardinality(asks) <= MaxFetches
      /\ tab' = [tab EXCEPT !.cap = offers]
      /\ fetches' = fetches \o SetToSeq(asks)

\* ClientFetch: three requests, each seeing the listings of its own moment,
\* and the first that fails is what the repository shows.
FetchStep(i) ==
  LET f == fetches[i]
      seen == index \cap In(f.repo)
  IN  /\ fetches' = [fetches EXCEPT ![i] =
           CASE f.at = "usage" -> [f EXCEPT !.at = "caches", !.counted = seen \cap Cache]
             [] f.at = "caches" -> [f EXCEPT !.at = "artifacts", !.held = seen \cap Cache]
             [] f.at = "artifacts" -> [f EXCEPT !.at = "answered", !.held = @ \cup (seen \cap Artifact)]]
      /\ UNCHANGED tab
FetchFails(i) == fetches' = [fetches EXCEPT ![i].at = "answered"] /\ UNCHANGED tab

\* applyFetched: the repository's storage is replaced whole.
FetchLands(i) ==
  LET f == fetches[i]
  IN  /\ f.at = "answered" /\ fetches' = RemoveAt(fetches, i)
      /\ tab' = Clamp([tab EXCEPT !.held[f.repo] = f.held, !.counted[f.repo] = f.counted])
FetchMoves ==
  /\ \E i \in DOMAIN fetches : \/ fetches[i].at # "answered" /\ (FetchStep(i) \/ FetchFails(i))
                               \/ FetchLands(i)
  /\ UNCHANGED <<index, offers, work, file, copies>>

-----------------------------------------------------------------------------
\* frozenSelection: the selected rows on screen, else the row at the cursor.
Frozen(t) == IF t.selected = {} THEN OnRow(t) ELSE Rows(t) \cap t.selected

\* openConfirm fails closed: on a repository not known yet, and where no row
\* of the set may be written to.
OpenConfirm ==
  LET known == \A o \in Frozen(tab) : tab.cap[Home[o]] # "unknown"
      eligible == {o \in Frozen(tab) : tab.cap[Home[o]] = "ours"}
  IN  /\ known /\ eligible # {}
      /\ tab' = [tab EXCEPT !.confirm = eligible]

\* The modal has every key: it is aborted, or confirmed and launched, which a
\* running operation refuses.
ReclaimKey ==
  /\ tab' = [tab EXCEPT !.confirm = {}]
  /\ work' \in {work} \cup (IF work.aim = {} THEN {[Idle EXCEPT !.aim = tab.confirm]} ELSE {})
  /\ UNCHANGED <<index, offers, fetches, file, copies>>

ToggleSelect == OnRow(tab) # {} /\ tab' = [tab EXCEPT !.selected = SymDiff(@, OnRow(tab))]
ArtifactsOnly == tab' = [tab EXCEPT !.only = ~@, !.cursor = 0]
MoveCursor ==
  \E d \in {-1, 1} : tab' = Clamp([tab EXCEPT !.cursor = Clip(@ + d)]) /\ tab' # tab

\* startDownload, of an Artifact that has not expired; and os.Create, which
\* truncates what is there.
Download ==
  \E a \in OnRow(tab) \cap (Artifact \ Tombstone) :
    /\ copies[a].on + copies[a].off < MaxCopies
    /\ copies' = [copies EXCEPT ![a].on = @ + 1]
    /\ file' = [file EXCEPT ![a] = "part"]

StorageKey ==
  IF tab.confirm # {} THEN ReclaimKey
  ELSE \/ (OpenConfirm \/ ToggleSelect \/ ArtifactsOnly \/ MoveCursor)
            /\ UNCHANGED <<index, offers, fetches, work, file, copies>>
       \/ StartFetch /\ UNCHANGED <<index, offers, work, file, copies>>
       \/ Download /\ UNCHANGED <<index, offers, tab, fetches, work>>

\* writeArchive: a copy that ends well leaves its file whole, unless another
\* writer is at it, and one that fails removes whatever is at the path.
CopyEnds(a) ==
  \/ copies[a].on > 0 /\ copies' = [copies EXCEPT ![a].on = @ - 1]
       /\ file' = [file EXCEPT ![a] = IF copies[a].on = 1 THEN "whole" ELSE @]
  \/ copies[a].off > 0 /\ copies' = [copies EXCEPT ![a].off = @ - 1] /\ UNCHANGED file
RemovePartial(a, c) ==
  /\ file' = [file EXCEPT ![a] = "absent"]
  /\ copies' = [copies EXCEPT ![a] = [on |-> 0, off |-> c.on + c.off]]
CopyFails(a) ==
  \/ copies[a].on > 0 /\ RemovePartial(a, [copies[a] EXCEPT !.on = @ - 1])
  \/ copies[a].off > 0 /\ RemovePartial(a, [copies[a] EXCEPT !.off = @ - 1])
DownloadMoves ==
  /\ \E a \in Artifact : CopyEnds(a) \/ CopyFails(a)
  /\ UNCHANGED <<index, offers, tab, fetches, work>>

\* applyProgress: only the terminal frame, whose tally is final.
Destroy(o) == o \in work.aim \ work.done /\ work' = [work EXCEPT !.done = @ \cup {o}] /\ UNCHANGED tab
Reclaim(t, gone) == Clamp([t EXCEPT !.reclaimed = @ \cup gone, !.selected = @ \ gone])
DoneLands == work.aim # {} /\ work' = Idle /\ tab' = Reclaim(tab, work.done)
WorkMoves ==
  /\ (\E o \in Object : Destroy(o)) \/ DoneLands
  /\ UNCHANGED <<index, offers, fetches, file, copies>>

StorageLand == FetchMoves \/ DownloadMoves \/ WorkMoves

\* A listing drops an object, deleted by the tool or by anybody, whenever it
\* does; discovery classifies a repository again.
StorageWorld ==
  \/ /\ \E o \in index : index' = index \ {o}
     /\ UNCHANGED <<offers, tab, fetches, work, file, copies>>
  \/ /\ offers' \in [Place -> Classification] /\ offers' # offers
     /\ UNCHANGED <<index, tab, fetches, work, file, copies>>

-----------------------------------------------------------------------------
\* A figure taken at the moment its list was is the sum of what is shown, what
\* was reclaimed taken off once, whether the listings have caught up or not.
FiguresMatchRows ==
  \A r \in Place : tab.counted[r] = tab.held[r] \cap Cache =>
    Figure(tab, r) = SumSet(Visible(tab, r) \cap Cache)

\* A key acts on a row that is there: the cursor is on one whenever there is
\* one, whatever left the list, and nothing destroyed is still selected.
KeysActOnRows ==
  /\ Rows(tab) # {} => OnRow(tab) # {}
  /\ tab.selected \cap tab.reclaimed = {}

\* Once no download of an Artifact is under way, its archive is whole or is
\* not there (storage R13), however many were started and failed.
NoHalfArchive == \A a \in Artifact : copies[a] = [on |-> 0, off |-> 0] => file[a] # "part"

\* The three together: what the tab shows and leaves on disk is so.
StorageIsTrue == FiguresMatchRows /\ KeysActOnRows /\ NoHalfArchive
=============================================================================
