--------------------------------- MODULE Detail ---------------------------------
(***************************************************************************)
(* The run-detail pane (internal/tui/rundetail): the Jobs of the Run under *)
(* the Feed's cursor, fetched once the cursor rests on it, refreshed while *)
(* the Run is live, paused while the Budget is exhausted.  Timers and      *)
(* answers carry the Run they are for and arrive in any order, for as long *)
(* as they take.  The Feed's side of the pane is module Panes.             *)
(***************************************************************************)
EXTENDS Naturals

CONSTANTS Run, MaxJobs   \* the Runs, and how many Jobs one may have

\* No Run has the number a pane holds while it is over none, and a Run has Jobs.
ASSUME DetailAssumption == 0 \notin Run /\ MaxJobs \in Nat \ {0}

VARIABLES
  going,      \* the Runs the Feed's rows show queued or in_progress
  pane,       \* the pane's Model; run is 0 while it holds none (haveRun)
  exhausted,  \* readout.Exhausted as last broadcast
  flight      \* settle and refresh timers and fetches on their way, by Run

detailVars == <<going, pane, exhausted, flight>>

Trip == {"settle", "refresh", "fetch"}
ClosedPane == [open |-> FALSE, run |-> 0, live |-> FALSE, state |-> "pending",
               jobs |-> 0, of |-> 0, fetching |-> FALSE, active |-> FALSE, row |-> 0]

DetailInit ==
  /\ going \in SUBSET Run
  /\ pane = ClosedPane /\ exhausted = FALSE
  /\ flight = [k \in Trip |-> [r \in Run |-> 0]]

DetailTypeOK ==
  /\ going \subseteq Run /\ exhausted \in BOOLEAN
  /\ pane \in [open : BOOLEAN, run : {0} \cup Run, live : BOOLEAN,
               state : {"pending", "loaded", "none"}, jobs : 0..MaxJobs, of : {0} \cup Run,
               fetching : BOOLEAN, active : BOOLEAN, row : 0..MaxJobs]
  /\ flight \in [Trip -> [Run -> Nat]]
  /\ pane.row <= (IF pane.jobs = 0 THEN 0 ELSE pane.jobs - 1)

-----------------------------------------------------------------------------
\* target: a new Run starts from nothing and arms the debounce, the same Run
\* has its fields refreshed.  g is the set of live Runs by the new rows.
Fresh(p, r) == p.run # r
Target(p, r, g) ==
  IF Fresh(p, r)
  THEN [p EXCEPT !.run = r, !.live = r \in g, !.state = "pending", !.jobs = 0,
                 !.of = 0, !.row = 0, !.active = FALSE]
  ELSE [p EXCEPT !.live = r \in g]

Sent(f, k, r)  == [f EXCEPT ![k][r] = @ + 1]
Taken(f, k, r) == [f EXCEPT ![k][r] = @ - 1]

Armed(p, r) == IF Fresh(p, r) /\ p.open THEN Sent(flight, "settle", r) ELSE flight

OpenPane(r) ==
  LET p == [pane EXCEPT !.open = TRUE, !.run = 0] IN
  /\ pane' = Target(p, r, going)
  /\ flight' = Armed(p, r)

SelectRun(r, g) ==
  IF pane.open
  THEN pane' = Target(pane, r, g) /\ flight' = Armed(pane, r)
  ELSE UNCHANGED <<pane, flight>>

ClosePane == pane' = [pane EXCEPT !.open = FALSE, !.active = FALSE]
FocusPane == pane' = [pane EXCEPT !.active = pane.open \/ @]

\* The keys of job-focus that stay in the pane.
LeaveJobs == pane.active /\ pane' = [pane EXCEPT !.active = FALSE]
MoveJob ==
  /\ pane.active /\ pane.jobs > 0
  /\ \E k \in 0..pane.jobs - 1 : k # pane.row /\ pane' = [pane EXCEPT !.row = k]

-----------------------------------------------------------------------------
\* Mutant: an answer is taken for the selected Run, whichever Run it is of.
AnyRun(r) == pane.open /\ pane.run # 0
Holds(r) == pane.open /\ pane.run = r

IssueFetch(f, r) == /\ pane' = [pane EXCEPT !.fetching = TRUE]
                    /\ flight' = Sent(f, "fetch", r)

Settle(r) ==
  /\ flight["settle"][r] > 0
  /\ LET f == Taken(flight, "settle", r) IN
     IF Holds(r) /\ ~exhausted THEN IssueFetch(f, r)
     ELSE flight' = f /\ UNCHANGED pane
  /\ UNCHANGED <<going, exhausted>>

\* Mutant: the tick of a Run that has completed fetches it again.
WhateverStatus == TRUE
StillLive == pane.live
Refresh(r) ==
  /\ flight["refresh"][r] > 0
  /\ LET f == Taken(flight, "refresh", r) IN
     IF Holds(r) /\ StillLive /\ ~exhausted THEN IssueFetch(f, r)
     ELSE flight' = f /\ UNCHANGED pane
  /\ UNCHANGED <<going, exhausted>>

\* Mutant: the cursor stays where it is in a shorter list.
RowKept(row, n) == row
Clamped(row, n) == IF n = 0 THEN 0 ELSE IF row < n THEN row ELSE n - 1

\* ClientFetch answers with the Jobs, by their number here: none for an empty
\* list, a status other than 200, or an error.
JobCounts == 0..MaxJobs

\* onJobs.
Jobs(r) ==
  /\ flight["fetch"][r] > 0
  /\ \E n \in JobCounts :
       IF ~Holds(r)
       THEN /\ pane' = [pane EXCEPT !.fetching = FALSE]
            /\ flight' = Taken(flight, "fetch", r)
       ELSE /\ pane' = [pane EXCEPT !.fetching = FALSE, !.jobs = n,
                          !.of = IF n = 0 THEN 0 ELSE r,
                          !.state = IF n = 0 THEN "none" ELSE "loaded",
                          !.row = Clamped(@, n)]
            /\ flight' = IF StillLive /\ ~exhausted
                         THEN Sent(Taken(flight, "fetch", r), "refresh", r)
                         ELSE Taken(flight, "fetch", r)
  /\ UNCHANGED <<going, exhausted>>

NeedsFetch == pane.live \/ pane.state # "loaded"

\* onReadout: when exhaustion clears, what it held back is fetched, unless a
\* fetch is believed to be out.
Readout ==
  /\ exhausted' = ~exhausted
  /\ IF exhausted /\ pane.open /\ pane.run # 0 /\ ~pane.fetching /\ NeedsFetch
     THEN IssueFetch(flight, pane.run)
     ELSE UNCHANGED <<pane, flight>>
  /\ UNCHANGED going

Arrival == \E r \in Run : Settle(r) \/ Refresh(r) \/ Jobs(r)
=============================================================================
