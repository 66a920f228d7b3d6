--------------------------------- MODULE Panes ---------------------------------
(***************************************************************************)
(* The panes the Feed opens over its list (internal/tui/feed): the detail  *)
(* pane with the log view in it, and the decision pane.  The Feed routes   *)
(* each key to the innermost surface that captures it, hands every answer  *)
(* to both panes, and reports where its cursor is to the open detail pane. *)
(* The list is its row under the cursor; module Feed is about the rest.    *)
(*   A behaviour is a visit to one of them, or to an open log: what an      *)
(* operator does there, with the answers and the world it meets.  Keys and *)
(* the world may stop at any moment; an answer that is out, and a timer    *)
(* that is set, always comes.                                              *)
(***************************************************************************)
EXTENDS Detail, LogView, Approval

CONSTANTS
  MaxPressed,    \* bounds: keys pressed in a visit to each pane,
  MaxHappened    \* and what happens outside it

Scene == {"detail", "log", "approval"}
ASSUME PanesAssumption == MaxPressed \in [Scene -> Nat] /\ MaxHappened \in [Scene -> Nat]

VARIABLES
  under,         \* the Run under the cursor, 0 for an empty list
  detailOpen,    \* the Feed's flags, which the panes' own follow
  approvalOpen,
  visited, pressed, happened

paneState == <<detailVars, logVars, approvalVars, under, detailOpen, approvalOpen>>
Job == Run \X (1..MaxJobs)

AtRestInit ==
  /\ DetailInit /\ LogInit(Job) /\ ApprovalInit
  /\ under \in {0} \cup Run /\ detailOpen = FALSE /\ approvalOpen = FALSE

\* Or later: a completed Run's Jobs are loaded, and a key opened a log.
AtLogInit ==
  \E r \in Run :
    /\ going = {} /\ exhausted = FALSE /\ under = r /\ detailOpen = TRUE
    /\ pane = [ClosedPane EXCEPT !.open = TRUE, !.run = r, !.state = "loaded", !.jobs = 1,
                                  !.of = r, !.active = TRUE]
    /\ flight = [k \in Trip |-> [x \in Run |-> 0]]
    /\ log = [ClosedLog EXCEPT !.open = TRUE, !.job = <<r, 1>>]
    /\ logOut = [j \in Job |-> IF j = <<r, 1>> THEN 1 ELSE 0]
    /\ ApprovalInit /\ approvalOpen = FALSE

\* What a visit does not go to is as one value of it.
PanesInit ==
  /\ visited \in Scene /\ pressed = 0 /\ happened = 0
  /\ IF visited = "log" THEN AtLogInit ELSE AtRestInit
  /\ visited = "approval" => going = {}
  /\ visited # "approval" => \A r \in Asker : waits[r] = "fork"

PanesTypeOK ==
  /\ DetailTypeOK /\ LogTypeOK(Job) /\ ApprovalTypeOK
  /\ under \in {0} \cup Run
  /\ detailOpen => pane.open
  /\ approvalOpen = ask.open

-----------------------------------------------------------------------------
\* retargetDetail, with the row and the live Runs as they are from now on.  A
\* pane told of another Run leaves its log; an empty list hides the pane.
LogLeft(u) == IF Fresh(pane, u) THEN [log EXCEPT !.open = FALSE] ELSE log
Retarget(u, g) ==
  CASE detailOpen /\ u = 0 -> detailOpen' = FALSE /\ UNCHANGED <<pane, flight, log>>
    [] detailOpen /\ u # 0 -> /\ SelectRun(u, g) /\ UNCHANGED detailOpen
                              /\ log' = LogLeft(u)
    [] OTHER -> UNCHANGED <<pane, flight, log, detailOpen>>

\* An Update, a Save, a prune or an accepted filter repaints the list, and
\* with it what is under the cursor and which Runs are live.
Repaint ==
  /\ under' \in {0} \cup Run /\ going' \in SUBSET Run
  /\ <<under, going>>' # <<under, going>>
  /\ Retarget(under', going')
  /\ UNCHANGED <<exhausted, logOut, approvalVars, approvalOpen>>

\* The list's motion keys, and its other keys that end with the same report.
MoveRow ==
  /\ under # 0 /\ under' \in Run \ {under}
  /\ Retarget(under', going)
  /\ UNCHANGED <<going, exhausted, logOut>>

\* toggleApprovalsFilter and entering the filter input apply the view and
\* report nothing to the pane.
Narrow ==
  /\ under' \in {0} \cup Run /\ under' # under
  /\ UNCHANGED <<detailVars, logVars, detailOpen>>

OpenDetail ==
  \/ /\ detailOpen /\ FocusPane
     /\ UNCHANGED <<under, detailOpen, going, exhausted, flight, logVars>>
  \/ /\ ~detailOpen /\ under # 0
     /\ detailOpen' = TRUE /\ OpenPane(under) /\ log' = [log EXCEPT !.open = FALSE]
     /\ UNCHANGED <<under, going, exhausted, logOut>>

CloseDetail ==
  /\ detailOpen' = FALSE /\ ClosePane /\ log' = [log EXCEPT !.open = FALSE]
  /\ UNCHANGED <<under, going, exhausted, flight, logOut>>

\* rundetail.HandleKey: an open log has the key, else job-focus.
JobFocusKey ==
  \/ (LeaveJobs \/ MoveJob) /\ UNCHANGED logVars
  \/ pane.jobs > 0 /\ OpenLog(<<pane.run, pane.row + 1>>) /\ UNCHANGED pane
DetailKey ==
  /\ IF log.open THEN LogKey /\ UNCHANGED pane ELSE JobFocusKey
  /\ UNCHANGED <<under, detailOpen, going, exhausted, flight>>

Captures == pane.open /\ (pane.active \/ log.open)

DetailSideKey ==
  /\ IF detailOpen /\ Captures THEN DetailKey ELSE MoveRow \/ Narrow \/ OpenDetail \/ CloseDetail
  /\ UNCHANGED <<approvalVars, approvalOpen>>

\* An open decision takes every key; else the list has it.
ApprovalSideKey ==
  /\ IF approvalOpen THEN ApprovalKey /\ approvalOpen' = ask'.open /\ UNCHANGED under
     ELSE \/ under' \in Run \ {under} /\ under # 0 /\ UNCHANGED <<approvalVars, approvalOpen>>
          \/ under \in Asker /\ OpenApproval(under) /\ approvalOpen' = TRUE /\ UNCHANGED under
  /\ UNCHANGED <<detailVars, logVars, detailOpen>>

\* What comes from outside the keys, and may stop coming.
DetailSideWorld ==
  \/ Repaint
  \/ Readout /\ UNCHANGED <<logVars, approvalVars, under, detailOpen, approvalOpen>>
ApprovalSideWorld ==
  \E r \in Asker : Moves(r) /\ UNCHANGED <<detailVars, logVars, under, detailOpen, approvalOpen>>

\* Answers and timers, which always come.
Landing ==
  \/ Arrival /\ UNCHANGED <<logVars, approvalVars, under, detailOpen, approvalOpen>>
  \/ (\E j \in Job : Fetched(j))
       /\ UNCHANGED <<detailVars, approvalVars, under, detailOpen, approvalOpen>>
  \/ AnswerLands /\ UNCHANGED <<detailVars, logVars, under, detailOpen, approvalOpen>>

panesVars == <<paneState, visited, pressed, happened>>
PanesKey ==
  /\ pressed < MaxPressed[visited] /\ pressed' = pressed + 1
  /\ (visited \in {"detail", "log"} /\ DetailSideKey) \/ (visited = "approval" /\ ApprovalSideKey)
  /\ UNCHANGED <<visited, happened>>
PanesWorld ==
  /\ happened < MaxHappened[visited] /\ happened' = happened + 1
  /\ (visited \in {"detail", "log"} /\ DetailSideWorld) \/ (visited = "approval" /\ ApprovalSideWorld)
  /\ UNCHANGED <<visited, pressed>>
PanesLand == Landing /\ UNCHANGED <<visited, pressed, happened>>

PanesNext == PanesKey \/ PanesWorld \/ PanesLand

\* Every request is answered or fails, and every timer fires: the runtime runs
\* each command on a goroutine of its own, and the client's transport gives up.
PanesSpec == PanesInit /\ [][PanesNext]_panesVars /\ WF_panesVars(PanesLand)

-----------------------------------------------------------------------------
\* The answers of a Run come whenever they come: the Jobs in the pane, and the
\* log within it, are of the Run the pane is over, whose liveness it knows by
\* the rows, and the lines of that log are of its Job (run-detail R11, R12, R17,
\* log-viewer R1).
PanesShowTheirRun ==
  /\ pane.of \in {0, pane.run} /\ (pane.state = "loaded" <=> pane.of # 0)
  /\ detailOpen => pane.run # 0 /\ (pane.live <=> pane.run \in going)
  /\ pane.open /\ log.open => log.job[1] = pane.run
  /\ log.open /\ log.state = "loaded" => log.of = log.job

\* Together with LogIsWhole: what is on screen is of the Run it is for, and a log
\* is there to its last line.
PanesShowRightly == PanesShowTheirRun /\ LogIsWhole

InFlight == \E k \in Trip, r \in Run : flight[k][r] > 0

\* The fast tier stops with what it is for: once no Run is live, and a pane
\* that is open is one on screen, no timer and no fetch is left in the end
\* (run-detail R13, R14).
LoopsEnd == <>[](going = {} /\ (pane.open => detailOpen)) => <>[]~InFlight

\* While the Budget is never exhausted, the Run the pane rests on is fetched
\* (R10), and a submitted decision is answered for (approvals R13, R14).
JobsArrive ==
  [](~exhausted) =>
    \A r \in Run : (detailOpen /\ pane.run = r /\ pane.state = "pending")
                     ~> (~detailOpen \/ pane.run # r \/ pane.state # "pending")
SubmitSettles == (ask.open /\ ask.submitting) ~> ~(ask.open /\ ask.submitting)

\* The three together: whatever the panes set going comes to an end.
PanesSettle == LoopsEnd /\ JobsArrive /\ SubmitSettles
=================================================================================
