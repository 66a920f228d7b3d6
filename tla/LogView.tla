-------------------------------- MODULE LogView --------------------------------
(***************************************************************************)
(* The log view (internal/tui/logview), opened over one Job: the fetched   *)
(* bytes parsed into lines and folds, the search over them, and the        *)
(* confirmation a log deletion asks for.  A line of a log is "hit" or      *)
(* "miss" as the one query of the model finds it or not, or a marker that  *)
(* opens or closes a group (no label has the query in it); timestamps,    *)
(* styles and wrapping are left out.  A confirmed deletion ends here: the  *)
(* view launches nothing yet.                                              *)
(***************************************************************************)
EXTENDS Naturals, SequencesExt

CONSTANTS Body,       \* the logs a fetch may answer with; <<>> is a failure
          Writable    \* the Runs whose repository lets logs be deleted

Marker == {"group", "endgroup"}
Line == {"hit", "miss"} \cup Marker
ASSUME LogAssumption == Body \subseteq Seq(Line)

VARIABLES
  log,       \* the view's Model; of is the Job its lines were fetched for
  logOut     \* fetches on their way, by Job

logVars == <<log, logOut>>

\* A block is a fold, or a line of its own.
NoFold == [fold |-> FALSE, body |-> <<>>, expanded |-> FALSE]
LineBlock(l) == [fold |-> FALSE, body |-> <<l>>, expanded |-> FALSE]

Flush(a) == IF a.open.fold THEN [blocks |-> Append(a.blocks, a.open), open |-> NoFold] ELSE a
\* A group that is still open when the next one starts is kept as it is.
ParseLine(a, l) ==
  CASE l = "group"    -> [Flush(a) EXCEPT !.open = [NoFold EXCEPT !.fold = TRUE]]
    [] l = "endgroup" -> Flush(a)
    [] l \notin Marker /\ a.open.fold  -> [a EXCEPT !.open.body = Append(@, l)]
    [] l \notin Marker /\ ~a.open.fold -> [a EXCEPT !.blocks = Append(@, LineBlock(l))]
ParseLog(raw) ==
  LET parse[n \in 0..Len(raw)] == IF n = 0 THEN [blocks |-> <<>>, open |-> NoFold]
                                  ELSE ParseLine(parse[n - 1], raw[n])
  IN Flush(parse[Len(raw)]).blocks

\* visibleLines: each is the block it heads, or 0, and the line it shows.
Header(i) == [heads |-> i, line |-> "group"]
Content(b) == [k \in DOMAIN b.body |-> [heads |-> 0, line |-> b.body[k]]]
Shown(i, b) ==
  IF ~b.fold THEN Content(b) ELSE <<Header(i)>> \o (IF b.expanded THEN Content(b) ELSE <<>>)
VisibleLines(blocks) == FlattenSeq([i \in DOMAIN blocks |-> Shown(i, blocks[i])])
Hits(lines) == FlattenSeq([k \in DOMAIN lines |-> IF lines[k].line = "hit" THEN <<k>> ELSE <<>>])

Expanded(blocks) == [i \in DOMAIN blocks |-> [blocks[i] EXCEPT !.expanded = blocks[i].fold]]

ClosedLog == [open |-> FALSE, job |-> <<0, 0>>, state |-> "loading", of |-> <<0, 0>>,
              raw |-> <<>>, blocks |-> <<>>, cursor |-> 1, searching |-> FALSE,
              typed |-> FALSE, query |-> FALSE, matches |-> <<>>, at |-> 1, asking |-> FALSE]

LogInit(Job) == log = ClosedLog /\ logOut = [j \in Job |-> 0]

LogTypeOK(Job) ==
  /\ logOut \in [Job -> Nat]
  /\ log.job \in Job \cup {<<0, 0>>} /\ log.state \in {"loading", "loaded", "empty"}
  /\ log.raw \in Body \cup {<<>>}
  /\ \A x \in {log.open, log.searching, log.typed, log.query, log.asking} : x \in BOOLEAN

-----------------------------------------------------------------------------
NoSearch(l) == [l EXCEPT !.searching = FALSE, !.typed = FALSE, !.query = FALSE,
                         !.matches = <<>>, !.at = 1]
LastOr1(n) == IF n = 0 THEN 1 ELSE n
ClampLine(l) == LET n == Len(VisibleLines(l.blocks)) IN
  [l EXCEPT !.cursor = IF @ > n THEN LastOr1(n) ELSE @]

OpenLog(j) == /\ log' = [ClosedLog EXCEPT !.open = TRUE, !.job = j]
              /\ logOut' = [logOut EXCEPT ![j] = @ + 1]
CloseLog == log' = [log EXCEPT !.open = FALSE]

\* ClientFetch answers with the bytes, or with none for any failure.
Bytes == Body \cup {<<>>}

\* onFetched: an answer for the Job held replaces what is shown, and lines end
\* the search; none leaves the search, and the cursor, where they were.
ForThisJob(j) == log.open /\ log.job = j
Fetched(j) ==
  /\ logOut[j] > 0
  /\ logOut' = [logOut EXCEPT ![j] = @ - 1]
  /\ \E raw \in Bytes :
       log' = IF ~ForThisJob(j) THEN log
              ELSE IF raw = <<>>
              THEN [log EXCEPT !.state = "empty", !.of = j, !.raw = <<>>, !.blocks = <<>>]
              ELSE NoSearch([log EXCEPT !.state = "loaded", !.of = j, !.raw = raw,
                               !.blocks = ParseLog(raw), !.cursor = 1])

Lines == VisibleLines(log.blocks)

MoveLine ==
  \E k \in 1..LastOr1(Len(Lines)) : k # log.cursor /\ log' = [log EXCEPT !.cursor = k]
ToggleFold ==
  /\ log.cursor \in DOMAIN Lines /\ Lines[log.cursor].heads # 0
  /\ log' = [log EXCEPT !.blocks[Lines[log.cursor].heads].expanded = ~@]
OpenSearch == log' = [log EXCEPT !.searching = TRUE, !.typed = log.query]
Refetch == logOut' = [logOut EXCEPT ![log.job] = @ + 1] /\ UNCHANGED log

\* moveMatch wraps around.
MoveMatch(forward) ==
  /\ log.matches # <<>>
  /\ LET n == Len(log.matches)
         k == IF forward THEN (log.at % n) + 1 ELSE ((log.at + n - 2) % n) + 1
     IN log' = ClampLine([log EXCEPT !.at = k, !.cursor = log.matches[k]])

\* openDelete: Plan refuses a repository that is unknown and sets a read-only
\* one aside, and neither opens the confirmation.
OpenDelete == log' = [log EXCEPT !.asking = log.job[1] \in Writable]

\* Mutant: the matches are collected before the folds are expanded.
CollectFirst(l) ==
  [l EXCEPT !.blocks = Expanded(@), !.matches = Hits(VisibleLines(l.blocks))]
\* applySearch: every fold is expanded before the matches are collected.
Collect(l) == LET all == Expanded(l.blocks) IN
  [l EXCEPT !.blocks = all, !.matches = Hits(VisibleLines(all))]
ApplySearch(l) ==
  IF ~l.typed THEN NoSearch(l)
  ELSE LET m == Collect([l EXCEPT !.searching = FALSE, !.query = TRUE, !.at = 1]) IN
       IF m.matches = <<>> THEN m ELSE ClampLine([m EXCEPT !.cursor = m.matches[1]])

SearchKey ==
  /\ log.searching
  /\ log' \in {ApplySearch(log), [log EXCEPT !.searching = FALSE, !.typed = FALSE],
               [log EXCEPT !.typed = ~@]}
  /\ UNCHANGED logOut
ConfirmKey ==     \* an abort, or a confirmation that leaves only its status line
  /\ log.asking /\ log' = [log EXCEPT !.asking = FALSE] /\ UNCHANGED logOut
PlainKey ==
  /\ ~log.asking /\ ~log.searching
  /\ \/ UNCHANGED logOut /\ \/ CloseLog \/ MoveLine \/ ToggleFold \/ OpenSearch
                            \/ MoveMatch(TRUE) \/ MoveMatch(FALSE) \/ OpenDelete
     \/ Refetch
LogKey == log.open /\ (ConfirmKey \/ (~log.asking /\ SearchKey) \/ PlainKey)

-----------------------------------------------------------------------------
\* The lines of a log, and those on screen, their markers and headers apart.
Kept(raw) == FlattenSeq([i \in DOMAIN raw |-> IF raw[i] \in Marker THEN <<>> ELSE <<raw[i]>>])
Contents(lines) ==
  FlattenSeq([k \in DOMAIN lines |-> IF lines[k].heads # 0 THEN <<>> ELSE <<lines[k].line>>])

\* Every line of a log is there in order once its folds are open, however its
\* group markers are nested or cut off; the cursor of a log on screen is on one
\* of its lines whatever was folded, searched or fetched again; and a search is
\* of the log shown and finds all there is to find, inside folds too, with its
\* current match one of them (log-viewer R5, R8, R21).  The matches are places in
\* the lines as the search left them: a fold closed later moves the lines under
\* the matches.
LogIsWhole ==
  log.open =>
    LET all == VisibleLines(Expanded(log.blocks)) IN
    /\ Contents(all) = Kept(log.raw)
    /\ log.state = "loaded" => /\ log.cursor \in 1..LastOr1(Len(Lines))
                               /\ log.query => log.matches = Hits(all)
    /\ log.at \in 1..LastOr1(Len(log.matches))
=============================================================================
