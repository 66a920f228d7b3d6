------------------------------ MODULE DeletionLog ------------------------------
(***************************************************************************)
(* The deletion log (internal/ops/log.go): the append-only record of every *)
(* attempted deletion, and its rotation, which is several steps on the     *)
(* disk.  The process may be killed between any two of them, and any of    *)
(* them may be refused: the rotation ignores that of the oldest generation *)
(* or of a shift, and goes on, and fails its line at any other.  The log   *)
(* is opened again by whatever invocation deletes next.  A line is its     *)
(* number, and a file is the sequence of its lines; file 0 is the active   *)
(* log, file i is its i-th generation.  A line cut short by a failed write *)
(* is left out.                                                            *)
(***************************************************************************)
EXTENDS Naturals, Sequences, SequencesExt

CONSTANTS Generations,    \* logGenerations
          Capacity        \* logRotateSize, in lines

ASSUME LogAssumption == Generations \in Nat \ {0} /\ Capacity \in Nat \ {0}

VARIABLES
  files,     \* the files there are, by number
  writer,    \* where the one writer is: what step is next, and its index
  lines,     \* history: lines written so far
  whole,     \* history: no rotation was ever cut short, and none was refused a shift
  left       \* history: the lines of the generations that were refused one

logVars == <<files, writer, lines, whole, left>>

Closed == [at |-> "closed", i |-> 0]
Ready  == [at |-> "ready", i |-> 0]

LogInit == files = <<>> /\ writer = Closed /\ lines = 0 /\ whole = TRUE /\ left = {}

LogTypeOK ==
  /\ DOMAIN files \subseteq 0..Generations
  /\ \A k \in DOMAIN files : Len(files[k]) <= Capacity
  /\ writer.at \in {"closed", "ready", "close", "remove", "shift", "rename", "reopen", "append", "failed"}
  /\ writer.i \in 0..Generations /\ lines \in Nat /\ whole \in BOOLEAN /\ left \subseteq 1..lines
  /\ writer.at \in {"ready", "append", "close"} => 0 \in DOMAIN files

-----------------------------------------------------------------------------
Removed(k) == [j \in DOMAIN files \ {k} |-> files[j]]

\* os.Rename replaces what is at the target, and does nothing to a source that
\* is not there.
Renamed(from, to) ==
  IF from \notin DOMAIN files THEN files
  ELSE [j \in (DOMAIN files \ {from}) \cup {to} |-> IF j = to THEN files[from] ELSE files[j]]

Created == IF 0 \in DOMAIN files THEN files
           ELSE [j \in DOMAIN files \cup {0} |-> IF j = 0 THEN <<>> ELSE files[j]]

\* openDeletionLog, of a deletion that starts; and a log that cannot be opened.
OpenLog == writer' = Ready /\ files' = Created /\ UNCHANGED <<lines, whole, left>>
LogUnavailable == UNCHANGED logVars
CloseLog == writer' = Closed /\ UNCHANGED <<files, lines, whole, left>>

\* write: it rotates first where the line would not fit a log that holds some.
\* Mutant: only once it holds too much.
Overfull == Len(files[0]) > Capacity
Full == Len(files[0]) > 0 /\ Len(files[0]) + 1 > Capacity
BeginLine ==
  /\ writer' = [at |-> IF Full THEN "close" ELSE "append", i |-> 0]
  /\ UNCHANGED <<files, lines, whole, left>>

\* Mutant: the active log is shifted before the generation in its way.
ActiveFirst(i) == IF i = Generations THEN <<0, 1>> ELSE <<i, i + 1>>
Shifted(i) == <<i - 1, i>>

\* The lines a file holds.
Held(j) == {files[j][k] : k \in DOMAIN files[j]}

\* A generation that cannot be renamed stays where the next will be renamed to.
ShiftRefused(from) ==
  /\ from \in DOMAIN files /\ UNCHANGED files
  /\ left' = left \cup Held(from) /\ whole' = FALSE

Step(next, i) == writer' = [at |-> next, i |-> i]
Rotate ==
  /\ \/ writer.at = "close" /\ Step("remove", 0) /\ UNCHANGED <<files, whole, left>>
     \/ /\ writer.at = "remove" /\ files' \in {Removed(Generations), files} /\ UNCHANGED <<whole, left>>
        /\ IF Generations > 1 THEN Step("shift", Generations) ELSE Step("rename", 0)
     \/ /\ writer.at = "shift"
        /\ LET from == Shifted(writer.i)[1]
               to   == Shifted(writer.i)[2]
           IN  \/ files' = Renamed(from, to) /\ UNCHANGED <<whole, left>>
               \/ ShiftRefused(from)
        /\ IF writer.i > 2 THEN Step("shift", writer.i - 1) ELSE Step("rename", 0)
     \/ writer.at = "rename" /\ files' = Renamed(0, 1) /\ Step("reopen", 0) /\ UNCHANGED <<whole, left>>
     \/ writer.at = "reopen" /\ files' = Created /\ Step("append", 0) /\ UNCHANGED <<whole, left>>
  /\ UNCHANGED lines

Rotating == writer.at \in {"close", "remove", "shift", "rename", "reopen"}

AppendLine ==
  /\ writer.at = "append"
  /\ files' = [files EXCEPT ![0] = Append(@, lines + 1)]
  /\ lines' = lines + 1 /\ writer' = Ready /\ UNCHANGED <<whole, left>>

\* The close, the rename of the active log, the reopening or the write fails.
LineFails ==
  /\ writer.at \in {"close", "rename", "reopen", "append"}
  /\ writer' = [at |-> "failed", i |-> 0]
  /\ whole' = (whole /\ ~Rotating) /\ UNCHANGED <<files, lines, left>>

LogKilled ==
  /\ writer' = Closed /\ whole' = (whole /\ ~Rotating) /\ UNCHANGED <<files, lines, left>>

-----------------------------------------------------------------------------
OnDisk == UNION {Held(j) : j \in DOMAIN files}

\* One place on the disk is older than another: in an older file, or further up.
Older(j, k, i, n) == j > i \/ (j = i /\ k < n)

\* What is on disk is the end of everything that was recorded, in its order,
\* whatever step a rotation was cut short at or refused, and however often (purge
\* R29).  A line is missing from it only if its generation was refused a shift and
\* the next was renamed over it: while none was refused there is no gap.  A file's
\* worth of the latest lines is always there, and all the generations hold while
\* no rotation was cut short or refused a shift.
RecordIsATail ==
  /\ \A j, i \in DOMAIN files : \A k \in DOMAIN files[j], n \in DOMAIN files[i] :
       Older(j, k, i, n) => files[j][k] < files[i][n]
  /\ \E first \in 1..(lines + 1) :
       /\ OnDisk \subseteq first..lines
       /\ (first..lines) \ OnDisk \subseteq left
       /\ whole => first = 1 \/ lines - first + 1 >= Generations * Capacity
  /\ \A n \in 1..lines : n > lines - Capacity => n \in OnDisk
=============================================================================
