------------------------------ MODULE MCGovernor ------------------------------
(***************************************************************************)
(* Two writers and a reader over one limiter slot.  Rates are 1, 2 and 3   *)
(* units with gaps of 3, 2 and 1 ticks; a read depresses the ceiling for   *)
(* two ticks.  The answers are one of each kind observe tells apart.       *)
(***************************************************************************)
EXTENDS Governor

CONSTANTS r1, w1, w2

MCReader   == {r1}
MCWriter   == {w1, w2}
MCInterval == <<3, 2, 1>>

Plain(status) == [status |-> status, retryAfter |-> Absent, authShape |-> FALSE,
                  remaining |-> Absent, dated |-> FALSE]

MCAnswer == {
    [Plain("2xx") EXCEPT !.remaining = 5],
    [Plain("2xx") EXCEPT !.remaining = 0, !.dated = TRUE],
    Plain("304"),
    [Plain("403") EXCEPT !.authShape = TRUE],
    [Plain("429") EXCEPT !.retryAfter = 2],
    Plain("403") }
===============================================================================
