----------------------------- MODULE MCScheduler ------------------------------
(***************************************************************************)
(* Two repositories, the first the launch repository, and two filters.     *)
(* Version 1 of a repository has a live Run.  Both filters' listings are   *)
(* empty, and so identical, at version 0.                                  *)
(***************************************************************************)
EXTENDS Scheduler

CONSTANTS r1, r2, all, branch

MCRepo   == {r1, r2}
MCFilter == {all, branch}
MCPage   == [f \in MCFilter |-> [v \in 0..MaxVersion |->
                IF v = 0 THEN "empty"
                ELSE IF f = all THEN "live" ELSE "live, filtered"]]
MCLive   == {"live", "live, filtered"} \cap Pages
===============================================================================
