------------------------- MODULE MCScheduleDispatch -------------------------
(* Two schedules, one of them with terms, and two processes, the batch of   *)
(* one of which is smaller than the backlog.                                *)
EXTENDS ScheduleDispatch, TLC

CONSTANTS s1, s2, d1, d2

MCBatch == (d1 :> 1) @@ (d2 :> 2)
MCCaps == (s1 :> {0}) @@ (s2 :> {1})
MCEnds == (s1 :> {0}) @@ (s2 :> {0, 1})
=============================================================================
