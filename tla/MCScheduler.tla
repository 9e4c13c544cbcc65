---------------------------- MODULE MCScheduler ----------------------------
(***************************************************************************)
(* Scheduler with two collectors that switch between two frequencies, none *)
(* at all, and a negative one.                                             *)
(***************************************************************************)
EXTENDS Scheduler

TwoAndNone == {-1, 0, 1, 2}
=============================================================================
