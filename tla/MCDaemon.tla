------------------------------ MODULE MCDaemon ------------------------------
(***************************************************************************)
(* Daemon with two collector instances, which may be of one path or of     *)
(* two, and frequencies that include none at all and a negative one.       *)
(***************************************************************************)
EXTENDS Daemon

NegativeToOne == {-1, 0, 1}
=============================================================================
