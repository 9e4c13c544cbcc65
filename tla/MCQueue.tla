------------------------------ MODULE MCQueue ------------------------------
(***************************************************************************)
(* Queue on two producers and two consumers that share two slots: each     *)
(* side can block, and each notify_one has several waiters to choose from. *)
(***************************************************************************)
EXTENDS Queue
=============================================================================
