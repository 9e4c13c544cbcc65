------------------------------ MODULE MCTouch ------------------------------
(***************************************************************************)
(* Touch with two identifiers, two entities and small queues.              *)
(***************************************************************************)
EXTENDS Touch

TwoIds == {0, 1}
=============================================================================
