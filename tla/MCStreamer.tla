----------------------------- MODULE MCStreamer -----------------------------
(***************************************************************************)
(* Streamer with two servers and a descriptor table small enough to be     *)
(* reused and to run out.                                                  *)
(***************************************************************************)
EXTENDS Streamer

CONSTANTS a, b

\* One collector sends to both servers, another to one of them.
BothAndOne == {<<a, b>>, <<b>>}

\* Every collector sends to the same server.
One == {<<b>>}
=============================================================================
