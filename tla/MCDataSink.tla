----------------------------- MODULE MCDataSink -----------------------------
(***************************************************************************)
(* DataSink with a buffer that starts at 12 bytes instead of 100 KB, and   *)
(* streams that just fit it, that make it double, that make it grow to the *)
(* message and then double, and that leave it to be defragmented.          *)
(***************************************************************************)
EXTENDS DataSink

FittingToLarge == {<<8, 1, 9>>, <<1, 30, 2>>, <<2, 3, 1, 10, 1>>}
=============================================================================
