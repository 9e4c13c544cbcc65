---------------------------- MODULE MCDataRouter ----------------------------
(***************************************************************************)
(* DataRouter with handlers of one key, so that each replaces the one      *)
(* before, and one of them of a type that the router does not know.        *)
(***************************************************************************)
EXTENDS DataRouter

CONSTANTS old, new, wrong, cpu

OneKey == [h \in {old, new, wrong} |-> cpu]
=============================================================================
