------------------------------- MODULE MCWall -------------------------------
(***************************************************************************)
(* Wall with three processes, two of them of one name and one whose name   *)
(* is the same in lower case.                                              *)
(***************************************************************************)
EXTENDS Wall

CONSTANTS a1, a2, b
TwoNames == a1 :> "a" @@ a2 :> "a" @@ b :> "A"
ToLower == [name \in {"a", "A"} |-> "a"]

\* The two processes of one name are alike, and no property is temporal.
Alike == Permutations({a1, a2})

\* Reduction.  The handler's steps append to queues that the render thread
\* reads in "frame", "removes" and "adds" only.  One that comes later in a
\* frame is the same as one that comes in the next.
HandlerWhereRead == pc \in {"frame", "removes"} \/ UNCHANGED handlerVars
=============================================================================
