---------------------------- MODULE BlockingFifo ----------------------------
(***************************************************************************)
(* What lib/Queue.h promises to the threads that share one queue: Push and *)
(* Pop are blocking calls on a bounded first-in first-out buffer, and a    *)
(* pending call goes through once the buffer lets it.  Nothing is said of  *)
(* locks, wait sets or notifications: that is module Queue.                *)
(***************************************************************************)
EXTENDS Naturals, Sequences

CONSTANTS
  Producers,  \* threads that call Push
  Consumers,  \* threads that call Pop
  Items,      \* what is pushed
  Capacity,   \* most items the buffer holds
  NoItem      \* argument of a thread that is not pushing

VARIABLES
  buffer,     \* the items pushed and not popped, oldest first
  pushing,    \* [Producers -> Items or NoItem]: the argument of a pending Push
  popping     \* the consumers with a pending Pop

vars == <<buffer, pushing, popping>>

Init ==
  /\ buffer = <<>>
  /\ pushing = [p \in Producers |-> NoItem]
  /\ popping = {}

CallPush(p, x) ==
  /\ pushing[p] = NoItem
  /\ pushing' = [pushing EXCEPT ![p] = x]
  /\ UNCHANGED <<buffer, popping>>

CallPop(c) ==
  /\ c \notin popping
  /\ popping' = popping \cup {c}
  /\ UNCHANGED <<buffer, pushing>>

\* A pending Push takes effect and returns.
Put(p) ==
  /\ pushing[p] # NoItem
  /\ Len(buffer) < Capacity
  /\ buffer' = Append(buffer, pushing[p])
  /\ pushing' = [pushing EXCEPT ![p] = NoItem]
  /\ UNCHANGED popping

\* A pending Pop takes the oldest item and returns.
Take(c) ==
  /\ c \in popping
  /\ buffer # <<>>
  /\ buffer' = Tail(buffer)
  /\ popping' = popping \ {c}
  /\ UNCHANGED pushing

\* Everything buffered is discarded.
Discard ==
  /\ buffer' = <<>>
  /\ UNCHANGED <<pushing, popping>>

SomePut  == \E p \in Producers : Put(p)
SomeTake == \E c \in Consumers : Take(c)

Next ==
  \/ \E p \in Producers, x \in Items : CallPush(p, x)
  \/ \E c \in Consumers : CallPop(c)
  \/ SomePut
  \/ SomeTake
  \/ Discard

Spec == Init /\ [][Next]_vars
=============================================================================
