------------------------------- MODULE Scene -------------------------------
(***************************************************************************)
(* modules/boids2d/Scene.cpp: entities that other threads add and remove,  *)
(* and that the render thread moves to its list and draws, frame by frame. *)
(*                                                                         *)
(* scoped_lock(_entityMutex) declares a lock and takes none, so that the   *)
(* steps of the threads interleave.  A vector's call is one step; what a   *)
(* reallocation under another thread's feet does is left out.              *)
(***************************************************************************)
EXTENDS Integers, Sequences, FiniteSets

CONSTANTS Entities, NoEntity

VARIABLES
  entityListInit, \* entities to be moved, a sequence
  entityList,     \* [Entities -> number of times it is in entityList]
  moving,         \* the entity that Run has read and not yet moved, or NoEntity
  present,        \* history: entities added and not removed since
  raced,          \* history: entities met by an addition between the reading
                  \* of the last element and its removal
  overtaken       \* history: entities that were removed before they were moved

sceneVars == <<entityListInit, entityList, moving, present, raced, overtaken>>

SceneInit ==
  /\ entityListInit = <<>> /\ entityList = [e \in Entities |-> 0]
  /\ moving = NoEntity
  /\ present = {} /\ raced = {} /\ overtaken = {}

AddEntity(e) ==
  /\ entityListInit' = Append(entityListInit, e)
  /\ present' = present \cup {e}
  /\ raced' = IF moving = NoEntity THEN raced ELSE raced \cup {e, moving}
  /\ UNCHANGED <<entityList, moving, overtaken>>

\* One that is twice in the list in a row is found once only: the index goes
\* on after each erasure.
RemoveEntity(e) ==
  /\ \E left \in 0..(entityList[e] \div 2) :
       entityList' = [entityList EXCEPT ![e] = left]
  /\ present' = present \ {e}
  /\ overtaken' = IF entityList[e] = 0 THEN overtaken \cup {e} ELSE overtaken
  /\ UNCHANGED <<entityListInit, moving, raced>>

\* Run: the last element is read ...
ReadBack ==
  /\ moving = NoEntity /\ entityListInit # <<>>
  /\ moving' = entityListInit[Len(entityListInit)]
  /\ UNCHANGED <<entityListInit, entityList, present, raced, overtaken>>

\* Mutant: the element is taken off and not moved.
MoveNot ==
  /\ moving # NoEntity
  /\ entityListInit' = SubSeq(entityListInit, 1, Len(entityListInit) - 1)
  /\ moving' = NoEntity
  /\ UNCHANGED <<entityList, present, raced, overtaken>>

\* ... and what is last by then is taken off.
MoveBack ==
  /\ moving # NoEntity
  /\ entityListInit' = SubSeq(entityListInit, 1, Len(entityListInit) - 1)
  /\ entityList' = [entityList EXCEPT ![moving] = @ + 1]
  /\ moving' = NoEntity
  /\ UNCHANGED <<present, raced, overtaken>>

Moved == moving = NoEntity /\ entityListInit = <<>> /\ UNCHANGED sceneVars

Count(e) ==
  entityList[e] + Cardinality({k \in DOMAIN entityListInit : entityListInit[k] = e})

\* Every entity that was added is drawn, or waits to be, exactly once until it
\* is removed, and then not at all; unless an addition met the render thread
\* between its reading and its taking of the last element, or the removal came
\* before the entity was moved.
BoidsFollowData ==
  \A e \in Entities \ (raced \cup overtaken) :
    Count(e) = IF e \in present THEN 1 ELSE 0
=============================================================================
