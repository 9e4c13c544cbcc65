-------------------------------- MODULE Wall --------------------------------
(***************************************************************************)
(* modules/boids2d of one screen: the handler's thread, which follows the  *)
(* reports of module Processes with boids and rows (Handler.cpp,           *)
(* DataContainers.cpp), and the render thread, which runs the scene of the *)
(* boids and then the tables, frame by frame (BoidsApp.cpp).               *)
(***************************************************************************)
EXTENDS Scene, Table

CONSTANTS MaxRemoved \* bound: processes that terminate

\* A bound as well: Entities are the processes whose boids are followed.
ASSUME WallAssumption == Entities \subseteq Items /\ NoEntity \notin Items

VARIABLES
  procMap,  \* processes that are known and have not terminated
  handling, \* the process whose row is still to follow its boids, or NoEntity
  gone      \* history: processes that have terminated

handlerVars == <<procMap, handling, gone>>
vars == <<handlerVars, sceneVars, tableVars>>

Init == SceneInit /\ TableInit /\ procMap = {} /\ handling = NoEntity /\ gone = {}

\* The first report of a process: InitBoids makes boids, then the row.
NewBoids(x) ==
  /\ handling = NoEntity /\ x \notin procMap \cup gone
  /\ procMap' = procMap \cup {x} /\ handling' = x
  /\ IF x \in Entities THEN AddEntity(x) ELSE UNCHANGED sceneVars
  /\ UNCHANGED <<gone, tableVars>>

NewRow ==
  /\ handling \in procMap
  /\ PushAdd(handling)
  /\ handling' = NoEntity
  /\ UNCHANGED <<procMap, gone, sceneVars>>

\* The last report.  Nothing happens to a process that is not known.
RemoveBoids(x) ==
  /\ handling = NoEntity /\ x \in procMap /\ Cardinality(gone) < MaxRemoved
  /\ procMap' = procMap \ {x} /\ gone' = gone \cup {x} /\ handling' = x
  /\ IF x \in Entities THEN RemoveEntity(x) ELSE UNCHANGED sceneVars
  /\ UNCHANGED tableVars

RemoveRowOf ==
  /\ handling \in gone
  /\ PushRemove(handling)
  /\ handling' = NoEntity
  /\ UNCHANGED <<procMap, gone, sceneVars>>

Update ==
  \/ \E x \in Items : NewBoids(x) \/ RemoveBoids(x)
  \/ NewRow \/ RemoveRowOf

\* Gestures first, and then RunAllScenes, with the boids' scene before the
\* tables'.
Render ==
  \/ pc = "frame" /\ (ReadBack \/ MoveBack) /\ UNCHANGED <<handlerVars, tableVars>>
  \/ Moved /\ StartTables /\ UNCHANGED handlerVars
  \/ moving = NoEntity /\ Gesture /\ UNCHANGED <<handlerVars, sceneVars>>
  \/ OnLoop /\ UNCHANGED <<handlerVars, sceneVars>>

Next ==
  /\ ~crashed
  /\ Update \/ Render

Spec == Init /\ [][Next]_vars

-----------------------------------------------------------------------------
InTable(x) == Cardinality({p \in RowPlaces : items[p[1]][p[2]] = x})
Waiting(x, queue) == Cardinality({k \in DOMAIN queue : queue[k] = x})

\* Every process that was reported is in the table, or on its way there, in
\* exactly one row until its removal has been dealt with, and then in none,
\* whatever is sorted, grouped and regrouped in between and wherever OnLoop
\* returns early; unless the removal was dealt with before the addition
\* (Data::Update against OnLoop).
TableFollowsData ==
  \A x \in Items :
    InTable(x) + Waiting(x, addQueue) =
      IF \/ x \in procMap /\ x # handling
         \/ x \in gone /\ (x = handling \/ Waiting(x, removeQueue) > 0 \/ x \in orphans)
        THEN 1 ELSE 0
=============================================================================
