------------------------------- MODULE Touch -------------------------------
(***************************************************************************)
(* modules/boids2d: touches and claps on their way to the entities, and    *)
(* the start and stop of the threads that carry them.                      *)
(*                                                                         *)
(* The event thread takes raw events from a connection to shout, which the *)
(* sensors of the wall feed (ShoutEventSystem.cpp), or from a queue that   *)
(* the render thread fills with what the mouse does                        *)
(* (SdlMouseEventFetcher.cpp).  It finds the entity of each                *)
(* (EventSystemBase.cpp), passes it through the touch manager              *)
(* (STouchManager.cpp), and queues what comes out for the render thread    *)
(* (BoidsApp.cpp).  The handler's thread starts and stops both             *)
(* (Handler.cpp).                                                          *)
(*                                                                         *)
(* The place of an event is given by the entity there.  What an entity     *)
(* makes of its events is in modules Table and Scroll.                     *)
(***************************************************************************)
EXTENDS Integers, Sequences, SequencesExt, FiniteSets

CONSTANTS
  Ids,           \* identifiers of touches, which count up from 0
  Targets,       \* entities
  Nothing,       \* a place on the wall without an entity; no entity
  OffWall,       \* a place outside the wall's grid
  QueueCapacity, \* of the mouse's _queue, 500 in the code
  EventCapacity, \* of eventQueue, 10000 in the code
  MaxEvents      \* bound: raw events

\* The render thread fills the one queue and empties the other.
ASSUME TouchAssumption ==
  /\ Ids \subseteq Nat /\ 0 \in Ids
  /\ Nothing \notin Targets /\ OffWall \notin Targets \cup {Nothing}
  /\ QueueCapacity \in Nat \ {0}
  /\ EventCapacity \in Nat /\ EventCapacity > QueueCapacity + 1
  /\ MaxEvents \in Nat

VARIABLES
  source,      \* shout or mouse
  handlerPc,   \* the handler's thread, see HandlerState
  running,     \* EventSystemBase::_running
  appRunning,  \* BoidsApp::_running
  notified,    \* none; lost: before Start waited; woken
  renderPc,    \* the render thread, see RenderState
  evPc,        \* the event thread, see EventState
  raw,         \* the mouse's _queue
  rawEvents,   \* raw events so far
  pushing,     \* the event that PollEvents is pushing, a sequence of at most 1
  active,      \* _isEventStreamActive
  eventId,     \* _eventId
  current,     \* _currentEntity
  associated,  \* _eventIdMap: [Ids -> entity, or Nothing]
  down,        \* touchesDown, in order: the touches of oidTouchMap
  outgoing,    \* what _HandleTouch is still to push
  eventQueue,
  owner,       \* history: [Ids -> the first entity the touch met, or Nothing]
  strays       \* history: identifiers associated by an event with none

threadVars == <<handlerPc, running, appRunning, notified>>
mouseVars == <<pushing, active, eventId>>
routeVars == <<current, associated, down, owner, strays>>
touchVars == <<source, threadVars, renderPc, evPc, raw, rawEvents, mouseVars, routeVars,
          outgoing, eventQueue>>

\* new: before OnInit; launch: before BoidsApp::Start makes its thread; wait:
\* before and in its wait for that thread; flag, join, appFlag, appJoin: in
\* OnStop.
HandlerState == {"new", "launch", "unready", "wait", "started", "flag", "join", "appFlag",
                 "appJoin", "stopped"}
RenderState == {"none", "init", "frame", "push", "drain", "left"}
EventState == {"none", "check", "wait", "push", "left"}

TouchInit ==
  /\ source \in {"shout", "mouse"}
  /\ handlerPc = "new" /\ running = FALSE /\ appRunning = FALSE /\ notified = "none"
  /\ renderPc = "none" /\ evPc = "none"
  /\ raw = <<>> /\ rawEvents = 0
  /\ pushing = <<>> /\ active = FALSE /\ eventId = 0
  /\ current = Nothing /\ associated = [i \in Ids |-> Nothing] /\ down = <<>>
  /\ outgoing = <<>> /\ eventQueue = <<>>
  /\ owner = [i \in Ids |-> Nothing] /\ strays = {}

-----------------------------------------------------------------------------
(* Raw events.  Where a location lies is found out by the event thread.      *)

Location(i) == [kind |-> "location", id |-> i]
Lift(i) == [kind |-> "remove", id |-> i]
Sound == [kind |-> "sound"]
Places == Targets \cup {Nothing, OffWall}

\* Sensors send what they like in any order: they miss touches, lose lifts and
\* use identifiers again.
Sensed == {Location(i) : i \in Ids} \cup {Lift(i) : i \in Ids} \cup {Sound}

\* PollEvents: SDL's events are looked at up to the first release of the button
\* or key stroke.  Ids bounds the releases.
Release == eventId + 1 \in Ids /\ pushing' = <<Lift(eventId)>> /\ active' = FALSE
Key == pushing' = <<Sound>> /\ active' \in {active, TRUE}
Held == pushing' = <<Location(eventId)>> /\ active' = TRUE

\* The button is down; 10 ms must pass between two locations.
Press == active' = TRUE /\ UNCHANGED pushing

Poll ==
  /\ renderPc = "frame" /\ source = "mouse"
  /\ \/ /\ rawEvents < MaxEvents
        /\ Release \/ Key \/ Held
        /\ rawEvents' = rawEvents + 1 /\ renderPc' = "push"
     \/ /\ Press \/ UNCHANGED <<active, pushing>>
        /\ renderPc' = "drain"
        /\ UNCHANGED rawEvents
  /\ UNCHANGED <<source, threadVars, evPc, raw, eventId, routeVars, outgoing, eventQueue>>

PollNothing ==
  /\ renderPc = "frame" /\ source = "shout"
  /\ renderPc' = "drain"
  /\ UNCHANGED <<source, threadVars, evPc, raw, rawEvents, mouseVars, routeVars, outgoing,
                 eventQueue>>

\* Push blocks while _queue is full.
PushRaw ==
  /\ renderPc = "push" /\ Len(raw) < QueueCapacity
  /\ raw' = raw \o pushing /\ pushing' = <<>>
  /\ eventId' = IF pushing[1].kind = "remove" THEN eventId + 1 ELSE eventId
  /\ renderPc' = "drain"
  /\ UNCHANGED <<source, threadVars, evPc, rawEvents, active, routeVars, outgoing, eventQueue>>

-----------------------------------------------------------------------------
(* The event thread.                                                       *)

CheckRunning ==
  /\ evPc = "check"
  /\ evPc' = IF running THEN "wait" ELSE "left"
  /\ UNCHANGED <<source, threadVars, renderPc, raw, rawEvents, mouseVars, routeVars, outgoing,
                 eventQueue>>

\* Mutant: the touch keeps the entity of the one before it.
EntityOfLast(i, place) == IF current = Nothing THEN place ELSE current

\* The entity with which the touch is associated, or else the first one hit.
EntityOf(i, place) == IF associated[i] # Nothing THEN associated[i] ELSE place

\* What the callback queues: all touches that are down, and those lifted, go to
\* the current entity.  Only an event of one touch alone has an owner to reach.
Out(entity, kind, i, owners, alone) ==
  [to |-> entity, kind |-> kind,
   owner |-> IF alone /\ i \notin strays THEN owners[i] ELSE Nothing]
Moves(entity, touches, owners, alone) ==
  [k \in DOMAIN touches |-> Out(entity, "move", touches[k], owners, alone)]

\* Off the wall, or on no entity and associated with none: the event ends here.
Discard(e, place) ==
  /\ e.kind = "location" /\ (place = OffWall \/ EntityOf(e.id, place) = Nothing)
  /\ evPc' = "check"
  /\ UNCHANGED <<routeVars, outgoing>>

TouchMoves(e, place) ==
  LET entity == EntityOf(e.id, place) IN
  /\ e.kind = "location" /\ place # OffWall /\ entity # Nothing
  /\ current' = entity /\ associated' = [associated EXCEPT ![e.id] = entity]
  /\ down' = IF e.id \in ToSet(down) THEN down ELSE Append(down, e.id)
  /\ owner' = IF owner[e.id] = Nothing THEN [owner EXCEPT ![e.id] = place] ELSE owner
  /\ outgoing' = Moves(entity, down', owner', Len(down') = 1)
  /\ evPc' = "push"
  /\ UNCHANGED strays

\* Mutant: the entry stays.
EraseNot(i) == associated

Erase(i) == [associated EXCEPT ![i] = Nothing]

TouchEnds(e) ==
  /\ e.kind = "remove" /\ associated[e.id] # Nothing
  /\ current' = associated[e.id] /\ associated' = Erase(e.id)
  /\ IF e.id \in ToSet(down)
       THEN \E k \in DOMAIN down :
              /\ down[k] = e.id /\ down' = RemoveAt(down, k)
              /\ outgoing' = Append(Moves(current', down', owner, FALSE),
                                    Out(current', "up", e.id, owner, down' = <<>>))
       ELSE outgoing' = <<>> /\ UNCHANGED down
  /\ owner' = [owner EXCEPT ![e.id] = Nothing]
  /\ strays' = strays \ {e.id}
  /\ evPc' = "push"

\* The lift of a touch without an entity: its coordinates are never set, and
\* may happen to lie on an entity, with which it is then associated.
LiftOfNone(e, place) ==
  /\ e.kind = "remove" /\ associated[e.id] = Nothing
  /\ IF place \in Targets
       THEN /\ current' = place
            /\ associated' = [associated EXCEPT ![e.id] = place]
            /\ strays' = strays \cup {e.id}
       ELSE UNCHANGED <<current, associated, strays>>
  /\ evPc' = "check"
  /\ UNCHANGED <<down, owner, outgoing>>

\* A clap: neither its identifier nor isLast is set, and the corner in which
\* it is put may hold anything.
Clap(e, place) ==
  /\ e.kind = "sound"
  /\ \E i \in Ids :
       LET entity == IF place = OffWall THEN Nothing ELSE EntityOf(i, place) IN
       IF entity = Nothing
         THEN evPc' = "check" /\ UNCHANGED <<current, associated, strays, outgoing>>
         ELSE /\ current' = entity
              /\ associated' = [associated EXCEPT ![i] = entity]
              /\ strays' = IF associated[i] = Nothing THEN strays \cup {i} ELSE strays
              /\ outgoing' = <<[to |-> entity, kind |-> "sound", owner |-> Nothing]>>
              /\ evPc' = "push"
  /\ UNCHANGED <<down, owner>>

FilterAndRouteEvent(e) ==
  /\ evPc = "wait"
  /\ \E place \in Places :
       \/ Discard(e, place) \/ TouchMoves(e, place)
       \/ LiftOfNone(e, place) \/ Clap(e, place)
       \/ TouchEnds(e)
  /\ UNCHANGED <<source, threadVars, renderPc, mouseVars, eventQueue>>

\* WaitAndHandleNextEvent of ShoutEventSystem: the connection has an event.
HandleSensed ==
  /\ source = "shout" /\ rawEvents < MaxEvents
  /\ rawEvents' = rawEvents + 1
  /\ \E e \in Sensed : FilterAndRouteEvent(e)
  /\ UNCHANGED raw

\* WaitAndHandleNextEvent of SdlMouseEventFetcher.
HandleMouse ==
  /\ raw # <<>> /\ raw' = Tail(raw)
  /\ FilterAndRouteEvent(Head(raw))
  /\ UNCHANGED rawEvents

\* _HandleTouch: Push blocks while eventQueue is full.
HandleTouch ==
  /\ evPc = "push"
  /\ IF outgoing = <<>> THEN evPc' = "check" /\ UNCHANGED <<outgoing, eventQueue>>
     ELSE /\ Len(eventQueue) < EventCapacity
          /\ eventQueue' = Append(eventQueue, Head(outgoing))
          /\ outgoing' = Tail(outgoing)
          /\ UNCHANGED evPc
  /\ UNCHANGED <<source, threadVars, renderPc, raw, rawEvents, mouseVars, routeVars>>

-----------------------------------------------------------------------------
(* The render thread.                                                      *)

\* Mutant: nobody is notified.
NotifyStartedNot == UNCHANGED <<handlerPc, notified>>

\* Without a condition: a notification before the wait is lost.
NotifyStarted ==
  IF handlerPc = "wait" THEN handlerPc' = "started" /\ notified' = "woken"
                        ELSE notified' = "lost" /\ UNCHANGED handlerPc

RenderInit ==
  /\ renderPc = "init" /\ renderPc' = "frame"
  /\ NotifyStarted
  /\ UNCHANGED <<source, running, appRunning, evPc, raw, rawEvents, mouseVars, routeVars,
                 outgoing, eventQueue>>

\* _HandleTouchEvents: an item is taken and handled, until there is none; then
\* the frame is over.
Drain ==
  /\ renderPc = "drain"
  /\ IF eventQueue # <<>> THEN eventQueue' = Tail(eventQueue) /\ UNCHANGED renderPc
     ELSE /\ renderPc' = IF appRunning THEN "frame" ELSE "left"
          /\ UNCHANGED eventQueue
  /\ UNCHANGED <<source, threadVars, evPc, raw, rawEvents, mouseVars, routeVars, outgoing>>

-----------------------------------------------------------------------------
(* The handler's thread.                                                   *)

\* Start of the event system.  Without a connection there is no event thread,
\* and _running is never set.
StartEvents ==
  /\ handlerPc = "new" /\ handlerPc' = "launch"
  /\ \/ running' = TRUE /\ evPc' = "check"
     \/ source = "shout" /\ running' \in BOOLEAN /\ UNCHANGED evPc
  /\ UNCHANGED <<source, appRunning, notified, renderPc, raw, rawEvents, mouseVars, routeVars,
                 outgoing, eventQueue>>

StartApp ==
  /\ handlerPc = "launch" /\ handlerPc' = "unready"
  /\ appRunning' = TRUE /\ renderPc' = "init"
  /\ UNCHANGED <<source, running, notified, evPc, raw, rawEvents, mouseVars, routeVars,
                 outgoing, eventQueue>>

WaitForApp ==
  /\ handlerPc = "unready" /\ handlerPc' = "wait"
  /\ UNCHANGED <<source, running, appRunning, notified, renderPc, evPc, raw, rawEvents, mouseVars,
                 routeVars, outgoing, eventQueue>>

SpuriousWakeup ==
  /\ handlerPc = "wait" /\ handlerPc' = "started"
  /\ UNCHANGED <<source, running, appRunning, notified, renderPc, evPc, raw, rawEvents, mouseVars,
                 routeVars, outgoing, eventQueue>>

\* OnStop, when the tool or the server's end calls it.
CallStop ==
  /\ handlerPc = "started" /\ handlerPc' = "flag"
  /\ UNCHANGED <<source, running, appRunning, notified, renderPc, evPc, raw, rawEvents, mouseVars,
                 routeVars, outgoing, eventQueue>>

StopStep ==
  /\ \/ handlerPc = "flag" /\ ~running /\ handlerPc' = "appFlag" /\ UNCHANGED <<running, appRunning>>
     \/ /\ handlerPc = "flag" /\ running
        /\ handlerPc' = "join" /\ running' = FALSE /\ UNCHANGED appRunning
     \/ /\ handlerPc = "join" /\ evPc \in {"none", "left"}
        /\ handlerPc' = "appFlag" /\ UNCHANGED <<running, appRunning>>
     \/ /\ handlerPc = "appFlag"
        /\ handlerPc' = "appJoin" /\ appRunning' = FALSE /\ UNCHANGED running
     \/ /\ handlerPc = "appJoin" /\ renderPc = "left"
        /\ handlerPc' = "stopped" /\ UNCHANGED <<running, appRunning>>
  /\ UNCHANGED <<source, notified, renderPc, evPc, raw, rawEvents, mouseVars, routeVars, outgoing,
                 eventQueue>>

-----------------------------------------------------------------------------
EventStep == CheckRunning \/ HandleMouse \/ HandleTouch
RenderStep == RenderInit \/ Poll \/ PollNothing \/ PushRaw \/ Drain
HandlerStep == StartEvents \/ StartApp \/ WaitForApp \/ StopStep

TouchNext == HandleSensed \/ EventStep \/ RenderStep \/ HandlerStep \/ SpuriousWakeup \/ CallStop

\* The threads run; nothing makes a user or a sensor send anything.
TouchFairness == WF_touchVars(EventStep) /\ WF_touchVars(RenderStep) /\ WF_touchVars(HandlerStep)

TouchSpec == TouchInit /\ [][TouchNext]_touchVars /\ TouchFairness

-----------------------------------------------------------------------------
Item == [to : Targets, kind : {"move", "up", "sound"}, owner : Targets \cup {Nothing}]

TouchTypeOK ==
  /\ source \in {"shout", "mouse"}
  /\ handlerPc \in HandlerState /\ renderPc \in RenderState /\ evPc \in EventState
  /\ running \in BOOLEAN /\ appRunning \in BOOLEAN /\ active \in BOOLEAN
  /\ notified \in {"none", "lost", "woken"}
  /\ Len(pushing) = (IF renderPc = "push" THEN 1 ELSE 0)
  /\ eventId \in Ids /\ current \in Targets \cup {Nothing}
  /\ associated \in [Ids -> Targets \cup {Nothing}]
  /\ owner \in [Ids -> Targets \cup {Nothing}]
  /\ down \in Seq(Ids) /\ strays \subseteq Ids
  /\ outgoing \in Seq(Item) /\ eventQueue \in Seq(Item)
  /\ Len(eventQueue) <= EventCapacity

\* The events of a touch reach the entity that it met first, however many other
\* touches came and went before and whatever entities it slides over, unless
\* another is down at the moment, or an event without an identifier has taken
\* the touch's (FilterAndRouteEvent, _HandleTouchesCallback).
TouchReachesItsEntity ==
  \A k \in DOMAIN eventQueue :
    eventQueue[k].owner \in {Nothing, eventQueue[k].to}

\* The event system and the touch manager keep the same touches: nobody's
\* identifier stays associated after the lift, for the next touch that bears it
\* to be sent astray, but those of events that never had a touch
\* (_eventIdMap against oidTouchMap).
AssociationsEnd ==
  {i \in Ids : associated[i] # Nothing} = ToSet(down) \cup strays

\* Start returns unless the notification came before its wait; the render thread
\* is blocked on the full queue of the mouse only until the event thread takes
\* from it, although it is the one that has to empty the event thread's queue;
\* and OnStop returns unless the event thread waits for an event, or the render
\* thread for room in the queue that the event thread has left (Start, OnStop).
ThreadsGoOn ==
  /\ handlerPc = "wait" ~> handlerPc # "wait" \/ notified = "lost"
  /\ renderPc = "push" ~> renderPc # "push" \/ evPc = "left"
  /\ handlerPc = "flag" ~>
       \/ handlerPc = "stopped"
       \/ handlerPc = "join" /\ evPc = "wait" /\ raw = <<>>
       \/ handlerPc = "appJoin" /\ renderPc = "push" /\ evPc = "left"
=============================================================================
