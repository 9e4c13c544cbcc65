---------------------------- MODULE ScreenProofs ----------------------------
(***************************************************************************)
(* One screen of modules/boids2d: theorems about modules Touch (touches    *)
(* reach the entities that they met first) and Wall (boids and rows follow *)
(* the processes; taps and swipes in the tables), for any identifiers,     *)
(* entities, processes and names.                                          *)
(***************************************************************************)
EXTENDS Wall, Touch, FiniteSetTheorems, SequenceTheorems, NaturalsInduction,
        WellFoundedInduction, TLAPS

-----------------------------------------------------------------------------
(* Touches.                                                                *)

Answered(queue) == \A k \in DOMAIN queue : queue[k].owner \in {Nothing, queue[k].to}

\* The render thread is started once; what it pushes, and that the next
\* identifier exists when that is a release.
PushInv ==
  /\ handlerPc \in {"new", "launch"} <=> renderPc = "none"
  /\ raw \in Seq(Sensed) /\ pushing \in Seq(Sensed)
  /\ pushing # <<>> /\ pushing[1].kind = "remove" => eventId + 1 \in Ids

\* A touch is down once, and has an entity as long as it is down.
DownInv ==
  /\ \A j, k \in DOMAIN down : down[j] = down[k] => j = k
  /\ AssociationsEnd

\* The entity that a touch met first is the one that it is associated with, and
\* what is on its way is for it.
OwnerInv ==
  /\ \A i \in Ids \ strays : owner[i] = associated[i]
  /\ Answered(outgoing) /\ Answered(eventQueue)

TouchInv == TouchTypeOK /\ PushInv /\ DownInv /\ OwnerInv

LEMMA SensedIs ==
  ASSUME NEW e \in Sensed
  PROVE  \/ \E i \in Ids : e = Location(i) \/ e = Lift(i)
         \/ e = Sound
BY DEF Sensed

LEMMA TouchInitially == TouchInit => TouchInv
<1> SUFFICES ASSUME TouchInit PROVE TouchInv
  OBVIOUS
<1> USE TouchAssumption DEF TouchInit
<1>1. TouchTypeOK
  BY DEF TouchTypeOK, HandlerState, RenderState, EventState
<1>2. PushInv
  BY DEF PushInv
<1>3. DownInv
  BY DEF DownInv, AssociationsEnd, ToSet
<1>4. OwnerInv
  BY DEF OwnerInv, Answered
<1> QED
  BY <1>1, <1>2, <1>3, <1>4 DEF TouchInv

\* The steps of the threads that route nothing.
LEMMA RouteKept ==
  ASSUME UNCHANGED <<routeVars, outgoing, eventQueue>>, DownInv, OwnerInv
  PROVE  DownInv' /\ OwnerInv'
BY DEF DownInv, OwnerInv, AssociationsEnd, Answered, routeVars

LEMMA RenderKeeps == TouchInv /\ RenderStep => TouchInv'
<1> SUFFICES ASSUME TouchInv, RenderStep PROVE TouchInv'
  OBVIOUS
<1> USE DEF TouchInv
<1>1. CASE RenderInit
  <2>1. UNCHANGED <<routeVars, outgoing, eventQueue>>
    BY <1>1 DEF RenderInit
  <2>2. TouchTypeOK'
    BY <1>1 DEF RenderInit, NotifyStarted, TouchTypeOK, HandlerState, RenderState, mouseVars, routeVars
  <2>3. PushInv'
    BY <1>1 DEF RenderInit, NotifyStarted, PushInv, mouseVars
  <2> QED
    BY <2>1, <2>2, <2>3, RouteKept
<1>2. CASE Poll
  <2>1. UNCHANGED <<routeVars, outgoing, eventQueue>>
    BY <1>2 DEF Poll
  <2>2. /\ pushing' \in Seq(Sensed)
        /\ renderPc' = "push" => Len(pushing') = 1
        /\ renderPc' # "push" => pushing' = pushing
        /\ renderPc' = "push" /\ pushing'[1].kind = "remove" => eventId + 1 \in Ids
    <3>1. Lift(eventId) \in Sensed /\ Location(eventId) \in Sensed /\ Sound \in Sensed
      BY DEF Sensed, TouchTypeOK
    <3>2. CASE renderPc' = "push"
      <4>1. Release \/ Key \/ Held
        BY <1>2, <3>2 DEF Poll
      <4>2. \E e \in Sensed : pushing' = <<e>> /\ (e.kind = "remove" => eventId + 1 \in Ids)
        BY <3>1, <4>1 DEF Release, Key, Held, Lift, Location, Sound
      <4> QED
        BY <3>2, <4>2
    <3>3. CASE renderPc' # "push"
      <4>1. pushing' = pushing
        BY <1>2, <3>3 DEF Poll, Press
      <4> QED
        BY <3>3, <4>1 DEF PushInv
    <3> QED
      BY <3>2, <3>3
  <2>3. active' \in BOOLEAN /\ renderPc' \in {"push", "drain"} /\ renderPc = "frame" /\ raw' = raw
        /\ eventId' = eventId
    BY <1>2 DEF Poll, Release, Key, Held, Press, TouchTypeOK
  <2>4. TouchTypeOK'
    BY <1>2, <2>2, <2>3 DEF Poll, TouchTypeOK, RenderState, mouseVars, routeVars, threadVars
  <2>5. PushInv'
    BY <1>2, <2>2, <2>3 DEF Poll, PushInv, TouchTypeOK, threadVars
  <2> QED
    BY <2>1, <2>4, <2>5, RouteKept
<1>3. CASE PollNothing
  <2>1. UNCHANGED <<routeVars, outgoing, eventQueue>>
    BY <1>3 DEF PollNothing
  <2>2. TouchTypeOK'
    BY <1>3 DEF PollNothing, TouchTypeOK, RenderState, mouseVars, routeVars, threadVars
  <2>3. PushInv'
    BY <1>3 DEF PollNothing, PushInv, mouseVars, threadVars
  <2> QED
    BY <2>1, <2>2, <2>3, RouteKept
<1>4. CASE PushRaw
  <2>1. UNCHANGED <<routeVars, outgoing, eventQueue>>
    BY <1>4 DEF PushRaw
  <2>2. raw' \in Seq(Sensed) /\ pushing' = <<>> /\ eventId' \in Ids
    <3>1. pushing # <<>>
      <4>1. Len(pushing) = 1
        BY <1>4 DEF PushRaw, TouchTypeOK
      <4> QED
        BY <4>1
    <3>2. raw' = raw \o pushing /\ pushing' = <<>>
          /\ eventId' = IF pushing[1].kind = "remove" THEN eventId + 1 ELSE eventId
      BY <1>4 DEF PushRaw
    <3>3. pushing[1].kind = "remove" => eventId + 1 \in Ids
      BY <3>1 DEF PushInv
    <3>4. eventId \in Ids /\ raw \in Seq(Sensed) /\ pushing \in Seq(Sensed)
      BY DEF PushInv, TouchTypeOK
    <3>5. eventId' \in Ids
      BY <3>2, <3>3, <3>4
    <3>6. raw' \in Seq(Sensed)
      BY <3>2, <3>4
    <3> QED
      BY <3>2, <3>5, <3>6
  <2>3. TouchTypeOK'
    BY <1>4, <2>2 DEF PushRaw, TouchTypeOK, RenderState, routeVars, threadVars
  <2>4. PushInv'
    BY <1>4, <2>2 DEF PushRaw, PushInv, threadVars
  <2> QED
    BY <2>1, <2>3, <2>4, RouteKept
<1>5. CASE Drain
  <2>1. UNCHANGED <<routeVars, outgoing>> /\ renderPc = "drain" /\ renderPc' \in {"drain", "frame", "left"}
        /\ (eventQueue' = eventQueue \/ (eventQueue # <<>> /\ eventQueue' = Tail(eventQueue)))
    BY <1>5 DEF Drain
  <2>2. eventQueue \in Seq(Item) /\ eventQueue' \in Seq(Item) /\ Len(eventQueue') <= Len(eventQueue)
        /\ \A k \in DOMAIN eventQueue' : \E j \in DOMAIN eventQueue : eventQueue'[k] = eventQueue[j]
    <3>1. eventQueue \in Seq(Item)
      BY DEF TouchTypeOK
    <3>2. CASE eventQueue' = Tail(eventQueue) /\ eventQueue # <<>>
      <4>1. \A k \in DOMAIN eventQueue' : k + 1 \in DOMAIN eventQueue /\ eventQueue'[k] = eventQueue[k + 1]
        BY <3>1, <3>2
      <4> QED
        BY <3>1, <3>2, <4>1
    <3> QED
      BY <2>1, <3>1, <3>2
  <2>3. TouchTypeOK'
    BY <1>5, <2>1, <2>2, TouchAssumption DEF Drain, TouchTypeOK, RenderState, mouseVars, routeVars, threadVars
  <2>4. PushInv'
    BY <1>5 DEF Drain, PushInv, mouseVars, threadVars
  <2>5. DownInv' /\ OwnerInv'
    BY <2>1, <2>2 DEF DownInv, OwnerInv, AssociationsEnd, Answered, routeVars
  <2> QED
    BY <2>3, <2>4, <2>5
<1> QED
  BY <1>1, <1>2, <1>3, <1>4, <1>5 DEF RenderStep

LEMMA ThreadsKeep ==
  TouchInv /\ (HandlerStep \/ SpuriousWakeup \/ CallStop \/ CheckRunning \/ UNCHANGED touchVars) => TouchInv'
<1> SUFFICES ASSUME TouchInv,
                    HandlerStep \/ SpuriousWakeup \/ CallStop \/ CheckRunning \/ UNCHANGED touchVars
             PROVE  TouchInv'
  OBVIOUS
<1>1. UNCHANGED <<routeVars, outgoing, eventQueue>> /\ UNCHANGED <<raw, mouseVars>>
  BY DEF HandlerStep, StartEvents, StartApp, WaitForApp, StopStep, SpuriousWakeup, CallStop, CheckRunning, touchVars
<1>2. /\ source' = source /\ handlerPc' \in HandlerState /\ renderPc' \in {"init", renderPc}
      /\ evPc' \in EventState /\ running' \in BOOLEAN /\ appRunning' \in BOOLEAN /\ notified' = notified
      /\ renderPc = "push" => renderPc' = "push"
      /\ renderPc # "push" => renderPc' # "push"
      /\ handlerPc' \in {"new", "launch"} <=> renderPc' = "none"
  <2> USE DEF TouchInv, TouchTypeOK, PushInv
  <2>1. CASE StartEvents
    BY <2>1 DEF StartEvents, HandlerState, EventState
  <2>2. CASE StartApp
    BY <2>2 DEF StartApp, HandlerState, PushInv
  <2>3. CASE WaitForApp
    BY <2>3 DEF WaitForApp, HandlerState
  <2>4. CASE StopStep
    BY <2>4 DEF StopStep, HandlerState
  <2>5. CASE SpuriousWakeup \/ CallStop
    BY <2>5 DEF SpuriousWakeup, CallStop, HandlerState
  <2>6. CASE CheckRunning
    BY <2>6 DEF CheckRunning, EventState, threadVars
  <2>7. CASE UNCHANGED touchVars
    BY <2>7 DEF touchVars, threadVars
  <2> QED
    BY <2>1, <2>2, <2>3, <2>4, <2>5, <2>6, <2>7 DEF HandlerStep
<1>3. TouchTypeOK'
  BY <1>1, <1>2 DEF TouchInv, TouchTypeOK, RenderState, mouseVars, routeVars
<1>4. PushInv'
  BY <1>1, <1>2 DEF PushInv, TouchInv, mouseVars
<1> QED
  BY <1>1, <1>3, <1>4, RouteKept DEF TouchInv

-----------------------------------------------------------------------------
(* The event thread.                                                       *)

Ways == Targets \cup {Nothing}

\* What the event thread keeps as it routes an event.
RouteInv ==
  /\ evPc \in EventState /\ current \in Ways
  /\ associated \in [Ids -> Ways] /\ owner \in [Ids -> Ways]
  /\ down \in Seq(Ids) /\ strays \subseteq Ids
  /\ outgoing \in Seq(Item) /\ Answered(outgoing)
  /\ DownInv
  /\ \A i \in Ids \ strays : owner[i] = associated[i]

LEMMA OutIs ==
  ASSUME NEW entity \in Targets, NEW kind \in {"move", "up"}, NEW i \in Ids,
         NEW owners \in [Ids -> Ways], NEW alone \in BOOLEAN,
         alone /\ i \notin strays => owners[i] \in {Nothing, entity}
  PROVE  LET o == Out(entity, kind, i, owners, alone) IN
         o \in Item /\ o.owner \in {Nothing, o.to}
BY DEF Out, Item, Ways

LEMMA MovesAre ==
  ASSUME NEW entity \in Targets, NEW touches \in Seq(Ids),
         NEW owners \in [Ids -> Ways], NEW alone \in BOOLEAN,
         alone => \A k \in DOMAIN touches :
                    touches[k] \notin strays => owners[touches[k]] \in {Nothing, entity}
  PROVE  /\ Moves(entity, touches, owners, alone) \in Seq(Item)
         /\ Answered(Moves(entity, touches, owners, alone))
<1> DEFINE m == Moves(entity, touches, owners, alone)
<1>1. DOMAIN m = DOMAIN touches /\ DOMAIN touches = 1..Len(touches)
  BY DEF Moves
<1>2. \A k \in DOMAIN touches : m[k] = Out(entity, "move", touches[k], owners, alone)
  BY DEF Moves
<1>3. \A k \in DOMAIN touches : m[k] \in Item /\ m[k].owner \in {Nothing, m[k].to}
  <2> SUFFICES ASSUME NEW k \in DOMAIN touches
               PROVE  m[k] \in Item /\ m[k].owner \in {Nothing, m[k].to}
    OBVIOUS
  <2>1. touches[k] \in Ids
    OBVIOUS
  <2> HIDE DEF m
  <2> QED
    BY <1>2, <2>1, OutIs
<1>4. m = [k \in 1..Len(touches) |-> m[k]]
  BY <1>1 DEF Moves
<1> HIDE DEF m
<1>5. m \in Seq(Item)
  BY <1>1, <1>3, <1>4
<1> QED
  BY <1>1, <1>3, <1>5 DEF Answered, m

\* An event that is not discarded moves the touch that it belongs to.
LEMMA MovesKeep ==
  ASSUME RouteInv, NEW e \in Sensed, NEW place \in Places, TouchMoves(e, place)
  PROVE  RouteInv'
<1> DEFINE i == e.id
           entity == EntityOf(i, place)
<1>1. i \in Ids
  BY DEF TouchMoves, Sensed, Location, Lift, Sound
<1>2. /\ place # OffWall /\ entity # Nothing
      /\ current' = entity /\ associated' = [associated EXCEPT ![i] = entity]
      /\ down' = IF i \in ToSet(down) THEN down ELSE Append(down, i)
      /\ owner' = IF owner[i] = Nothing THEN [owner EXCEPT ![i] = place] ELSE owner
      /\ outgoing' = Moves(entity, down', owner', Len(down') = 1)
      /\ evPc' = "push" /\ strays' = strays
  BY DEF TouchMoves
<1> HIDE DEF entity, i
<1>3. entity \in Targets /\ place \in Ways /\ entity \in {associated[i], place}
  BY <1>1, <1>2 DEF entity, EntityOf, RouteInv, Ways, Places
<1>4. associated' \in [Ids -> Ways] /\ owner' \in [Ids -> Ways]
  BY <1>1, <1>2, <1>3 DEF RouteInv, Ways
<1>5. down' \in Seq(Ids) /\ ToSet(down') = ToSet(down) \cup {i}
      /\ \A j, k \in DOMAIN down' : down'[j] = down'[k] => j = k
  <2>1. down \in Seq(Ids) /\ \A j, k \in DOMAIN down : down[j] = down[k] => j = k
    BY DEF RouteInv, DownInv
  <2>2. CASE i \in ToSet(down)
    BY <1>2, <2>1, <2>2
  <2>3. CASE i \notin ToSet(down)
    <3>1. down' = Append(down, i) /\ \A k \in DOMAIN down : down[k] # i
      BY <1>2, <2>3 DEF ToSet
    <3>2. /\ DOMAIN down' = 1..(Len(down) + 1) /\ DOMAIN down = 1..Len(down) /\ Len(down) \in Nat
          /\ down'[Len(down) + 1] = i /\ \A k \in 1..Len(down) : down'[k] = down[k]
          /\ down' \in Seq(Ids)
      BY <1>1, <2>1, <3>1
    <3>3. ToSet(down') = ToSet(down) \cup {i}
      BY <3>2 DEF ToSet
    <3> QED
      BY <2>1, <3>1, <3>2, <3>3
  <2> QED
    BY <2>2, <2>3
<1>6. \A j \in Ids \ strays : owner'[j] = associated'[j]
  <2> SUFFICES ASSUME NEW j \in Ids \ strays PROVE owner'[j] = associated'[j]
    OBVIOUS
  <2>1. owner[j] = associated[j]
    BY DEF RouteInv
  <2>2. CASE j # i
    BY <1>1, <1>2, <2>1, <2>2 DEF RouteInv
  <2>3. CASE j = i
    <3>1. entity = IF owner[i] # Nothing THEN owner[i] ELSE place
      BY <2>1, <2>3 DEF entity, EntityOf
    <3> QED
      BY <1>1, <1>2, <2>3, <3>1 DEF RouteInv
  <2> QED
    BY <2>2, <2>3
<1>7. outgoing' \in Seq(Item) /\ Answered(outgoing')
  <2>1. Len(down') = 1 => \A k \in DOMAIN down' :
          down'[k] \notin strays => owner'[down'[k]] \in {Nothing, entity}
    <3> SUFFICES ASSUME Len(down') = 1, NEW k \in DOMAIN down', down'[k] \notin strays
                 PROVE  owner'[down'[k]] = entity
      OBVIOUS
    <3>1. i \in ToSet(down') /\ DOMAIN down' = {1}
      BY <1>5
    <3>2. down'[k] = i
      BY <3>1 DEF ToSet
    <3>3. owner'[i] = associated'[i] /\ associated'[i] = entity
      BY <1>1, <1>2, <1>6, <3>2 DEF RouteInv
    <3> QED
      BY <3>2, <3>3
  <2>2. (Len(down') = 1) \in BOOLEAN
    OBVIOUS
  <2> QED
    BY <1>2, <1>3, <1>4, <1>5, <2>1, <2>2, MovesAre, Zenon
<1>8. AssociationsEnd'
  <2>1. \A j \in Ids : associated'[j] # Nothing <=> (associated[j] # Nothing \/ j = i)
    BY <1>1, <1>2, <1>3 DEF RouteInv
  <2> QED
    BY <1>1, <1>2, <1>5, <2>1 DEF AssociationsEnd, RouteInv, DownInv
<1> QED
  BY <1>2, <1>3, <1>4, <1>5, <1>6, <1>7, <1>8 DEF RouteInv, DownInv, EventState, Ways, Answered

\* Erasing an element leaves those before it, and no new ones.
LEMMA Erased ==
  ASSUME NEW S, NEW s \in Seq(S), NEW k \in 1..Len(s)
  PROVE  /\ RemoveAt(s, k) \in Seq(S) /\ Len(RemoveAt(s, k)) = Len(s) - 1
         /\ \A j \in 1..(Len(s) - 1) :
              RemoveAt(s, k)[j] = IF j < k THEN s[j] ELSE s[j + 1]
<1> DEFINE a == SubSeq(s, 1, k - 1)
           b == SubSeq(s, k + 1, Len(s))
<1>1. Len(s) \in Nat /\ k \in Nat /\ 1 <= k /\ k <= Len(s)
  OBVIOUS
<1>2. a \in Seq(S) /\ Len(a) = k - 1 /\ \A j \in 1..(k - 1) : a[j] = s[j]
  OBVIOUS
<1>3. /\ b \in Seq(S) /\ Len(b) = Len(s) - k
      /\ \A j \in 1..(Len(s) - k) : b[j] = s[k + j]
  OBVIOUS
<1>4. RemoveAt(s, k) = a \o b
  BY DEF RemoveAt
<1> HIDE DEF a, b
<1>5. /\ a \o b \in Seq(S) /\ Len(a \o b) = Len(s) - 1
      /\ \A j \in 1..(Len(s) - 1) : (a \o b)[j] = IF j < k THEN s[j] ELSE s[j + 1]
  <2>1. a \o b \in Seq(S) /\ Len(a \o b) = Len(s) - 1
    <3>1. a \o b \in Seq(S) /\ Len(a \o b) = Len(a) + Len(b)
      BY <1>2, <1>3, ConcatProperties
    <3> QED
      BY <1>1, <1>2, <1>3, <3>1
  <2>2. ASSUME NEW j \in 1..(Len(s) - 1)
        PROVE  (a \o b)[j] = IF j < k THEN s[j] ELSE s[j + 1]
    <3>1. j \in 1..(Len(a) + Len(b)) /\ j \in Nat
      BY <1>1, <1>2, <1>3
    <3>2. (a \o b)[j] = IF j <= Len(a) THEN a[j] ELSE b[j - Len(a)]
      BY <1>2, <1>3, <3>1
    <3>3. CASE j < k
      BY <1>1, <1>2, <3>1, <3>2, <3>3
    <3>4. CASE j >= k
      <4>1. j - Len(a) \in 1..(Len(s) - k) /\ k + (j - Len(a)) = j + 1
        BY <1>1, <1>2, <3>1, <3>4
      <4> QED
        BY <1>1, <1>2, <1>3, <3>1, <3>2, <3>4, <4>1
    <3> QED
      BY <1>1, <3>1, <3>3, <3>4
  <2> QED
    BY <2>1, <2>2
<1> QED
  BY <1>4, <1>5

LEMMA RemovedOne ==
  ASSUME NEW S, NEW s \in Seq(S), NEW k \in DOMAIN s, \A a, b \in DOMAIN s : s[a] = s[b] => a = b
  PROVE  /\ RemoveAt(s, k) \in Seq(S) /\ Len(RemoveAt(s, k)) = Len(s) - 1
         /\ \A a, b \in DOMAIN RemoveAt(s, k) : RemoveAt(s, k)[a] = RemoveAt(s, k)[b] => a = b
         /\ ToSet(RemoveAt(s, k)) = ToSet(s) \ {s[k]}
<1> DEFINE r == RemoveAt(s, k)
<1>1. Len(s) \in Nat /\ DOMAIN s = 1..Len(s) /\ k \in 1..Len(s)
  OBVIOUS
<1>2. /\ r \in Seq(S) /\ DOMAIN r = 1..(Len(s) - 1) /\ Len(r) = Len(s) - 1
      /\ \A a \in 1..(Len(s) - 1) : r[a] = s[IF a < k THEN a ELSE a + 1]
  <2>1. /\ r \in Seq(S) /\ Len(r) = Len(s) - 1
        /\ \A a \in 1..(Len(s) - 1) : r[a] = IF a < k THEN s[a] ELSE s[a + 1]
    <3>1. s \in Seq(S) /\ k \in 1..Len(s)
      BY <1>1
    <3> QED
      BY <3>1, Erased, Zenon
  <2> HIDE DEF r
  <2>2. DOMAIN r = 1..(Len(s) - 1)
    BY <2>1
  <2> QED
    BY <2>1, <2>2
<1> HIDE DEF r
<1>3. \A a, b \in DOMAIN r : r[a] = r[b] => a = b
  <2> SUFFICES ASSUME NEW a \in DOMAIN r, NEW b \in DOMAIN r, r[a] = r[b] PROVE a = b
    OBVIOUS
  <2> DEFINE p(c) == IF c < k THEN c ELSE c + 1
  <2>1. p(a) \in DOMAIN s /\ p(b) \in DOMAIN s /\ s[p(a)] = s[p(b)]
    BY <1>1, <1>2
  <2>2. p(a) = p(b)
    BY <2>1, Zenon
  <2> QED
    BY <1>1, <1>2, <2>2
<1>4. ToSet(r) = ToSet(s) \ {s[k]}
  <2>1. ASSUME NEW a \in DOMAIN r PROVE r[a] \in ToSet(s) \ {s[k]}
    <3> DEFINE p == IF a < k THEN a ELSE a + 1
    <3>1. p \in DOMAIN s /\ p # k /\ r[a] = s[p]
      BY <1>1, <1>2
    <3> QED
      BY <3>1 DEF ToSet
  <2>2. ASSUME NEW b \in DOMAIN s, b # k PROVE s[b] \in ToSet(r)
    <3> DEFINE q == IF b < k THEN b ELSE b - 1
    <3>1. q \in DOMAIN r /\ r[q] = s[b]
      BY <1>1, <1>2, <2>2
    <3> QED
      BY <3>1 DEF ToSet
  <2> QED
    BY <2>1, <2>2 DEF ToSet
<1> QED
  BY <1>2, <1>3, <1>4 DEF r

\* A lift takes the touch that it names out of both tables.
LEMMA EndsKeep ==
  ASSUME RouteInv, NEW e \in Sensed, TouchEnds(e)
  PROVE  RouteInv'
<1> DEFINE i == e.id
           entity == associated[i]
<1>1. i \in Ids
  BY DEF TouchEnds, Sensed, Location, Lift, Sound
<1>2. /\ entity # Nothing /\ current' = entity /\ associated' = [associated EXCEPT ![i] = Nothing]
      /\ owner' = [owner EXCEPT ![i] = Nothing] /\ strays' = strays \ {i} /\ evPc' = "push"
      /\ i \in ToSet(down) =>
           \E k \in DOMAIN down :
             /\ down[k] = i /\ down' = RemoveAt(down, k)
             /\ outgoing' = Append(Moves(entity, down', owner, FALSE),
                                   Out(entity, "up", i, owner, down' = <<>>))
      /\ i \notin ToSet(down) => outgoing' = <<>> /\ down' = down
  BY DEF TouchEnds, Erase
<1>3. entity \in Targets /\ associated' \in [Ids -> Ways] /\ owner' \in [Ids -> Ways]
  BY <1>1, <1>2 DEF RouteInv, Ways
<1> HIDE DEF entity, i
<1>4. /\ down' \in Seq(Ids) /\ ToSet(down') = ToSet(down) \ {i}
      /\ \A j, k \in DOMAIN down' : down'[j] = down'[k] => j = k
  <2>1. down \in Seq(Ids) /\ \A j, k \in DOMAIN down : down[j] = down[k] => j = k
    BY DEF RouteInv, DownInv
  <2>2. CASE i \in ToSet(down)
    <3>1. PICK k \in DOMAIN down : down[k] = i /\ down' = RemoveAt(down, k)
      BY <1>2, <2>2
    <3> QED
      BY <2>1, <3>1, RemovedOne
  <2>3. CASE i \notin ToSet(down)
    <3>1. down' = down
      BY <1>2, <2>3
    <3> QED
      BY <2>1, <2>3, <3>1
  <2> QED
    BY <2>2, <2>3
<1>5. outgoing' \in Seq(Item) /\ Answered(outgoing')
  <2>1. CASE i \in ToSet(down)
    <3> DEFINE m == Moves(entity, down', owner, FALSE)
               o == Out(entity, "up", i, owner, down' = <<>>)
    <3>1. outgoing' = Append(m, o)
      BY <1>2, <2>1
    <3>2. owner \in [Ids -> Ways]
      BY DEF RouteInv
    <3>3. m \in Seq(Item) /\ Answered(m)
      BY <1>3, <1>4, <3>2, MovesAre
    <3>4. i \notin strays => owner[i] = entity
      BY <1>1 DEF RouteInv, entity
    <3>5. o \in Item /\ o.owner \in {Nothing, o.to}
      <4>1. (down' = <<>>) \in BOOLEAN
        OBVIOUS
      <4> QED
        BY <1>1, <1>3, <3>2, <3>4, <4>1, OutIs
    <3> HIDE DEF m, o
    <3>6. outgoing' \in Seq(Item) /\ \A k \in DOMAIN outgoing' :
             (k \in DOMAIN m /\ outgoing'[k] = m[k]) \/ outgoing'[k] = o
      BY <3>1, <3>3, <3>5
    <3> QED
      BY <3>3, <3>5, <3>6 DEF Answered
  <2>2. CASE i \notin ToSet(down)
    <3>1. outgoing' = <<>>
      BY <1>2, <2>2
    <3> QED
      BY <3>1 DEF Answered
  <2> QED
    BY <2>1, <2>2
<1>6. AssociationsEnd'
  <2>1. \A j \in Ids : associated'[j] # Nothing <=> (associated[j] # Nothing /\ j # i)
    BY <1>1, <1>2 DEF RouteInv
  <2> QED
    BY <1>2, <1>4, <2>1 DEF AssociationsEnd, RouteInv, DownInv
<1>7. \A j \in Ids \ strays' : owner'[j] = associated'[j]
  BY <1>1, <1>2 DEF RouteInv
<1>8. evPc' \in EventState /\ current' \in Ways /\ strays' \subseteq Ids
  BY <1>2, <1>3 DEF EventState, Ways, RouteInv
<1> QED
  BY <1>3, <1>4, <1>5, <1>6, <1>7, <1>8 DEF RouteInv, DownInv, Answered

LEMMA OthersKeep ==
  ASSUME RouteInv, NEW e \in Sensed, NEW place \in Places,
         Discard(e, place) \/ LiftOfNone(e, place) \/ Clap(e, place)
  PROVE  RouteInv'
<1>1. CASE Discard(e, place)
  BY <1>1 DEF Discard, RouteInv, routeVars, EventState, DownInv, AssociationsEnd, Answered
<1>2. CASE LiftOfNone(e, place)
  <2>1. e.id \in Ids /\ associated[e.id] = Nothing /\ UNCHANGED <<down, owner, outgoing>> /\ evPc' \in EventState
    BY <1>2 DEF LiftOfNone, Sensed, Location, Lift, Sound, EventState
  <2>2. CASE place \in Targets
    <3>1. /\ current' = place /\ associated' = [associated EXCEPT ![e.id] = place]
          /\ strays' = strays \cup {e.id}
      BY <1>2, <2>2 DEF LiftOfNone
    <3>2. \A j \in Ids : associated'[j] # Nothing <=> (associated[j] # Nothing \/ j = e.id)
      BY <2>1, <2>2, <3>1, TouchAssumption DEF RouteInv
    <3>3. AssociationsEnd'
      BY <2>1, <3>1, <3>2 DEF AssociationsEnd, RouteInv, DownInv
    <3> QED
      BY <2>1, <2>2, <3>1, <3>3 DEF RouteInv, DownInv, Ways, Answered
  <2>3. CASE place \notin Targets
    <3>1. UNCHANGED <<current, associated, strays>>
      BY <1>2, <2>3 DEF LiftOfNone
    <3> QED
      BY <2>1, <3>1 DEF RouteInv, DownInv, AssociationsEnd, Answered
  <2> QED
    BY <2>2, <2>3
<1>3. CASE Clap(e, place)
  <2> DEFINE Met(i) == IF place = OffWall THEN Nothing ELSE EntityOf(i, place)
  <2>1. PICK i \in Ids :
          IF Met(i) = Nothing
            THEN evPc' = "check" /\ UNCHANGED <<current, associated, strays, outgoing>>
            ELSE /\ current' = Met(i) /\ associated' = [associated EXCEPT ![i] = Met(i)]
                 /\ strays' = IF associated[i] = Nothing THEN strays \cup {i} ELSE strays
                 /\ outgoing' = <<[to |-> Met(i), kind |-> "sound", owner |-> Nothing]>>
                 /\ evPc' = "push"
    BY <1>3 DEF Clap
  <2>2. UNCHANGED <<down, owner>>
    BY <1>3 DEF Clap
  <2>3. Met(i) \in Ways /\ (associated[i] # Nothing => Met(i) \in {Nothing, associated[i]})
    BY DEF EntityOf, RouteInv, Places, Ways
  <2> HIDE DEF Met
  <2>4. CASE Met(i) = Nothing
    BY <2>1, <2>2, <2>4 DEF RouteInv, DownInv, AssociationsEnd, Answered, EventState
  <2>5. CASE Met(i) # Nothing
    <3>1. /\ Met(i) \in Targets /\ current' = Met(i)
          /\ associated' = [associated EXCEPT ![i] = Met(i)]
          /\ strays' = IF associated[i] = Nothing THEN strays \cup {i} ELSE strays
          /\ outgoing' = <<[to |-> Met(i), kind |-> "sound", owner |-> Nothing]>>
          /\ evPc' \in EventState
      BY <2>1, <2>3, <2>5 DEF Ways, EventState
    <3>2. outgoing' \in Seq(Item) /\ Answered(outgoing')
      <4>1. [to |-> Met(i), kind |-> "sound", owner |-> Nothing] \in Item
        BY <3>1 DEF Item
      <4> QED
        BY <3>1, <4>1 DEF Answered
    <3>3. \A j \in Ids : associated'[j] # Nothing <=> (associated[j] # Nothing \/ j = i)
      BY <2>5, <3>1 DEF RouteInv
    <3>4. AssociationsEnd'
      BY <2>2, <3>1, <3>3 DEF AssociationsEnd, RouteInv, DownInv
    <3>5. \A j \in Ids \ strays' : owner'[j] = associated'[j]
      BY <2>2, <2>3, <2>5, <3>1 DEF RouteInv
    <3>6. associated' \in [Ids -> Ways] /\ strays' \subseteq Ids /\ current' \in Ways
      BY <3>1 DEF RouteInv, Ways
    <3> QED
      BY <2>2, <3>1, <3>2, <3>4, <3>5, <3>6 DEF RouteInv, DownInv, Answered
  <2> QED
    BY <2>4, <2>5
<1> QED
  BY <1>1, <1>2, <1>3

LEMMA EventKeeps == TouchInv /\ (HandleSensed \/ HandleMouse) => TouchInv'
<1> SUFFICES ASSUME TouchInv, HandleSensed \/ HandleMouse PROVE TouchInv'
  OBVIOUS
<1>1. PICK e \in Sensed : FilterAndRouteEvent(e) /\ raw' \in Seq(Sensed)
  <2>1. CASE HandleSensed
    BY <2>1 DEF HandleSensed, TouchInv, PushInv
  <2>2. CASE HandleMouse
    <3>1. raw # <<>> /\ raw \in Seq(Sensed) /\ raw' = Tail(raw) /\ FilterAndRouteEvent(Head(raw))
      BY <2>2 DEF HandleMouse, TouchInv, PushInv
    <3>2. Head(raw) \in Sensed /\ Tail(raw) \in Seq(Sensed)
      BY <3>1
    <3> QED
      BY <3>1, <3>2
  <2> QED
    BY <2>1, <2>2
<1>2. RouteInv
  BY DEF RouteInv, TouchInv, TouchTypeOK, DownInv, OwnerInv, Ways
<1>3. RouteInv'
  BY <1>1, <1>2, MovesKeep, EndsKeep, OthersKeep, Zenon DEF FilterAndRouteEvent
<1>4. UNCHANGED <<source, threadVars, renderPc, mouseVars, eventQueue>>
  BY <1>1 DEF FilterAndRouteEvent
<1>5. TouchTypeOK'
  BY <1>3, <1>4 DEF RouteInv, TouchInv, TouchTypeOK, Ways, threadVars, mouseVars
<1>6. PushInv'
  BY <1>1, <1>4 DEF TouchInv, PushInv, threadVars, mouseVars
<1>7. DownInv' /\ OwnerInv'
  BY <1>3, <1>4 DEF RouteInv, TouchInv, OwnerInv, Answered
<1> QED
  BY <1>5, <1>6, <1>7 DEF TouchInv

LEMMA QueueKeeps == TouchInv /\ HandleTouch => TouchInv'
<1> SUFFICES ASSUME TouchInv, HandleTouch PROVE TouchInv'
  OBVIOUS
<1>1. /\ outgoing \in Seq(Item) /\ eventQueue \in Seq(Item) /\ Len(eventQueue) <= EventCapacity
      /\ Answered(outgoing) /\ Answered(eventQueue)
  BY DEF TouchInv, TouchTypeOK, OwnerInv
<1>2. /\ evPc' \in EventState
      /\ outgoing' \in Seq(Item) /\ eventQueue' \in Seq(Item) /\ Len(eventQueue') <= EventCapacity
      /\ Answered(outgoing') /\ Answered(eventQueue')
  <2>1. CASE outgoing = <<>>
    <3>1. evPc' = "check" /\ UNCHANGED <<outgoing, eventQueue>>
      BY <2>1 DEF HandleTouch
    <3> QED
      BY <1>1, <3>1 DEF Answered, EventState
  <2>2. CASE outgoing # <<>>
    <3>1. /\ Len(eventQueue) < EventCapacity /\ eventQueue' = Append(eventQueue, Head(outgoing))
          /\ outgoing' = Tail(outgoing) /\ evPc' = "push"
      BY <2>2 DEF HandleTouch
    <3>2. Head(outgoing) = outgoing[1] /\ 1 \in DOMAIN outgoing /\ Head(outgoing) \in Item
      BY <1>1, <2>2
    <3>3. /\ outgoing' \in Seq(Item)
          /\ \A k \in DOMAIN outgoing' : k + 1 \in DOMAIN outgoing /\ outgoing'[k] = outgoing[k + 1]
      BY <1>1, <2>2, <3>1
    <3>4. /\ eventQueue' \in Seq(Item) /\ Len(eventQueue') <= EventCapacity
          /\ \A k \in DOMAIN eventQueue' :
               (k \in DOMAIN eventQueue /\ eventQueue'[k] = eventQueue[k]) \/ eventQueue'[k] = outgoing[1]
      BY <1>1, <3>1, <3>2, TouchAssumption
    <3> QED
      BY <1>1, <3>1, <3>2, <3>3, <3>4 DEF Answered, EventState
  <2> QED
    BY <2>1, <2>2
<1>3. UNCHANGED <<source, threadVars, renderPc, raw, rawEvents, mouseVars, routeVars>>
  BY DEF HandleTouch
<1>4. TouchTypeOK'
  BY <1>2, <1>3 DEF TouchInv, TouchTypeOK, threadVars, mouseVars, routeVars
<1>5. PushInv'
  BY <1>3 DEF TouchInv, PushInv, threadVars, mouseVars
<1>6. DownInv' /\ OwnerInv'
  BY <1>2, <1>3 DEF TouchInv, DownInv, AssociationsEnd, OwnerInv, routeVars
<1> QED
  BY <1>4, <1>5, <1>6 DEF TouchInv

LEMMA TouchInvariance == TouchSpec => []TouchInv
<1>1. TouchInv /\ [TouchNext]_touchVars => TouchInv'
  BY RenderKeeps, ThreadsKeep, EventKeeps, QueueKeeps DEF TouchNext, EventStep
<1> QED
  BY <1>1, TouchInitially, PTL DEF TouchSpec

\* Types of the event system and the application's threads, and the bound on
\* the event queue, for any identifiers, entities and capacities.
THEOREM TouchTypeCorrect == TouchSpec => []TouchTypeOK
<1>1. TouchInv => TouchTypeOK
  BY DEF TouchInv
<1> QED
  BY <1>1, TouchInvariance, PTL

\* For any identifiers and entities, whatever comes from sensors and mouse and
\* in whatever order: the events of a touch that is down alone reach the entity
\* that it met first (FilterAndRouteEvent, _HandleTouchesCallback).
THEOREM TouchesReachTheirEntities == TouchSpec => []TouchReachesItsEntity
<1>1. TouchInv => TouchReachesItsEntity
  BY DEF TouchInv, OwnerInv, Answered, TouchReachesItsEntity
<1> QED
  BY <1>1, TouchInvariance, PTL

\* For any identifiers and entities, the event system's table of identifiers and
\* the touch manager's hold the same touches, but for the identifiers of events
\* that never had a touch (_eventIdMap, oidTouchMap).
THEOREM TablesOfTouchesAgree == TouchSpec => []AssociationsEnd
<1>1. TouchInv => AssociationsEnd
  BY DEF TouchInv, DownInv
<1> QED
  BY <1>1, TouchInvariance, PTL

-----------------------------------------------------------------------------
(* Boids.                                                                  *)

LEMMA WaitingIs ==
  ASSUME NEW S, NEW q \in Seq(S), NEW x
  PROVE  /\ IsFiniteSet({k \in DOMAIN q : q[k] = x})
         /\ Waiting(x, q) \in Nat
         /\ Waiting(x, q) = 0 <=> x \notin ToSet(q)
<1> DEFINE K == {k \in DOMAIN q : q[k] = x}
<1>1. IsFiniteSet(K)
  <2>1. DOMAIN q = 1..Len(q) /\ Len(q) \in Nat
    OBVIOUS
  <2>2. IsFiniteSet(1..Len(q))
    BY <2>1, FS_Interval
  <2> QED
    BY <2>1, <2>2, FS_Subset
<1>2. Cardinality(K) \in Nat /\ (Cardinality(K) = 0 <=> K = {})
  BY <1>1, FS_CardinalityType, FS_EmptySet
<1>3. K = {} <=> x \notin ToSet(q)
  BY DEF ToSet
<1> QED
  BY <1>1, <1>2, <1>3 DEF Waiting

LEMMA WaitingAppended ==
  ASSUME NEW S, NEW q \in Seq(S), NEW y \in S, NEW x
  PROVE  Waiting(x, Append(q, y)) = Waiting(x, q) + (IF x = y THEN 1 ELSE 0)
<1> DEFINE K == {k \in DOMAIN q : q[k] = x}
           a == Append(q, y)
           L == {k \in DOMAIN a : a[k] = x}
           n == Len(q) + 1
<1>1. /\ n \in Nat /\ DOMAIN q = 1..Len(q) /\ DOMAIN a = 1..n /\ a[n] = y
      /\ \A k \in 1..Len(q) : a[k] = q[k]
      /\ n \notin 1..Len(q) /\ 1..n = (1..Len(q)) \cup {n}
  OBVIOUS
<1> HIDE DEF a, n
<1>2. n \notin K /\ L = IF x = y THEN K \cup {n} ELSE K
  BY <1>1
<1>3. IsFiniteSet(K) /\ Cardinality(K) \in Nat
  BY WaitingIs DEF Waiting
<1> HIDE DEF K, L
<1>4. Cardinality(L) = Cardinality(K) + (IF x = y THEN 1 ELSE 0)
  <2>1. Cardinality(K \cup {n}) = Cardinality(K) + 1
    BY <1>2, <1>3, FS_AddElement
  <2> QED
    BY <1>2, <1>3, <2>1
<1> QED
  BY <1>4 DEF Waiting, K, L, a

LEMMA LastTakenOff ==
  ASSUME NEW S, NEW q \in Seq(S), q # <<>>
  PROVE  LET front == SubSeq(q, 1, Len(q) - 1) IN
         /\ front \in Seq(S) /\ q[Len(q)] \in S
         /\ q = Append(front, q[Len(q)])
<1> DEFINE front == SubSeq(q, 1, Len(q) - 1)
<1>1. Len(q) \in Nat \ {0} /\ q[Len(q)] \in S
  OBVIOUS
<1>2. front \in Seq(S) /\ Len(front) = Len(q) - 1 /\ \A k \in 1..(Len(q) - 1) : front[k] = q[k]
  <2>1. front \in Seq(S)
    BY <1>1
  <2>2. Len(front) = Len(q) - 1
    <3>1. \A n \in 0..Len(q) : Len(SubSeq(q, 1, n)) = n
      OBVIOUS
    <3>2. Len(q) - 1 \in 0..Len(q)
      BY <1>1
    <3> QED
      BY <3>1, <3>2, Zenon
  <2>3. \A k \in 1..(Len(q) - 1) : front[k] = q[k]
    BY <1>1
  <2> QED
    BY <2>1, <2>2, <2>3
<1> HIDE DEF front
<1> DEFINE a == Append(front, q[Len(q)])
<1>3. a \in Seq(S) /\ Len(a) = Len(q) /\ \A k \in 1..Len(q) : a[k] = q[k]
  BY <1>1, <1>2
<1> HIDE DEF a
<1>4. a = q
  BY <1>3
<1> QED
  BY <1>1, <1>2, <1>4 DEF front, a

SceneTypes ==
  /\ entityListInit \in Seq(Entities) /\ entityList \in [Entities -> Nat]
  /\ moving \in Entities \cup {NoEntity}
  /\ procMap \subseteq Items /\ gone \subseteq Items
  /\ present = procMap \cap Entities

\* What is last when it is taken off is what was read, or both are known to
\* have met an addition.
LastInv ==
  moving # NoEntity =>
    /\ entityListInit # <<>>
    /\ LET last == entityListInit[Len(entityListInit)] IN
       last = moving \/ {last, moving} \subseteq raced

SceneInv == SceneTypes /\ LastInv /\ BoidsFollowData

LEMMA CountIs ==
  ASSUME SceneTypes, NEW e \in Entities
  PROVE  /\ Count(e) = entityList[e] + Waiting(e, entityListInit)
         /\ Waiting(e, entityListInit) \in Nat /\ entityList[e] \in Nat
<1>1. Waiting(e, entityListInit) \in Nat
  BY WaitingIs DEF SceneTypes
<1> QED
  BY <1>1 DEF Count, Waiting, SceneTypes

LEMMA SceneStep == SceneInv /\ [Next]_vars => SceneInv'
<1> SUFFICES ASSUME SceneInv, [Next]_vars PROVE SceneInv'
  OBVIOUS
<1> USE WallAssumption DEF SceneInv
<1>1. ASSUME UNCHANGED sceneVars, UNCHANGED <<procMap, gone>> PROVE SceneInv'
  BY <1>1 DEF sceneVars, SceneTypes, LastInv, BoidsFollowData, Count
<1>2. ASSUME NEW x \in Items, NewBoids(x) PROVE SceneInv'
  <2>1. x \notin procMap /\ procMap' = procMap \cup {x} /\ gone' = gone
    BY <1>2 DEF NewBoids
  <2>2. CASE x \notin Entities
    <3>1. UNCHANGED sceneVars
      BY <1>2, <2>2 DEF NewBoids
    <3>2. SceneTypes'
      BY <2>1, <2>2, <3>1 DEF SceneTypes, sceneVars
    <3> QED
      BY <3>1, <3>2 DEF sceneVars, LastInv, BoidsFollowData, Count
  <2>3. CASE x \in Entities
    <3>1. AddEntity(x)
      BY <1>2, <2>3 DEF NewBoids
    <3>2. SceneTypes'
      BY <2>1, <2>3, <3>1 DEF AddEntity, SceneTypes
    <3>3. LastInv'
      <4>1. entityListInit' = Append(entityListInit, x) /\ moving' = moving
            /\ (moving # NoEntity => raced' = raced \cup {x, moving})
        BY <3>1 DEF AddEntity
      <4>2. entityListInit' # <<>> /\ entityListInit'[Len(entityListInit')] = x
        BY <2>3, <4>1 DEF SceneTypes
      <4> QED
        BY <4>1, <4>2 DEF LastInv
    <3>4. ASSUME NEW e \in Entities \ (raced' \cup overtaken')
          PROVE  Count(e)' = IF e \in present' THEN 1 ELSE 0
      <4>1. e \in Entities \ (raced \cup overtaken)
        BY <3>1, <3>4 DEF AddEntity
      <4>2. Count(e) = IF e \in present THEN 1 ELSE 0
        BY <4>1 DEF BoidsFollowData
      <4>3. Waiting(e, entityListInit)' = Waiting(e, entityListInit) + (IF e = x THEN 1 ELSE 0)
        <5>1. entityListInit' = Append(entityListInit, x) /\ entityListInit \in Seq(Entities)
          BY <3>1 DEF AddEntity, SceneTypes
        <5>2. Waiting(e, Append(entityListInit, x)) = Waiting(e, entityListInit) + (IF e = x THEN 1 ELSE 0)
          BY <2>3, <5>1, WaitingAppended
        <5> QED
          BY <5>1, <5>2 DEF Waiting
      <4>4. /\ Count(e) = entityList[e] + Waiting(e, entityListInit)
            /\ Waiting(e, entityListInit) \in Nat /\ entityList[e] \in Nat
        BY CountIs
      <4>5. Count(e)' = entityList'[e] + Waiting(e, entityListInit)'
        BY <3>2 DEF Count, Waiting
      <4>6. present' = present \cup {x} /\ x \notin present /\ entityList' = entityList
        BY <2>1, <3>1 DEF AddEntity, SceneTypes
      <4> QED
        BY <4>2, <4>3, <4>4, <4>5, <4>6
    <3> QED
      BY <3>2, <3>3, <3>4 DEF BoidsFollowData
  <2> QED
    BY <2>2, <2>3
<1>3. ASSUME NEW x \in Items, RemoveBoids(x) PROVE SceneInv'
  <2>1. x \in procMap /\ procMap' = procMap \ {x} /\ gone' = gone \cup {x}
    BY <1>3 DEF RemoveBoids
  <2>2. CASE x \notin Entities
    <3>1. UNCHANGED sceneVars
      BY <1>3, <2>2 DEF RemoveBoids
    <3>2. SceneTypes'
      BY <2>1, <2>2, <3>1 DEF SceneTypes, sceneVars
    <3> QED
      BY <3>1, <3>2 DEF sceneVars, LastInv, BoidsFollowData, Count
  <2>3. CASE x \in Entities
    <3>1. RemoveEntity(x)
      BY <1>3, <2>3 DEF RemoveBoids
    <3>2. PICK left \in 0..(entityList[x] \div 2) : entityList' = [entityList EXCEPT ![x] = left]
      BY <3>1 DEF RemoveEntity
    <3>3. /\ present' = present \ {x} /\ UNCHANGED <<entityListInit, moving, raced>>
          /\ overtaken' = IF entityList[x] = 0 THEN overtaken \cup {x} ELSE overtaken
      BY <3>1 DEF RemoveEntity
    <3>4. SceneTypes'
      BY <2>1, <2>3, <3>2, <3>3 DEF SceneTypes
    <3>5. LastInv'
      BY <3>3 DEF LastInv
    <3>6. ASSUME NEW e \in Entities \ (raced' \cup overtaken')
          PROVE  Count(e)' = IF e \in present' THEN 1 ELSE 0
      <4>1. e \in Entities \ (raced \cup overtaken)
        BY <3>3, <3>6
      <4>2. Count(e) = IF e \in present THEN 1 ELSE 0
        BY <4>1 DEF BoidsFollowData
      <4>3. /\ Count(e) = entityList[e] + Waiting(e, entityListInit)
            /\ Waiting(e, entityListInit) \in Nat /\ entityList[e] \in Nat
        BY CountIs
      <4>4. Count(e)' = entityList'[e] + Waiting(e, entityListInit)
        BY <3>3 DEF Count, Waiting
      <4>5. CASE e = x
        <5>1. entityList[e] # 0
          BY <3>3, <3>6, <4>5
        <5>2. entityList[e] = 1 /\ Waiting(e, entityListInit) = 0
          BY <4>2, <4>3, <5>1
        <5>3. entityList'[e] = 0
          BY <3>2, <4>5, <5>2 DEF SceneTypes
        <5> QED
          BY <3>3, <4>4, <4>5, <5>2, <5>3
      <4>6. CASE e # x
        BY <3>2, <3>3, <4>2, <4>3, <4>4, <4>6 DEF SceneTypes
      <4> QED
        BY <4>5, <4>6
    <3> QED
      BY <3>4, <3>5, <3>6 DEF BoidsFollowData
  <2> QED
    BY <2>2, <2>3
<1>4. ASSUME ReadBack, UNCHANGED handlerVars PROVE SceneInv'
  <2>1. SceneTypes'
    <3>1. entityListInit[Len(entityListInit)] \in Entities
      BY <1>4, LastTakenOff DEF ReadBack, SceneTypes
    <3> QED
      BY <1>4, <3>1 DEF ReadBack, SceneTypes, handlerVars
  <2>2. LastInv'
    BY <1>4 DEF ReadBack, LastInv
  <2> QED
    BY <1>4, <2>1, <2>2 DEF ReadBack, BoidsFollowData, Count
<1>5. ASSUME MoveBack, UNCHANGED handlerVars PROVE SceneInv'
  <2> DEFINE front == SubSeq(entityListInit, 1, Len(entityListInit) - 1)
             last == entityListInit[Len(entityListInit)]
  <2>1. /\ moving \in Entities /\ entityListInit' = front /\ moving' = NoEntity
        /\ entityList' = [entityList EXCEPT ![moving] = @ + 1]
        /\ UNCHANGED <<present, raced, overtaken, procMap, gone>>
    BY <1>5 DEF MoveBack, SceneTypes, handlerVars
  <2>2. entityListInit # <<>> /\ (last = moving \/ {last, moving} \subseteq raced)
    BY <1>5 DEF MoveBack, LastInv
  <2>3. front \in Seq(Entities) /\ last \in Entities /\ entityListInit = Append(front, last)
    BY <2>2, LastTakenOff DEF SceneTypes
  <2> HIDE DEF front, last
  <2>4. SceneTypes'
    BY <2>1, <2>3 DEF SceneTypes
  <2>5. LastInv'
    BY <2>1 DEF LastInv
  <2>6. ASSUME NEW e \in Entities \ (raced' \cup overtaken')
        PROVE  Count(e)' = IF e \in present' THEN 1 ELSE 0
    <3>1. Count(e) = IF e \in present THEN 1 ELSE 0
      BY <2>1, <2>6 DEF BoidsFollowData
    <3>2. /\ Count(e) = entityList[e] + Waiting(e, entityListInit)
          /\ Waiting(e, entityListInit) \in Nat /\ entityList[e] \in Nat
      BY CountIs
    <3>3. Count(e)' = entityList'[e] + Waiting(e, front)
      BY <2>1 DEF Count, Waiting
    <3>4. Waiting(e, front) \in Nat
      BY <2>3, WaitingIs
    <3>5. Waiting(e, entityListInit) = Waiting(e, front) + (IF e = last THEN 1 ELSE 0)
      BY <2>3, WaitingAppended, Zenon
    <3>6. e \notin raced
      BY <2>1, <2>6
    <3>7. e = last <=> e = moving
      BY <2>2, <3>6
    <3>8. entityList'[e] = entityList[e] + (IF e = moving THEN 1 ELSE 0)
      BY <2>1, <2>3 DEF SceneTypes
    <3> QED
      BY <2>1, <3>1, <3>2, <3>3, <3>4, <3>5, <3>7, <3>8
  <2> QED
    BY <2>4, <2>5, <2>6 DEF BoidsFollowData
<1>6. CASE UNCHANGED vars
  BY <1>1, <1>6 DEF vars, handlerVars
<1>7. CASE Update
  BY <1>1, <1>2, <1>3, <1>7 DEF Update, NewRow, RemoveRowOf
<1>8. CASE Render
  BY <1>1, <1>4, <1>5, <1>8 DEF Render, handlerVars, Moved
<1> QED
  BY <1>6, <1>7, <1>8 DEF Next

\* For any processes, every boid that was added is drawn, or waits to be,
\* exactly once until it is removed, and then not at all, although the handler's
\* thread and the render thread share its lists without a lock; but for the
\* exceptions that the property names (Scene::Run, AddEntity, RemoveEntity).
THEOREM BoidsFollow == Spec => []BoidsFollowData
<1>1. Init => SceneInv
  <2> SUFFICES ASSUME Init PROVE SceneInv
    OBVIOUS
  <2>1. SceneTypes /\ LastInv
    BY DEF Init, SceneInit, SceneTypes, LastInv
  <2>2. ASSUME NEW e \in Entities PROVE Count(e) = 0 /\ e \notin present
    <3>1. Waiting(e, entityListInit) = 0
      <4>1. entityListInit = <<>> /\ entityListInit \in Seq(Entities) /\ e \notin ToSet(<<>>)
        BY DEF Init, SceneInit, ToSet
      <4> QED
        BY <4>1, WaitingIs
    <3> QED
      BY <2>1, <3>1, CountIs DEF Init, SceneInit
  <2> QED
    BY <2>1, <2>2 DEF SceneInv, BoidsFollowData
<1>2. SceneInv => BoidsFollowData
  BY DEF SceneInv
<1> QED
  BY <1>1, <1>2, SceneStep, PTL DEF Spec

-----------------------------------------------------------------------------
(* Groups of rows, and what is done to them.                               *)

Groups == Seq(Items) \ {<<>>}

\* No row is twice in the groups.
OnceEach(groups) ==
  \A k, l \in DOMAIN groups : \A i \in DOMAIN groups[k], j \in DOMAIN groups[l] :
    groups[k][i] = groups[l][j] => k = l /\ i = j

LEMMA GroupsAre ==
  ASSUME NEW groups \in Seq(Groups)
  PROVE  /\ Len(groups) \in Nat /\ DOMAIN groups = 1..Len(groups)
         /\ \A k \in DOMAIN groups :
              /\ groups[k] \in Seq(Items) /\ groups[k] # <<>>
              /\ Len(groups[k]) \in Nat \ {0} /\ DOMAIN groups[k] = 1..Len(groups[k])
              /\ groups[k][1] \in Items /\ 1 \in DOMAIN groups[k]
              /\ \A j \in DOMAIN groups[k] : groups[k][j] \in Items
<1>1. Len(groups) \in Nat /\ DOMAIN groups = 1..Len(groups)
  OBVIOUS
<1>2. ASSUME NEW k \in DOMAIN groups
      PROVE  groups[k] \in Seq(Items) /\ groups[k] # <<>>
  BY DEF Groups
<1>3. ASSUME NEW g \in Seq(Items), g # <<>>
      PROVE  /\ Len(g) \in Nat \ {0} /\ DOMAIN g = 1..Len(g)
             /\ g[1] \in Items /\ 1 \in DOMAIN g /\ \A j \in DOMAIN g : g[j] \in Items
  BY <1>3
<1> QED
  BY <1>1, <1>2, <1>3

LEMMA RowsAre ==
  ASSUME NEW groups
  PROVE  \A x : x \in RowsIn(groups) <=>
           \E k \in DOMAIN groups : \E j \in DOMAIN groups[k] : groups[k][j] = x
BY DEF RowsIn, ToSet

LEMMA NoRowsNoGroups ==
  ASSUME NEW groups \in Seq(Groups)
  PROVE  /\ Len(groups) \in Nat
         /\ Len(groups) = 0 <=> groups = <<>>
         /\ RowsIn(groups) = {} <=> groups = <<>>
<1>1. Len(groups) \in Nat /\ (Len(groups) = 0 <=> groups = <<>>)
  OBVIOUS
<1>2. ASSUME groups = <<>> PROVE RowsIn(groups) = {}
  BY <1>2 DEF RowsIn
<1>3. ASSUME groups # <<>> PROVE RowsIn(groups) # {}
  <2>1. 1 \in DOMAIN groups
    BY <1>1, <1>3
  <2>2. 1 \in DOMAIN groups[1]
    BY <2>1, GroupsAre
  <2>3. groups[1][1] \in RowsIn(groups)
    BY <2>1, <2>2, RowsAre
  <2> QED
    BY <2>3
<1> QED
  BY <1>1, <1>2, <1>3

LEMMA OncePlace ==
  ASSUME NEW groups, OnceEach(groups),
         NEW k \in DOMAIN groups, NEW l \in DOMAIN groups,
         NEW i \in DOMAIN groups[k], NEW j \in DOMAIN groups[l], groups[k][i] = groups[l][j]
  PROVE  k = l /\ i = j
BY Zenon DEF OnceEach

LEMMA SmallestOfNat ==
  ASSUME NEW T, T \subseteq Nat, T # {}
  PROVE  \E x \in T : \A y \in T : x <= y
<1>1. IsWellFoundedOn(OpToRel(<, Nat), Nat)
  BY NatLessThanWellFounded
<1>2. PICK x \in T : \A y \in T : ~ (<<y, x>> \in OpToRel(<, Nat))
  BY <1>1, WFMin, Zenon
<1>3. \A y \in T : y \in Nat /\ x \in Nat /\ ~(y < x)
  BY <1>2 DEF OpToRel
<1>4. \A y \in T : x <= y
  BY <1>3
<1> QED
  BY <1>2, <1>4

\* A row joins a group that starts with its key, or makes one at the end if
\* there is none.
LEMMA Inserted ==
  ASSUME NEW groups \in Seq(Groups), NEW x \in Items
  PROVE  \/ \E k \in DOMAIN groups :
              /\ SameKey(groups[k][1], x)
              /\ Insert(groups, x) = [groups EXCEPT ![k] = Append(@, x)]
         \/ /\ \A k \in DOMAIN groups : ~SameKey(groups[k][1], x)
            /\ Insert(groups, x) = Append(groups, <<x>>)
<1> DEFINE T == {k \in DOMAIN groups : SameKey(groups[k][1], x)}
           F(k) == SameKey(groups[k][1], x) /\ \A j \in 1..(k - 1) : ~SameKey(groups[j][1], x)
<1>1. CASE T = {}
  BY <1>1 DEF Insert
<1>2. CASE T # {}
  <2>1. T \subseteq Nat /\ DOMAIN groups = 1..Len(groups) /\ Len(groups) \in Nat
    OBVIOUS
  <2>2. PICK k \in T : \A y \in T : k <= y
    BY <1>2, <2>1, SmallestOfNat, Zenon
  <2>3. \A j \in 1..(k - 1) : j \in DOMAIN groups /\ ~(k <= j)
    BY <2>1, <2>2
  <2>4. k \in DOMAIN groups /\ F(k)
    BY <2>2, <2>3
  <2> DEFINE c == CHOOSE c \in DOMAIN groups : F(c)
  <2>5. c \in DOMAIN groups /\ SameKey(groups[c][1], x)
    BY <2>4
  <2>6. Insert(groups, x) = [groups EXCEPT ![c] = Append(@, x)]
    BY <1>2, Zenon DEF Insert
  <2> HIDE DEF c
  <2> QED
    BY <2>5, <2>6
<1> QED
  BY <1>1, <1>2

\* Rows are neither lost nor doubled by an insertion, and those that are there
\* keep their places.
LEMMA InsertKeeps ==
  ASSUME NEW groups \in Seq(Groups), NEW x \in Items
  PROVE  LET grown == Insert(groups, x) IN
         /\ grown \in Seq(Groups)
         /\ RowsIn(grown) = RowsIn(groups) \cup {x}
         /\ OnceEach(groups) /\ x \notin RowsIn(groups) => OnceEach(grown)
         /\ \A k \in DOMAIN groups : k \in DOMAIN grown /\ \A j \in DOMAIN groups[k] :
              j \in DOMAIN grown[k] /\ grown[k][j] = groups[k][j]
<1> DEFINE grown == Insert(groups, x)
<1>1. /\ Len(groups) \in Nat /\ DOMAIN groups = 1..Len(groups)
      /\ \A k \in DOMAIN groups :
           /\ groups[k] \in Seq(Items) /\ groups[k] # <<>>
           /\ Len(groups[k]) \in Nat \ {0} /\ DOMAIN groups[k] = 1..Len(groups[k])
  BY GroupsAre
<1>2. ASSUME NEW k \in DOMAIN groups, grown = [groups EXCEPT ![k] = Append(@, x)]
      PROVE  /\ grown \in Seq(Groups) /\ DOMAIN grown = DOMAIN groups
             /\ DOMAIN grown[k] = 1..(Len(groups[k]) + 1)
             /\ grown[k][Len(groups[k]) + 1] = x
             /\ \A j \in DOMAIN groups[k] : grown[k][j] = groups[k][j]
             /\ \A l \in DOMAIN groups \ {k} : grown[l] = groups[l]
  <2> HIDE DEF grown
  <2> DEFINE a == Append(groups[k], x)
  <2>1. /\ a \in Groups /\ DOMAIN a = 1..(Len(groups[k]) + 1) /\ a[Len(groups[k]) + 1] = x
        /\ \A j \in DOMAIN groups[k] : a[j] = groups[k][j]
    <3>1. groups[k] \in Seq(Items) /\ DOMAIN groups[k] = 1..Len(groups[k]) /\ Len(groups[k]) \in Nat
      BY <1>1
    <3>2. /\ a \in Seq(Items) /\ Len(a) = Len(groups[k]) + 1 /\ a[Len(groups[k]) + 1] = x
          /\ \A j \in 1..Len(groups[k]) : a[j] = groups[k][j]
      BY <3>1, AppendProperties
    <3> HIDE DEF a
    <3>3. a # <<>> /\ DOMAIN a = 1..(Len(groups[k]) + 1)
      BY <3>1, <3>2
    <3> QED
      BY <3>1, <3>2, <3>3 DEF Groups
  <2> HIDE DEF a
  <2>2. grown = [groups EXCEPT ![k] = a]
    BY <1>2 DEF a
  <2>3. grown \in Seq(Groups) /\ DOMAIN grown = DOMAIN groups
    BY <1>1, <2>1, <2>2
  <2>4. grown[k] = a /\ \A l \in DOMAIN groups \ {k} : grown[l] = groups[l]
    BY <2>2
  <2> QED
    BY <2>1, <2>3, <2>4
<1>3. ASSUME grown = Append(groups, <<x>>)
      PROVE  /\ grown \in Seq(Groups) /\ DOMAIN grown = 1..(Len(groups) + 1)
             /\ grown[Len(groups) + 1] = <<x>>
             /\ \A l \in DOMAIN groups : grown[l] = groups[l]
  <2>1. <<x>> \in Groups
    BY DEF Groups
  <2> HIDE DEF grown
  <2> QED
    BY <1>1, <1>3, <2>1
<1>4. CASE \E k \in DOMAIN groups : grown = [groups EXCEPT ![k] = Append(@, x)]
  <2>1. PICK k \in DOMAIN groups : grown = [groups EXCEPT ![k] = Append(@, x)]
    BY <1>4
  <2> HIDE DEF grown
  <2> DEFINE n == Len(groups[k]) + 1
  <2>2. /\ grown \in Seq(Groups) /\ DOMAIN grown = DOMAIN groups
        /\ DOMAIN grown[k] = 1..n /\ grown[k][n] = x
        /\ \A j \in DOMAIN groups[k] : grown[k][j] = groups[k][j]
        /\ \A l \in DOMAIN groups \ {k} : grown[l] = groups[l]
    BY <1>2, <2>1
  <2>3. 1..n = DOMAIN groups[k] \cup {n} /\ n \notin DOMAIN groups[k]
    BY <1>1
  <2> HIDE DEF n
  <2>4. ASSUME NEW l \in DOMAIN groups, NEW j \in DOMAIN groups[l]
        PROVE  j \in DOMAIN grown[l] /\ grown[l][j] = groups[l][j]
    BY <2>2, <2>3
  <2>5. ASSUME NEW l \in DOMAIN grown, NEW j \in DOMAIN grown[l]
        PROVE  \/ j \in DOMAIN groups[l] /\ grown[l][j] = groups[l][j]
               \/ l = k /\ j = n /\ grown[l][j] = x
    BY <2>2, <2>3
  <2>6. RowsIn(grown) = RowsIn(groups) \cup {x}
    <3>1. \A y \in RowsIn(grown) : y \in RowsIn(groups) \cup {x}
      BY <2>2, <2>5, RowsAre
    <3>2. \A y \in RowsIn(groups) : y \in RowsIn(grown)
      BY <2>2, <2>4, RowsAre
    <3>3. x \in RowsIn(grown)
      BY <2>2, <2>3, RowsAre
    <3> QED
      BY <3>1, <3>2, <3>3
  <2>7. ASSUME OnceEach(groups), x \notin RowsIn(groups) PROVE OnceEach(grown)
    <3> SUFFICES ASSUME NEW l \in DOMAIN grown, NEW m \in DOMAIN grown,
                        NEW i \in DOMAIN grown[l], NEW j \in DOMAIN grown[m],
                        grown[l][i] = grown[m][j]
                 PROVE  l = m /\ i = j
      BY DEF OnceEach
    <3>1. \A p \in DOMAIN groups : \A q \in DOMAIN groups[p] : groups[p][q] # x
      BY <2>7, RowsAre
    <3>2. CASE i \in DOMAIN groups[l] /\ grown[l][i] = groups[l][i]
      <4>1. l \in DOMAIN groups /\ m \in DOMAIN groups /\ grown[m][j] # x
        BY <2>2, <3>1, <3>2
      <4>2. j \in DOMAIN groups[m] /\ grown[m][j] = groups[m][j]
        BY <2>5, <4>1
      <4>3. groups[l][i] = groups[m][j]
        BY <3>2, <4>2
      <4> QED
        BY <2>7, <3>2, <4>1, <4>2, <4>3, OncePlace
    <3>3. CASE l = k /\ i = n /\ grown[l][i] = x
      <4>1. m = k /\ j = n
        BY <2>2, <2>5, <3>1, <3>3, ZenonT(30)
      <4> QED
        BY <3>3, <4>1
    <3> QED
      BY <2>5, <3>2, <3>3
  <2> QED
    BY <2>2, <2>4, <2>6, <2>7 DEF grown
<1>5. CASE grown = Append(groups, <<x>>)
  <2> HIDE DEF grown
  <2> DEFINE n == Len(groups) + 1
  <2>1. /\ grown \in Seq(Groups) /\ DOMAIN grown = 1..n /\ grown[n] = <<x>>
        /\ \A l \in DOMAIN groups : grown[l] = groups[l]
    BY <1>3, <1>5
  <2>2. 1..n = DOMAIN groups \cup {n} /\ n \notin DOMAIN groups
    BY <1>1
  <2>3. DOMAIN <<x>> = {1} /\ <<x>>[1] = x
    OBVIOUS
  <2> HIDE DEF n
  <2>4. ASSUME NEW l \in DOMAIN grown, NEW j \in DOMAIN grown[l]
        PROVE  \/ l \in DOMAIN groups /\ j \in DOMAIN groups[l] /\ grown[l][j] = groups[l][j]
               \/ l = n /\ j = 1 /\ grown[l][j] = x
    BY <2>1, <2>2, <2>3
  <2>5. RowsIn(grown) = RowsIn(groups) \cup {x}
    <3>1. \A y \in RowsIn(grown) : y \in RowsIn(groups) \cup {x}
      BY <2>4, RowsAre
    <3>2. \A y \in RowsIn(groups) : y \in RowsIn(grown)
      BY <2>1, <2>2, RowsAre
    <3>3. x \in RowsIn(grown)
      BY <2>1, <2>2, <2>3, RowsAre
    <3> QED
      BY <3>1, <3>2, <3>3
  <2>6. ASSUME OnceEach(groups), x \notin RowsIn(groups) PROVE OnceEach(grown)
    <3> SUFFICES ASSUME NEW l \in DOMAIN grown, NEW m \in DOMAIN grown,
                        NEW i \in DOMAIN grown[l], NEW j \in DOMAIN grown[m],
                        grown[l][i] = grown[m][j]
                 PROVE  l = m /\ i = j
      BY DEF OnceEach
    <3>1. \A p \in DOMAIN groups : \A q \in DOMAIN groups[p] : groups[p][q] # x
      BY <2>6, RowsAre
    <3>2. CASE l \in DOMAIN groups /\ i \in DOMAIN groups[l] /\ grown[l][i] = groups[l][i]
      <4>1. m \in DOMAIN groups /\ j \in DOMAIN groups[m] /\ grown[m][j] = groups[m][j]
        BY <2>4, <3>1, <3>2
      <4>2. groups[l][i] = groups[m][j]
        BY <3>2, <4>1
      <4> QED
        BY <2>6, <3>2, <4>1, <4>2, OncePlace
    <3>3. CASE l = n /\ i = 1 /\ grown[l][i] = x
      <4>1. m = n /\ j = 1
        BY <2>4, <3>1, <3>3
      <4> QED
        BY <3>3, <4>1
    <3> QED
      BY <2>4, <3>2, <3>3
  <2>7. \A l \in DOMAIN groups : l \in DOMAIN grown /\ grown[l] = groups[l]
    BY <2>1, <2>2
  <2> QED
    BY <2>1, <2>5, <2>6, <2>7 DEF grown
<1> QED
  BY <1>4, <1>5, Inserted, Zenon

\* Erasing a row takes nothing else out, and the group only when it was its
\* last.
LEMMA EraseKeeps ==
  ASSUME items \in Seq(Groups), OnceEach(items),
         NEW k \in DOMAIN items, NEW j \in DOMAIN items[k], EraseRow(k, j)
  PROVE  /\ items' \in Seq(Groups) /\ OnceEach(items')
         /\ RowsIn(items') = RowsIn(items) \ {items[k][j]}
         /\ \A l \in DOMAIN items' : \E m \in DOMAIN items : ToSet(items'[l]) \subseteq ToSet(items[m])
         /\ \/ /\ Len(items') = Len(items) - 1 /\ (shifted' <=> (shifted \/ k <= selected))
               /\ \A l \in 1..(k - 1) : items'[l] = items[l]
            \/ /\ Len(items') = Len(items) /\ (shifted' <=> shifted)
               /\ \A l \in DOMAIN items : ToSet(items'[l]) \subseteq ToSet(items[l])
<1> DEFINE x == items[k][j]
<1>1. /\ Len(items) \in Nat /\ DOMAIN items = 1..Len(items)
      /\ \A l \in DOMAIN items :
           /\ items[l] \in Seq(Items) /\ items[l] # <<>>
           /\ Len(items[l]) \in Nat \ {0} /\ DOMAIN items[l] = 1..Len(items[l])
  BY GroupsAre
<1>2. \A l \in DOMAIN items : \A i \in DOMAIN items[l] : items[l][i] = x => l = k /\ i = j
  BY OncePlace
<1> HIDE DEF x
<1>3. CASE Len(items[k]) = 1
  <2>1. items' = RemoveAt(items, k) /\ (shifted' <=> (shifted \/ k <= selected))
    BY <1>3, Zenon DEF EraseRow
  <2>2. k \in 1..Len(items)
    BY <1>1
  <2>3. /\ RemoveAt(items, k) \in Seq(Groups) /\ Len(RemoveAt(items, k)) = Len(items) - 1
        /\ \A l \in 1..(Len(items) - 1) :
             RemoveAt(items, k)[l] = IF l < k THEN items[l] ELSE items[l + 1]
    BY <2>2, Erased, Zenon
  <2>4. /\ items' \in Seq(Groups) /\ Len(items') = Len(items) - 1
        /\ \A l \in 1..(Len(items) - 1) : items'[l] = IF l < k THEN items[l] ELSE items[l + 1]
    BY <2>1, <2>3
  <2>5. DOMAIN items' = 1..(Len(items) - 1)
    BY <2>4
  <2> DEFINE p(l) == IF l < k THEN l ELSE l + 1
  <2>6. \A l \in DOMAIN items' : p(l) \in DOMAIN items /\ p(l) # k /\ items'[l] = items[p(l)]
    BY <1>1, <2>4, <2>5
  <2>7. \A l, m \in DOMAIN items' : p(l) = p(m) => l = m
    BY <1>1, <2>5
  <2>8. \A m \in DOMAIN items \ {k} : \E l \in DOMAIN items' : p(l) = m
    <3> SUFFICES ASSUME NEW m \in DOMAIN items \ {k} PROVE \E l \in DOMAIN items' : p(l) = m
      OBVIOUS
    <3>1. (IF m < k THEN m ELSE m - 1) \in DOMAIN items' /\ p(IF m < k THEN m ELSE m - 1) = m
      BY <1>1, <2>2, <2>5
    <3> QED
      BY <3>1
  <2> HIDE DEF p
  <2>9. OnceEach(items')
    <3> SUFFICES ASSUME NEW l \in DOMAIN items', NEW m \in DOMAIN items',
                        NEW a \in DOMAIN items'[l], NEW b \in DOMAIN items'[m],
                        items'[l][a] = items'[m][b]
                 PROVE  l = m /\ a = b
      BY DEF OnceEach
    <3>1. /\ p(l) \in DOMAIN items /\ p(m) \in DOMAIN items
          /\ a \in DOMAIN items[p(l)] /\ b \in DOMAIN items[p(m)]
          /\ items[p(l)][a] = items[p(m)][b]
      BY <2>6
    <3>2. p(l) = p(m) /\ a = b
      BY <3>1, OncePlace
    <3> QED
      BY <2>7, <3>2
  <2>10. RowsIn(items') = RowsIn(items) \ {x}
    <3>1. ASSUME NEW y \in RowsIn(items') PROVE y \in RowsIn(items) \ {x}
      <4>1. PICK l \in DOMAIN items' : \E a \in DOMAIN items'[l] : items'[l][a] = y
        BY <3>1, RowsAre
      <4>2. PICK a \in DOMAIN items'[l] : items'[l][a] = y
        BY <4>1
      <4>3. p(l) \in DOMAIN items /\ p(l) # k /\ a \in DOMAIN items[p(l)] /\ items[p(l)][a] = y
        BY <2>6, <4>2
      <4> QED
        BY <1>2, <4>3, RowsAre
    <3>2. ASSUME NEW y \in RowsIn(items), y # x PROVE y \in RowsIn(items')
      <4>1. PICK m \in DOMAIN items : \E a \in DOMAIN items[m] : items[m][a] = y
        BY <3>2, RowsAre
      <4>2. PICK a \in DOMAIN items[m] : items[m][a] = y
        BY <4>1
      <4>3. m # k
        <5>1. DOMAIN items[k] = {1}
          BY <1>1, <1>3
        <5> QED
          BY <3>2, <4>2, <5>1 DEF x
      <4>4. PICK l \in DOMAIN items' : p(l) = m
        BY <2>8, <4>3
      <4>5. a \in DOMAIN items'[l] /\ items'[l][a] = y
        BY <2>6, <4>2, <4>4
      <4> QED
        BY <4>5, RowsAre
    <3> QED
      BY <3>1, <3>2
  <2>11. \A l \in 1..(k - 1) : items'[l] = items[l]
    <3> SUFFICES ASSUME NEW l \in 1..(k - 1) PROVE items'[l] = items[l]
      OBVIOUS
    <3>1. l \in 1..(Len(items) - 1) /\ l < k
      BY <1>1, <2>2
    <3> QED
      BY <2>4, <3>1
  <2>12. \A l \in DOMAIN items' : \E m \in DOMAIN items : ToSet(items'[l]) \subseteq ToSet(items[m])
    BY <2>6
  <2> QED
    BY <2>1, <2>4, <2>9, <2>10, <2>11, <2>12 DEF x
<1>4. CASE Len(items[k]) # 1
  <2> DEFINE r == RemoveAt(items[k], j)
  <2>1. items' = [items EXCEPT ![k] = r] /\ (shifted' <=> shifted)
    BY <1>4 DEF EraseRow
  <2>2. \A a, b \in DOMAIN items[k] : items[k][a] = items[k][b] => a = b
    BY OncePlace
  <2>3. /\ r \in Seq(Items) /\ Len(r) = Len(items[k]) - 1
        /\ \A a, b \in DOMAIN r : r[a] = r[b] => a = b
        /\ ToSet(r) = ToSet(items[k]) \ {x}
    <3>1. items[k] \in Seq(Items)
      BY <1>1
    <3> QED
      BY <2>2, <3>1, RemovedOne DEF x
  <2> HIDE DEF r
  <2>4. r \in Groups
    BY <1>1, <1>4, <2>3, SMTT(20) DEF Groups
  <2>5. /\ items' \in Seq(Groups) /\ DOMAIN items' = DOMAIN items /\ Len(items') = Len(items)
        /\ items'[k] = r /\ \A l \in DOMAIN items \ {k} : items'[l] = items[l]
    BY <2>1, <2>4
  <2>6. \A l \in DOMAIN items : ToSet(items'[l]) \subseteq ToSet(items[l])
    BY <2>3, <2>5
  <2>7. \A l \in DOMAIN items : ToSet(items'[l]) = ToSet(items[l]) \ {x}
    <3>1. ASSUME NEW l \in DOMAIN items \ {k} PROVE x \notin ToSet(items[l])
      BY <1>2 DEF ToSet
    <3> QED
      BY <2>3, <2>5, <3>1
  <2>8. RowsIn(items') = RowsIn(items) \ {x}
    BY <2>5, <2>7 DEF RowsIn
  <2>9. OnceEach(items')
    <3> SUFFICES ASSUME NEW l \in DOMAIN items', NEW m \in DOMAIN items',
                        NEW a \in DOMAIN items'[l], NEW b \in DOMAIN items'[m],
                        items'[l][a] = items'[m][b]
                 PROVE  l = m /\ a = b
      BY DEF OnceEach
    <3>1. l \in DOMAIN items /\ m \in DOMAIN items
      BY <2>5
    <3>2. items'[l][a] \in ToSet(items[l]) /\ items'[l][a] \in ToSet(items[m])
      <4>1. items'[l][a] \in ToSet(items'[l]) /\ items'[m][b] \in ToSet(items'[m])
        BY DEF ToSet
      <4> QED
        BY <2>6, <3>1, <4>1
    <3>3. PICK c \in DOMAIN items[l] : items[l][c] = items'[l][a]
      BY <3>2 DEF ToSet
    <3>4. PICK d \in DOMAIN items[m] : items[m][d] = items'[l][a]
      BY <3>2 DEF ToSet
    <3>5. l = m
      BY <3>1, <3>3, <3>4, OncePlace
    <3>6. CASE l = k
      BY <2>3, <2>5, <3>5, <3>6
    <3>7. CASE l # k
      <4>1. items'[l] = items[l]
        BY <2>5, <3>1, <3>7
      <4> QED
        BY <3>1, <3>5, <4>1, OncePlace
    <3> QED
      BY <3>5, <3>6, <3>7
  <2>10. \A l \in DOMAIN items' : \E m \in DOMAIN items : ToSet(items'[l]) \subseteq ToSet(items[m])
    BY <2>5, <2>6
  <2> QED
    BY <2>1, <2>5, <2>6, <2>8, <2>9, <2>10 DEF x
<1> QED
  BY <1>3, <1>4

\* A sort puts the groups in another order.
LEMMA OrderIs ==
  ASSUME NEW groups \in Seq(Groups), NEW order \in Orders(groups)
  PROVE  /\ order \in Seq(Groups) /\ DOMAIN order = DOMAIN groups /\ Len(order) = Len(groups)
         /\ \E f \in [DOMAIN groups -> DOMAIN groups] :
              /\ \A k \in DOMAIN groups : order[k] = groups[f[k]]
              /\ \A k, l \in DOMAIN groups : f[k] = f[l] => k = l
              /\ \A l \in DOMAIN groups : \E k \in DOMAIN groups : f[k] = l
<1> DEFINE D == DOMAIN groups
<1>1. D = 1..Len(groups) /\ Len(groups) \in Nat /\ \A k \in D : groups[k] \in Groups
  OBVIOUS
<1>2. PICK f \in Bijection(D, D) : order = [k \in D |-> groups[f[k]]]
  BY Zenon DEF Orders
<1>3. f \in [D -> D] /\ \A w \in D : \E v \in D : f[v] = w
  BY <1>2 DEF Bijection, Surjection
<1>5. \A k, l \in D : f[k] = f[l] => k = l
  BY <1>2 DEF Bijection, Injection, IsInjective
<1>6. \A k \in D : order[k] = groups[f[k]] /\ order[k] \in Groups
  BY <1>1, <1>2, <1>3
<1>7. order \in Seq(Groups) /\ DOMAIN order = D /\ Len(order) = Len(groups)
  <2>1. order = [k \in 1..Len(groups) |-> order[k]]
    BY <1>1, <1>2
  <2> QED
    BY <1>1, <1>6, <2>1
<1> QED
  BY <1>3, <1>5, <1>6, <1>7

LEMMA OrderKeeps ==
  ASSUME NEW groups \in Seq(Groups), NEW order \in Orders(groups)
  PROVE  /\ RowsIn(order) = RowsIn(groups)
         /\ OnceEach(groups) => OnceEach(order)
<1>1. DOMAIN order = DOMAIN groups
  BY OrderIs
<1>2. PICK f \in [DOMAIN groups -> DOMAIN groups] :
        /\ \A k \in DOMAIN groups : order[k] = groups[f[k]]
        /\ \A k, l \in DOMAIN groups : f[k] = f[l] => k = l
        /\ \A l \in DOMAIN groups : \E k \in DOMAIN groups : f[k] = l
  BY OrderIs
<1>3. RowsIn(order) = RowsIn(groups)
  <2>1. ASSUME NEW x \in RowsIn(order) PROVE x \in RowsIn(groups)
    BY <1>1, <1>2, <2>1 DEF RowsIn
  <2>2. ASSUME NEW x \in RowsIn(groups) PROVE x \in RowsIn(order)
    BY <1>1, <1>2, <2>2 DEF RowsIn
  <2> QED
    BY <2>1, <2>2
<1>4. ASSUME OnceEach(groups) PROVE OnceEach(order)
  <2> SUFFICES ASSUME NEW l \in DOMAIN order, NEW m \in DOMAIN order,
                      NEW a \in DOMAIN order[l], NEW b \in DOMAIN order[m],
                      order[l][a] = order[m][b]
               PROVE  l = m /\ a = b
    BY DEF OnceEach
  <2>1. /\ f[l] \in DOMAIN groups /\ f[m] \in DOMAIN groups
        /\ a \in DOMAIN groups[f[l]] /\ b \in DOMAIN groups[f[m]]
        /\ groups[f[l]][a] = groups[f[m]][b]
    BY <1>1, <1>2
  <2>2. f[l] = f[m] /\ a = b
    BY <1>4, <2>1, OncePlace
  <2> QED
    BY <1>1, <1>2, <2>2
<1> QED
  BY <1>3, <1>4

-----------------------------------------------------------------------------
(* Rows follow the processes.                                              *)

Unrepeated(q) == \A k, l \in DOMAIN q : q[k] = q[l] => k = l

LEMMA QueueAppended ==
  ASSUME NEW S, NEW q \in Seq(S), NEW x \in S
  PROVE  /\ Append(q, x) \in Seq(S) /\ ToSet(Append(q, x)) = ToSet(q) \cup {x}
         /\ Unrepeated(q) /\ x \notin ToSet(q) => Unrepeated(Append(q, x))
<1> DEFINE a == Append(q, x)
<1>1. /\ a \in Seq(S) /\ DOMAIN a = 1..(Len(q) + 1) /\ a[Len(q) + 1] = x
      /\ \A k \in 1..Len(q) : a[k] = q[k]
  BY AppendProperties
<1>2. DOMAIN q = 1..Len(q) /\ Len(q) \in Nat
  OBVIOUS
<1>3. 1..(Len(q) + 1) = DOMAIN q \cup {Len(q) + 1} /\ Len(q) + 1 \notin DOMAIN q
  BY <1>2
<1> HIDE DEF a
<1>4. ToSet(a) = ToSet(q) \cup {x}
  BY <1>1, <1>2, <1>3 DEF ToSet
<1>5. ASSUME Unrepeated(q), x \notin ToSet(q) PROVE Unrepeated(a)
  <2> SUFFICES ASSUME NEW k \in DOMAIN a, NEW l \in DOMAIN a, a[k] = a[l] PROVE k = l
    BY DEF Unrepeated
  <2>1. \A i \in DOMAIN q : q[i] # x
    BY <1>5 DEF ToSet
  <2> QED
    BY <1>1, <1>2, <1>3, <1>5, <2>1 DEF Unrepeated
<1> QED
  BY <1>1, <1>4, <1>5 DEF a

LEMMA QueueTaken ==
  ASSUME NEW S, NEW q \in Seq(S), q # <<>>, Unrepeated(q)
  PROVE  /\ Head(q) \in S /\ Head(q) \in ToSet(q)
         /\ Tail(q) \in Seq(S) /\ Unrepeated(Tail(q))
         /\ ToSet(Tail(q)) = ToSet(q) \ {Head(q)}
<1> DEFINE t == Tail(q)
<1>1. /\ Head(q) = q[1] /\ t \in Seq(S) /\ Len(t) = Len(q) - 1
      /\ \A k \in 1..(Len(q) - 1) : t[k] = q[k + 1]
  OBVIOUS
<1>2. DOMAIN q = 1..Len(q) /\ Len(q) \in Nat \ {0} /\ DOMAIN t = 1..(Len(q) - 1)
  BY <1>1
<1> HIDE DEF t
<1>3. \A k \in DOMAIN t : k + 1 \in DOMAIN q /\ k + 1 # 1 /\ t[k] = q[k + 1]
  BY <1>1, <1>2
<1>4. \A k \in DOMAIN q \ {1} : k - 1 \in DOMAIN t /\ t[k - 1] = q[k]
  BY <1>1, <1>2
<1>5. 1 \in DOMAIN q /\ q[1] \in S
  BY <1>2
<1>6. Unrepeated(t)
  <2> SUFFICES ASSUME NEW k \in DOMAIN t, NEW l \in DOMAIN t, t[k] = t[l] PROVE k = l
    BY DEF Unrepeated
  <2>1. k + 1 = l + 1
    BY <1>3 DEF Unrepeated
  <2> QED
    BY <1>2, <2>1
<1>7. ToSet(t) = ToSet(q) \ {q[1]}
  <2>1. ASSUME NEW x \in ToSet(t) PROVE x \in ToSet(q) /\ x # q[1]
    <3>1. PICK k \in DOMAIN t : t[k] = x
      BY <2>1 DEF ToSet
    <3>2. k + 1 \in DOMAIN q /\ q[k + 1] = x /\ k + 1 # 1
      BY <1>3, <3>1
    <3> QED
      BY <1>5, <3>2 DEF ToSet, Unrepeated
  <2>2. ASSUME NEW x \in ToSet(q), x # q[1] PROVE x \in ToSet(t)
    <3>1. PICK k \in DOMAIN q : q[k] = x
      BY <2>2 DEF ToSet
    <3>2. k - 1 \in DOMAIN t /\ t[k - 1] = x
      BY <1>4, <2>2, <3>1
    <3> QED
      BY <3>2 DEF ToSet
  <2> QED
    BY <2>1, <2>2
<1> QED
  BY <1>1, <1>5, <1>6, <1>7 DEF t, ToSet

TableTypes ==
  /\ items \in Seq(Groups) /\ addQueue \in Seq(Items) /\ removeQueue \in Seq(Items)
  /\ procMap \subseteq Items /\ gone \subseteq Items /\ procMap \cap gone = {}
  /\ handling \in procMap \cup gone \cup {NoEntity}

\* The processes that are to have a row.
Expected ==
  {x \in procMap : x # handling} \cup
  {x \in gone : x = handling \/ x \in ToSet(removeQueue) \/ x \in orphans}

QueuesInv ==
  /\ Unrepeated(addQueue) /\ Unrepeated(removeQueue)
  /\ \A x \in ToSet(removeQueue) : x \in gone /\ x # handling /\ x \notin orphans
  /\ orphans \subseteq gone /\ handling \notin orphans

RowsInv ==
  /\ OnceEach(items)
  /\ RowsIn(items) \cap ToSet(addQueue) = {}
  /\ RowsIn(items) \cup ToSet(addQueue) = Expected

TableInv == TableTypes /\ QueuesInv /\ RowsInv

LEMMA RowsKept ==
  ASSUME TableInv, UNCHANGED <<procMap, gone, handling, addQueue, removeQueue, orphans>>,
         items' \in Seq(Groups), OnceEach(items'), RowsIn(items') = RowsIn(items)
  PROVE  TableInv'
<1>1. TableTypes' /\ QueuesInv'
  BY DEF TableInv, TableTypes, QueuesInv, Unrepeated, ToSet
<1>2. Expected' = Expected /\ ToSet(addQueue)' = ToSet(addQueue)
  BY DEF Expected, ToSet
<1>3. OnceEach(items)' /\ RowsIn(items)' = RowsIn(items)
  BY DEF OnceEach, RowsIn, ToSet
<1>4. RowsInv'
  BY <1>2, <1>3 DEF TableInv, RowsInv
<1> QED
  BY <1>1, <1>4 DEF TableInv

LEMMA RowsSame ==
  ASSUME TableInv, UNCHANGED <<procMap, gone, handling, addQueue, removeQueue, orphans, items>>
  PROVE  TableInv'
BY DEF TableInv, TableTypes, QueuesInv, Unrepeated, RowsInv, Expected, OnceEach, RowsIn, ToSet

LEMMA SortKeepsRows ==
  ASSUME items \in Seq(Groups), Sort
  PROVE  /\ items' \in Seq(Groups) /\ RowsIn(items') = RowsIn(items)
         /\ OnceEach(items) => OnceEach(items')
<1>1. items' = items \/ items' \in Orders(items)
  BY DEF Sort
<1>2. CASE items' = items
  BY <1>2
<1>3. CASE items' \in Orders(items)
  BY <1>3, OrderIs, OrderKeeps
<1> QED
  BY <1>1, <1>2, <1>3

LEMMA UpdateKeeps ==
  ASSUME TableInv, Update
  PROVE  TableInv'
<1> USE WallAssumption DEF TableInv, TableTypes, QueuesInv, RowsInv
<1>1. ASSUME NEW x \in Items, NewBoids(x) PROVE TableInv'
  <2>1. /\ handling = NoEntity /\ handling' = x /\ x \notin procMap \cup gone
        /\ procMap' = procMap \cup {x} /\ gone' = gone
        /\ UNCHANGED <<items, addQueue, removeQueue, orphans>>
    BY <1>1 DEF NewBoids, tableVars, topVars, topQueues, tableHistory
  <2>2. TableTypes'
    BY <2>1
  <2>3. ToSet(removeQueue)' = ToSet(removeQueue) /\ ToSet(addQueue)' = ToSet(addQueue)
    BY <2>1 DEF ToSet
  <2>4. QueuesInv'
    BY <2>1, <2>3 DEF Unrepeated
  <2>5. Expected' = Expected
    BY <2>1, <2>3 DEF Expected
  <2>6. OnceEach(items)' /\ RowsIn(items)' = RowsIn(items)
    BY <2>1 DEF OnceEach, RowsIn, ToSet
  <2> QED
    BY <2>2, <2>3, <2>4, <2>5, <2>6
<1>2. ASSUME NewRow PROVE TableInv'
  <2>1. /\ handling \in procMap /\ handling' = NoEntity /\ handling \in Items
        /\ addQueue' = Append(addQueue, handling)
        /\ UNCHANGED <<procMap, gone, items, removeQueue, orphans>>
    BY <1>2 DEF NewRow, PushAdd, topVars, tableHistory
  <2>2. handling \notin Expected /\ handling \notin ToSet(addQueue)
    <3>1. handling \notin Expected
      BY <2>1 DEF Expected
    <3> QED
      BY <3>1
  <2>3. ToSet(removeQueue)' = ToSet(removeQueue)
    BY <2>1 DEF ToSet
  <2>4. /\ addQueue' \in Seq(Items) /\ ToSet(addQueue)' = ToSet(addQueue) \cup {handling}
        /\ Unrepeated(addQueue)'
    <3>1. addQueue \in Seq(Items) /\ handling \in Items /\ handling \notin ToSet(addQueue)
          /\ Unrepeated(addQueue)
      BY <2>1, <2>2
    <3>2. /\ Append(addQueue, handling) \in Seq(Items)
          /\ ToSet(Append(addQueue, handling)) = ToSet(addQueue) \cup {handling}
          /\ Unrepeated(Append(addQueue, handling))
      BY <3>1, QueueAppended, Zenon
    <3>3. addQueue' = Append(addQueue, handling)
      BY <2>1
    <3>4. ToSet(addQueue)' = ToSet(addQueue')
      BY DEF ToSet
    <3>5. Unrepeated(addQueue)' <=> Unrepeated(addQueue')
      BY Zenon DEF Unrepeated
    <3> QED
      BY <3>2, <3>3, <3>4, <3>5, Zenon
  <2>5. TableTypes'
    BY <2>1, <2>4
  <2>6. QueuesInv'
    BY <2>1, <2>3, <2>4 DEF Unrepeated
  <2>7. Expected' = Expected \cup {handling}
    BY <2>1, <2>3 DEF Expected
  <2>8. OnceEach(items)' /\ RowsIn(items)' = RowsIn(items)
    BY <2>1 DEF OnceEach, RowsIn, ToSet
  <2>9. RowsInv'
    BY <2>2, <2>4, <2>7, <2>8
  <2> QED
    BY <2>5, <2>6, <2>9
<1>3. ASSUME NEW x \in Items, RemoveBoids(x) PROVE TableInv'
  <2>1. /\ handling = NoEntity /\ handling' = x /\ x \in procMap
        /\ procMap' = procMap \ {x} /\ gone' = gone \cup {x}
        /\ UNCHANGED <<items, addQueue, removeQueue, orphans>>
    BY <1>3 DEF RemoveBoids, tableVars, topVars, topQueues, tableHistory
  <2>2. TableTypes'
    BY <2>1
  <2>3. ToSet(removeQueue)' = ToSet(removeQueue) /\ ToSet(addQueue)' = ToSet(addQueue)
    BY <2>1 DEF ToSet
  <2>4. QueuesInv'
    BY <2>1, <2>3 DEF Unrepeated
  <2>5. Expected' = Expected
    BY <2>1, <2>3 DEF Expected
  <2>6. OnceEach(items)' /\ RowsIn(items)' = RowsIn(items)
    BY <2>1 DEF OnceEach, RowsIn, ToSet
  <2> QED
    BY <2>2, <2>3, <2>4, <2>5, <2>6
<1>4. ASSUME RemoveRowOf PROVE TableInv'
  <2>1. /\ handling \in gone /\ handling' = NoEntity /\ handling \in Items
        /\ removeQueue' = Append(removeQueue, handling)
        /\ UNCHANGED <<procMap, gone, items, addQueue, orphans>>
    BY <1>4 DEF RemoveRowOf, PushRemove, topVars, tableHistory
  <2>2. handling \notin ToSet(removeQueue)
    OBVIOUS
  <2>3. ToSet(addQueue)' = ToSet(addQueue)
    BY <2>1 DEF ToSet
  <2>4. /\ removeQueue' \in Seq(Items) /\ ToSet(removeQueue)' = ToSet(removeQueue) \cup {handling}
        /\ Unrepeated(removeQueue)'
    <3>1. removeQueue \in Seq(Items) /\ handling \in Items /\ handling \notin ToSet(removeQueue)
          /\ Unrepeated(removeQueue)
      BY <2>1, <2>2
    <3>2. /\ Append(removeQueue, handling) \in Seq(Items)
          /\ ToSet(Append(removeQueue, handling)) = ToSet(removeQueue) \cup {handling}
          /\ Unrepeated(Append(removeQueue, handling))
      BY <3>1, QueueAppended, Zenon
    <3>3. removeQueue' = Append(removeQueue, handling)
      BY <2>1
    <3>4. ToSet(removeQueue)' = ToSet(removeQueue')
      BY DEF ToSet
    <3>5. Unrepeated(removeQueue)' <=> Unrepeated(removeQueue')
      BY Zenon DEF Unrepeated
    <3> QED
      BY <3>2, <3>3, <3>4, <3>5, Zenon
  <2>5. TableTypes'
    BY <2>1, <2>4
  <2>6. QueuesInv'
    BY <2>1, <2>3, <2>4 DEF Unrepeated
  <2>7. Expected' = Expected
    BY <2>1, <2>4 DEF Expected
  <2>8. OnceEach(items)' /\ RowsIn(items)' = RowsIn(items)
    BY <2>1 DEF OnceEach, RowsIn, ToSet
  <2>9. RowsInv'
    BY <2>3, <2>7, <2>8
  <2> QED
    BY <2>5, <2>6, <2>9
<1> QED
  BY <1>1, <1>2, <1>3, <1>4 DEF Update

LEMMA FoundIs ==
  ASSUME NEW x
  PROVE  /\ \A p \in Found(x) : /\ p = <<p[1], p[2]>> /\ p[1] \in DOMAIN items
                                /\ p[2] \in DOMAIN items[p[1]] /\ items[p[1]][p[2]] = x
         /\ \A k \in DOMAIN items : \A j \in DOMAIN items[k] :
              items[k][j] = x => <<k, j>> \in Found(x)
<1>1. \A p \in RowPlaces : /\ p = <<p[1], p[2]>> /\ p[1] \in DOMAIN items
                           /\ p[2] \in DOMAIN items[p[1]]
  BY DEF RowPlaces
<1>2. \A k \in DOMAIN items : \A j \in DOMAIN items[k] : <<k, j>> \in RowPlaces
  BY DEF RowPlaces
<1> QED
  BY <1>1, <1>2 DEF Found

LEMMA RemoveKeeps ==
  ASSUME TableInv, TopRemove, UNCHANGED handlerVars
  PROVE  TableInv'
<1> DEFINE x == Head(removeQueue)
<1> USE DEF TableInv, TableTypes, QueuesInv, RowsInv
<1>1. /\ removeQueue # <<>> /\ removeQueue' = Tail(removeQueue)
      /\ IF Found(x) = {} THEN UNCHANGED <<items, shifted>>
                          ELSE \E p \in Found(x) : EraseRow(p[1], p[2])
      /\ orphans' = IF x \in ToSet(addQueue) THEN orphans \cup {x} ELSE orphans
      /\ UNCHANGED <<procMap, gone, handling, addQueue>>
  BY DEF TopRemove, handlerVars
<1>2. /\ x \in Items /\ x \in ToSet(removeQueue)
      /\ removeQueue' \in Seq(Items) /\ Unrepeated(removeQueue')
      /\ ToSet(removeQueue') = ToSet(removeQueue) \ {x}
  BY <1>1, QueueTaken, Zenon
<1> HIDE DEF x
<1>3. ToSet(addQueue)' = ToSet(addQueue) /\ ToSet(removeQueue)' = ToSet(removeQueue) \ {x}
      /\ Unrepeated(removeQueue)'
  <2>1. ToSet(addQueue)' = ToSet(addQueue)
    BY <1>1 DEF ToSet
  <2>2. ToSet(removeQueue)' = ToSet(removeQueue')
    BY DEF ToSet
  <2>3. Unrepeated(removeQueue)'
    BY <1>2, Zenon DEF Unrepeated
  <2> QED
    BY <1>2, <2>1, <2>2, <2>3
<1>4. x \in gone /\ x # handling /\ x \notin orphans /\ x \in Expected
  BY <1>2 DEF Expected
<1>5. /\ items' \in Seq(Groups) /\ OnceEach(items')
      /\ RowsIn(items') = RowsIn(items) \ {x}
  <2>1. Found(x) = {} <=> x \notin RowsIn(items)
    <3>1. ASSUME NEW p \in Found(x) PROVE x \in RowsIn(items)
      <4>1. p[1] \in DOMAIN items /\ p[2] \in DOMAIN items[p[1]] /\ items[p[1]][p[2]] = x
        BY <3>1, FoundIs
      <4> QED
        BY <4>1, RowsAre, Zenon
    <3>2. ASSUME x \in RowsIn(items) PROVE Found(x) # {}
      <4>1. PICK k \in DOMAIN items : \E j \in DOMAIN items[k] : items[k][j] = x
        BY <3>2, RowsAre, Zenon
      <4>2. PICK j \in DOMAIN items[k] : items[k][j] = x
        BY <4>1
      <4>3. <<k, j>> \in Found(x)
        BY <4>2, FoundIs
      <4> QED
        BY <4>3
    <3> QED
      BY <3>1, <3>2
  <2>2. CASE Found(x) = {}
    BY <1>1, <2>1, <2>2
  <2>3. CASE Found(x) # {}
    <3>1. PICK p \in Found(x) : EraseRow(p[1], p[2])
      BY <1>1, <2>3
    <3>2. p[1] \in DOMAIN items /\ p[2] \in DOMAIN items[p[1]] /\ items[p[1]][p[2]] = x
      BY <3>1, FoundIs
    <3>3. /\ items' \in Seq(Groups) /\ OnceEach(items')
          /\ RowsIn(items') = RowsIn(items) \ {items[p[1]][p[2]]}
      BY <3>1, <3>2, EraseKeeps
    <3> QED
      BY <3>2, <3>3
  <2> QED
    BY <2>2, <2>3
<1>6. OnceEach(items)' /\ RowsIn(items)' = RowsIn(items) \ {x}
  BY <1>5 DEF OnceEach, RowsIn, ToSet
<1>7. TableTypes'
  BY <1>1, <1>2, <1>5
<1>8. QueuesInv'
  BY <1>1, <1>3, <1>4 DEF Unrepeated
<1>9. Expected' = IF x \in ToSet(addQueue) THEN Expected ELSE Expected \ {x}
  BY <1>1, <1>3, <1>4 DEF Expected
<1>10. RowsInv'
  BY <1>3, <1>4, <1>6, <1>9
<1> QED
  BY <1>7, <1>8, <1>10

LEMMA AddKeeps ==
  ASSUME TableInv, TopAdd, UNCHANGED handlerVars
  PROVE  TableInv'
<1> DEFINE x == Head(addQueue)
<1> USE DEF TableInv, TableTypes, QueuesInv, RowsInv
<1>1. /\ addQueue # <<>> /\ addQueue' = Tail(addQueue) /\ items' = Insert(items, x)
      /\ UNCHANGED <<procMap, gone, handling, removeQueue, orphans>>
  BY DEF TopAdd, handlerVars, tableHistory
<1>2. /\ x \in Items /\ x \in ToSet(addQueue)
      /\ addQueue' \in Seq(Items) /\ Unrepeated(addQueue')
      /\ ToSet(addQueue') = ToSet(addQueue) \ {x}
  BY <1>1, QueueTaken, Zenon
<1> HIDE DEF x
<1>3. ToSet(removeQueue)' = ToSet(removeQueue) /\ ToSet(addQueue)' = ToSet(addQueue) \ {x}
      /\ Unrepeated(addQueue)'
  <2>1. ToSet(removeQueue)' = ToSet(removeQueue)
    BY <1>1 DEF ToSet
  <2>2. ToSet(addQueue)' = ToSet(addQueue')
    BY DEF ToSet
  <2>3. Unrepeated(addQueue)'
    BY <1>2, Zenon DEF Unrepeated
  <2> QED
    BY <1>2, <2>1, <2>2, <2>3
<1>4. x \notin RowsIn(items)
  BY <1>2
<1>5. /\ items' \in Seq(Groups) /\ OnceEach(items') /\ RowsIn(items') = RowsIn(items) \cup {x}
  BY <1>1, <1>2, <1>4, InsertKeeps
<1>6. OnceEach(items)' /\ RowsIn(items)' = RowsIn(items) \cup {x}
  BY <1>5 DEF OnceEach, RowsIn, ToSet
<1>7. TableTypes'
  BY <1>1, <1>2, <1>5
<1>8. QueuesInv'
  BY <1>1, <1>3 DEF Unrepeated
<1>9. Expected' = Expected
  BY <1>1, <1>3 DEF Expected
<1>10. RowsInv'
  BY <1>2, <1>3, <1>6, <1>9
<1> QED
  BY <1>7, <1>8, <1>10

LEMMA TableStep == TableInv /\ [Next]_vars => TableInv'
<1> SUFFICES ASSUME TableInv, [Next]_vars PROVE TableInv'
  OBVIOUS
<1> DEFINE same == UNCHANGED <<procMap, gone, handling, addQueue, removeQueue, orphans>>
<1>1. ASSUME same, UNCHANGED items PROVE TableInv'
  BY <1>1, RowsSame
<1>2. ASSUME same, Sort PROVE TableInv'
  <2>1. items' \in Seq(Groups) /\ RowsIn(items') = RowsIn(items) /\ OnceEach(items')
    BY <1>2, SortKeepsRows DEF TableInv, TableTypes, RowsInv
  <2> QED
    BY <1>2, <2>1, RowsKept
<1>3. CASE UNCHANGED vars
  BY <1>1, <1>3 DEF vars, handlerVars, tableVars, topVars, topQueues, tableHistory
<1>4. CASE Update
  BY <1>4, UpdateKeeps
<1>5. CASE UNCHANGED handlerVars /\ (ReadBack \/ MoveBack) /\ UNCHANGED tableVars
  BY <1>1, <1>5 DEF handlerVars, tableVars, topVars, topQueues, tableHistory
<1>6. CASE UNCHANGED handlerVars /\ (StartTables \/ Gesture)
  BY <1>1, <1>6 DEF handlerVars, topVars, topQueues, tableHistory, StartTables, Gesture,
     Tap, Swipe, Send
<1>7. CASE UNCHANGED handlerVars /\ OnLoop
  <2>1. ASSUME NEW m \in net, TopTapBeyond(m) \/ TopTap(m) \/ SubTap(m)
                              \/ SubGestureBeyond(m) \/ SubSwipe(m)
        PROVE  TableInv'
    BY <1>1, <1>7, <2>1 DEF handlerVars, topVars, topQueues, tableHistory, TopTapBeyond, TopTap,
       SubTap, SubGestureBeyond, SubSwipe
  <2>2. ASSUME NEW m \in net, TopSwipe(m) PROVE TableInv'
    BY <1>2, <1>7, <2>2 DEF handlerVars, topQueues, TopSwipe
  <2>3. CASE TopStartupSort
    BY <1>2, <1>7, <2>3 DEF handlerVars, topQueues, TopStartupSort
  <2>4. CASE TopGoesOn \/ SubRest
    BY <1>1, <1>7, <2>4 DEF handlerVars, topVars, topQueues, tableHistory, TopGoesOn, SubRest
  <2> QED
    BY <1>7, <2>1, <2>2, <2>3, <2>4, RemoveKeeps, AddKeeps DEF OnLoop
<1> QED
  BY <1>3, <1>4, <1>5, <1>6, <1>7 DEF Next, Render

LEMMA InTableIs ==
  ASSUME items \in Seq(Groups), OnceEach(items), NEW x
  PROVE  InTable(x) = IF x \in RowsIn(items) THEN 1 ELSE 0
<1>1. InTable(x) = Cardinality(Found(x))
  BY DEF InTable, Found
<1>2. CASE x \in RowsIn(items)
  <2>1. PICK k \in DOMAIN items : \E j \in DOMAIN items[k] : items[k][j] = x
    BY <1>2, RowsAre, Zenon
  <2>2. PICK j \in DOMAIN items[k] : items[k][j] = x
    BY <2>1
  <2>3. <<k, j>> \in Found(x)
    BY <2>2, FoundIs
  <2>4. ASSUME NEW p \in Found(x) PROVE p = <<k, j>>
    <3>1. /\ p = <<p[1], p[2]>> /\ p[1] \in DOMAIN items /\ p[2] \in DOMAIN items[p[1]]
          /\ items[p[1]][p[2]] = x
      BY <2>4, FoundIs
    <3>2. p[1] = k /\ p[2] = j
      BY <2>2, <3>1, OncePlace
    <3> QED
      BY <3>1, <3>2, Zenon
  <2>5. Found(x) = {<<k, j>>}
    BY <2>3, <2>4
  <2>6. Cardinality({<<k, j>>}) = 1
    BY FS_Singleton, Zenon
  <2> QED
    BY <1>1, <1>2, <2>5, <2>6
<1>3. CASE x \notin RowsIn(items)
  <2>1. ASSUME NEW p \in Found(x) PROVE FALSE
    <3>1. p[1] \in DOMAIN items /\ p[2] \in DOMAIN items[p[1]] /\ items[p[1]][p[2]] = x
      BY <2>1, FoundIs
    <3> QED
      BY <1>3, <3>1, RowsAre, Zenon
  <2>2. Found(x) = {}
    BY <2>1
  <2> QED
    BY <1>1, <1>3, <2>2, FS_EmptySet
<1> QED
  BY <1>2, <1>3

LEMMA WaitingOnce ==
  ASSUME NEW q, Unrepeated(q), NEW x
  PROVE  Waiting(x, q) = IF x \in ToSet(q) THEN 1 ELSE 0
<1> DEFINE K == {k \in DOMAIN q : q[k] = x}
<1>1. CASE x \in ToSet(q)
  <2>1. PICK k \in DOMAIN q : q[k] = x
    BY <1>1 DEF ToSet
  <2>2. K = {k}
    BY <2>1 DEF Unrepeated
  <2> QED
    BY <1>1, <2>2, FS_Singleton DEF Waiting
<1>2. CASE x \notin ToSet(q)
  <2>1. K = {}
    BY <1>2 DEF ToSet
  <2> QED
    BY <1>2, <2>1, FS_EmptySet DEF Waiting
<1> QED
  BY <1>1, <1>2

LEMMA TableInitially == Init => TableInv
<1> SUFFICES ASSUME Init PROVE TableInv
  OBVIOUS
<1>1. /\ items = <<>> /\ addQueue = <<>> /\ removeQueue = <<>> /\ orphans = {}
      /\ procMap = {} /\ gone = {} /\ handling = NoEntity
  BY DEF Init, TableInit
<1>2. DOMAIN items = {} /\ ToSet(addQueue) = {} /\ ToSet(removeQueue) = {}
      /\ DOMAIN addQueue = {} /\ DOMAIN removeQueue = {}
  BY <1>1 DEF ToSet
<1> QED
  BY <1>1, <1>2 DEF TableInv, TableTypes, QueuesInv, Unrepeated, RowsInv, OnceEach, RowsIn, Expected

\* For any processes and names, a process that was reported is in the top
\* table, or on its way there, in exactly one row until its removal has been
\* dealt with, and then in none, through taps, sorts and early returns; but for
\* those whose removal came first (Data::Update against Table::OnLoop).
THEOREM RowsFollow == Spec => []TableFollowsData
<1>2. ASSUME TableInv PROVE TableFollowsData
  <2> USE <1>2 DEF TableInv, TableTypes, QueuesInv, RowsInv
  <2> SUFFICES ASSUME NEW x \in Items
               PROVE  InTable(x) + Waiting(x, addQueue) =
                        IF \/ x \in procMap /\ x # handling
                           \/ x \in gone /\ (x = handling \/ Waiting(x, removeQueue) > 0 \/ x \in orphans)
                          THEN 1 ELSE 0
    BY DEF TableFollowsData
  <2>1. InTable(x) = IF x \in RowsIn(items) THEN 1 ELSE 0
    BY InTableIs
  <2>2. Waiting(x, addQueue) = IF x \in ToSet(addQueue) THEN 1 ELSE 0
    BY WaitingOnce
  <2>3. Waiting(x, removeQueue) = IF x \in ToSet(removeQueue) THEN 1 ELSE 0
    BY WaitingOnce
  <2>4. Waiting(x, removeQueue) > 0 <=> x \in ToSet(removeQueue)
    BY <2>3
  <2>5. InTable(x) + Waiting(x, addQueue) = IF x \in Expected THEN 1 ELSE 0
    BY <2>1, <2>2
  <2> QED
    BY <2>4, <2>5 DEF Expected
<1> QED
  BY <1>2, TableInitially, TableStep, PTL DEF Spec

-----------------------------------------------------------------------------
(* The additions to the sub-table, one after the other.                    *)

LEMMA FromZeroUp ==
  ASSUME NEW S, 0 \in S, \A n \in Nat : n \in S => n + 1 \in S
  PROVE  Nat \subseteq S
<1> DEFINE T == Nat \ S
<1> SUFFICES ASSUME T # {} PROVE FALSE
  OBVIOUS
<1>1. PICK x \in T : \A y \in T : x <= y
  BY SmallestOfNat, Zenon
<1>2. x # 0 /\ x \in Nat
  BY <1>1
<1>3. x - 1 \in Nat /\ ~(x <= x - 1)
  BY <1>2
<1>4. x - 1 \in S
  BY <1>1, <1>3
<1> QED
  BY <1>1, <1>3, <1>4

LEMMA LargestOfSome ==
  ASSUME NEW n \in Nat, NEW T, T \subseteq 1..n, T # {}
  PROVE  Max(T) \in T /\ \A x \in T : x <= Max(T)
<1> DEFINE U == {n - x : x \in T}
<1>1. U \subseteq Nat /\ U # {} /\ T \subseteq Nat
  OBVIOUS
<1>2. PICK u \in U : \A v \in U : u <= v
  <2> HIDE DEF U
  <2> QED
    BY <1>1, SmallestOfNat, Zenon
<1>3. PICK x \in T : u = n - x
  OBVIOUS
<1>4. \A y \in T : x >= y
  <2> SUFFICES ASSUME NEW y \in T PROVE x >= y
    OBVIOUS
  <2>1. u <= n - y
    BY <1>2
  <2> QED
    BY <1>1, <1>3, <2>1
<1>5. Max(T) \in T /\ \A y \in T : Max(T) >= y
  BY <1>3, <1>4 DEF Max
<1> QED
  BY <1>1, <1>5

IsFold(g, D, V, base, pick, step) ==
  /\ g \in [SUBSET D -> V]
  /\ \A s \in SUBSET D : g[s] = IF s = {} THEN base ELSE step[<<s, g[s \ {pick[s]}]>>]

\* A fold over a finite set is defined: there is a function that gives every
\* subset the value that the recursion asks for.
LEMMA FoldExists ==
  ASSUME NEW D, IsFiniteSet(D), NEW V, NEW base \in V, NEW pick,
         \A s \in SUBSET D : s # {} => pick[s] \in s,
         NEW step \in [(SUBSET D) \X V -> V]
  PROVE  \E g : IsFold(g, D, V, base, pick, step)
<1> DEFINE Small(n) == {s \in SUBSET D : Cardinality(s) <= n}
           Value(g, s) == IF s = {} THEN base ELSE step[<<s, g[s \ {pick[s]}]>>]
           Defined(n) == \E g \in [Small(n) -> V] : \A s \in Small(n) : g[s] = Value(g, s)
           S == {n \in Nat : Defined(n)}
<1>1. \A s \in SUBSET D : IsFiniteSet(s) /\ Cardinality(s) \in Nat /\ Cardinality(s) <= Cardinality(D)
  BY FS_Subset, FS_CardinalityType
<1>2. \A s \in SUBSET D : s # {} => /\ s \ {pick[s]} \in SUBSET D
                                   /\ Cardinality(s \ {pick[s]}) = Cardinality(s) - 1
  BY <1>1, FS_RemoveElement
<1>3. 0 \in S
  <2>1. Small(0) = {{}}
    BY <1>1, FS_EmptySet
  <2>2. [s \in {{}} |-> base] \in [{{}} -> V]
    OBVIOUS
  <2>3. \A s \in {{}} : [t \in {{}} |-> base][s] = Value([t \in {{}} |-> base], s)
    OBVIOUS
  <2> HIDE DEF Small, Value
  <2>4. Defined(0)
    BY <2>1, <2>2, <2>3
  <2> QED
    BY <2>4
<1>4. ASSUME NEW n \in Nat, n \in S
      PROVE  n + 1 \in S
  <2>1. PICK g \in [Small(n) -> V] : \A s \in Small(n) : g[s] = Value(g, s)
    BY <1>4
  <2>2. Small(n) \subseteq Small(n + 1)
    BY <1>1
  <2>3. \A s \in Small(n + 1) : s # {} => s \ {pick[s]} \in Small(n)
    BY <1>1, <1>2
  <2> DEFINE h == [s \in Small(n + 1) |-> Value(g, s)]
  <2>4. \A s \in Small(n + 1) : Value(g, s) \in V /\ s \in SUBSET D
    BY <2>3
  <2>5. h \in [Small(n + 1) -> V]
    BY <2>4
  <2>6. \A s \in Small(n) : h[s] = g[s]
    BY <2>1, <2>2
  <2>7. \A s \in Small(n + 1) : h[s] = Value(h, s)
    <3>1. \A s \in Small(n + 1) : h[s] = Value(g, s)
      OBVIOUS
    <3> HIDE DEF h, Small
    <3> QED
      BY <2>3, <2>6, <3>1
  <2> HIDE DEF h, Small, Value
  <2> QED
    BY <2>5, <2>7
<1> DEFINE N == Cardinality(D)
<1>5. N \in Nat /\ Small(N) = SUBSET D
  BY <1>1
<1>6. Defined(N)
  <2> HIDE DEF S, N
  <2>1. Nat \subseteq S
    BY <1>3, <1>4, FromZeroUp
  <2>2. N \in S
    BY <1>5, <2>1
  <2> QED
    BY <2>2 DEF S
<1>7. PICK g \in [SUBSET D -> V] : \A s \in SUBSET D : g[s] = Value(g, s)
  <2> HIDE DEF Small, N, Value
  <2> QED
    BY <1>5, <1>6
<1> QED
  BY <1>7 DEF IsFold

LEMMA InsertIsGroups ==
  ASSUME NEW groups \in Seq(Groups), NEW x \in Items
  PROVE  Insert(groups, x) \in Seq(Groups)
BY InsertKeeps

\* The groups after each addition.
LEMMA AddedOneByOne ==
  ASSUME NEW base \in Seq(Groups), NEW queue \in Seq(Items)
  PROVE  \E after :
           /\ after[0] = base /\ FoldLeft(Insert, base, queue) = after[Len(queue)]
           /\ \A j \in 1..Len(queue) : after[j] = Insert(after[j - 1], queue[j])
<1> DEFINE N == Len(queue)
           D == 1..N
           V == Seq(Groups)
           Value(g, s) == IF s = {} THEN base
                          ELSE LET x == Max(s) IN Insert(g[s \ {x}], queue[x])
           pick == [s \in SUBSET D |-> Max(s)]
           step == [a \in (SUBSET D) \X V |->
                      IF a[1] = {} THEN base ELSE Insert(a[2], queue[pick[a[1]]])]
           f == CHOOSE g : g = [s \in SUBSET D |-> Value(g, s)]
<1>1. N \in Nat /\ IsFiniteSet(D) /\ DOMAIN queue = D /\ \A j \in D : queue[j] \in Items
  BY FS_Interval
<1>2. \A s \in SUBSET D : s # {} => Max(s) \in s /\ \A x \in s : x <= Max(s)
  BY <1>1, LargestOfSome
<1>3. \A s \in SUBSET D : s # {} => pick[s] \in s
  BY <1>2
<1> HIDE DEF V
<1>4. step \in [(SUBSET D) \X V -> V]
  <2>1. ASSUME NEW a \in (SUBSET D) \X V
        PROVE  (IF a[1] = {} THEN base ELSE Insert(a[2], queue[pick[a[1]]])) \in V
    <3> HIDE DEF pick, D
    <3>1. a[1] \in SUBSET D /\ a[2] \in V
      OBVIOUS
    <3>2. a[1] # {} => queue[pick[a[1]]] \in Items
      BY <1>1, <1>3, <3>1
    <3>3. a[1] # {} => Insert(a[2], queue[pick[a[1]]]) \in V
      BY <3>1, <3>2, InsertIsGroups DEF V
    <3> QED
      BY <3>3 DEF V
  <2> HIDE DEF pick, D
  <2> QED
    BY <2>1
<1>5. PICK g \in [SUBSET D -> V] :
        \A s \in SUBSET D : g[s] = IF s = {} THEN base ELSE step[<<s, g[s \ {pick[s]}]>>]
  <2>1. base \in V
    BY DEF V
  <2> HIDE DEF pick, step, D
  <2>2. \E g : IsFold(g, D, V, base, pick, step)
    BY <1>1, <1>3, <1>4, <2>1, FoldExists
  <2> QED
    BY <2>2 DEF IsFold
<1>6. \A s \in SUBSET D : g[s] = Value(g, s)
  <2> SUFFICES ASSUME NEW s \in SUBSET D PROVE g[s] = Value(g, s)
    OBVIOUS
  <2>1. CASE s # {}
    <3>1. <<s, g[s \ {pick[s]}]>> \in (SUBSET D) \X V
      <4> HIDE DEF pick, step, D
      <4> QED
        OBVIOUS
    <3>2. step[<<s, g[s \ {pick[s]}]>>] = Insert(g[s \ {pick[s]}], queue[pick[s]])
      <4> HIDE DEF pick, D
      <4> QED
        BY <2>1, <3>1
    <3>3. pick[s] = Max(s)
      OBVIOUS
    <3> HIDE DEF pick, step, D
    <3> QED
      BY <1>5, <2>1, <3>2, <3>3
  <2> QED
    BY <1>5, <2>1
<1>7. g = [s \in SUBSET D |-> Value(g, s)]
  <2> HIDE DEF Value, D
  <2> QED
    BY <1>5, <1>6
<1>8. f = [s \in SUBSET D |-> Value(f, s)]
  BY <1>7, Zenon
<1>9. FoldLeft(Insert, base, queue) = f[D]
  <2>1. FoldLeft(Insert, base, queue) =
          LET h[s \in SUBSET (DOMAIN queue)] ==
                IF s = {} THEN base ELSE LET x == Max(s) IN Insert(h[s \ {x}], queue[x])
          IN  h[DOMAIN queue]
    BY Zenon DEF FoldLeft, MapThenFoldSet
  <2>2. FoldLeft(Insert, base, queue) =
          (CHOOSE h : h = [s \in SUBSET (DOMAIN queue) |-> Value(h, s)])[DOMAIN queue]
    BY <2>1, Zenon
  <2> QED
    BY <1>1, <2>2, Zenon
<1> HIDE DEF f
<1>10. \A s \in SUBSET D : f[s] = Value(f, s)
  BY <1>8
<1> DEFINE after == [j \in 0..N |-> f[1..j]]
<1>11. after[0] = base
  <2>1. 1..0 = {} /\ {} \in SUBSET D /\ 0 \in 0..N
    BY <1>1
  <2>2. f[{}] = base
    BY <1>10, <2>1
  <2> QED
    BY <2>1, <2>2
<1>12. FoldLeft(Insert, base, queue) = after[N]
  BY <1>1, <1>9
<1>13. ASSUME NEW j \in D
       PROVE  after[j] = Insert(after[j - 1], queue[j])
  <2>1. /\ j \in Nat /\ j \in 0..N /\ j - 1 \in 0..N /\ 1..j \in SUBSET D /\ 1..j # {}
        /\ (1..j) \ {j} = 1..(j - 1) /\ j \in 1..j
    <3>1. N \in Int /\ j \in Int /\ 1 <= j /\ j <= N
      <4> HIDE DEF N
      <4> QED
        BY <1>1
    <3> HIDE DEF N
    <3>2. j \in Nat /\ j \in 0..N /\ j - 1 \in 0..N /\ j \in 1..j
      BY <3>1
    <3>3. 1..j \in SUBSET D
      BY <3>1
    <3>4. (1..j) \ {j} = 1..(j - 1)
      BY <3>1
    <3> QED
      BY <3>2, <3>3, <3>4
  <2>2. Max(1..j) = j
    <3>1. Max(1..j) \in 1..j /\ j <= Max(1..j)
      BY <1>2, <2>1
    <3> QED
      BY <2>1, <3>1
  <2>3. f[1..j] = Insert(f[(1..j) \ {j}], queue[j])
    <3> HIDE DEF D
    <3> QED
      BY <1>10, <2>1, <2>2
  <2> HIDE DEF D, N
  <2> QED
    BY <2>1, <2>3
<1> HIDE DEF after
<1> QED
  BY <1>11, <1>12, <1>13

\* The keys of all rows are the same, and none has been put in lower case.
OneKey(rows) == lowered = {} /\ \A x, y \in rows : KeyOf[x] = KeyOf[y]

\* Additions lose no row and keep the places of those that are there; if all
\* rows have one key they are in one group.
LEMMA AddsKeep ==
  ASSUME NEW base \in Seq(Groups), NEW queue \in Seq(Items)
  PROVE  LET grown == FoldLeft(Insert, base, queue) IN
         /\ grown \in Seq(Groups)
         /\ RowsIn(grown) = RowsIn(base) \cup ToSet(queue)
         /\ \A k \in DOMAIN base : k \in DOMAIN grown /\ \A j \in DOMAIN base[k] :
              j \in DOMAIN grown[k] /\ grown[k][j] = base[k][j]
         /\ Len(base) <= 1 /\ OneKey(RowsIn(base) \cup ToSet(queue)) => Len(grown) <= 1
<1> DEFINE So(j) == {queue[i] : i \in 1..j}
           Kept(g) == \A k \in DOMAIN base : k \in DOMAIN g /\ \A j \in DOMAIN base[k] :
                        j \in DOMAIN g[k] /\ g[k][j] = base[k][j]
           one == Len(base) <= 1 /\ OneKey(RowsIn(base) \cup ToSet(queue))
           Good(g, j) == /\ g \in Seq(Groups) /\ RowsIn(g) = RowsIn(base) \cup So(j)
                         /\ Kept(g) /\ (one => Len(g) <= 1)
<1>1. Len(queue) \in Nat /\ \A i \in 1..Len(queue) : queue[i] \in Items
  OBVIOUS
<1>2. PICK after : /\ after[0] = base /\ FoldLeft(Insert, base, queue) = after[Len(queue)]
                   /\ \A j \in 1..Len(queue) : after[j] = Insert(after[j - 1], queue[j])
  BY AddedOneByOne
<1> DEFINE S == {j \in Nat : j <= Len(queue) => Good(after[j], j)}
<1>3. 0 \in S
  <2>1. So(0) = {}
    OBVIOUS
  <2>2. Good(base, 0)
    <3> HIDE DEF So, one
    <3>1. one => Len(base) <= 1
      BY DEF one
    <3> QED
      BY <2>1, <3>1
  <2> HIDE DEF Good
  <2> QED
    BY <1>2, <2>2
<1>4. ASSUME NEW n \in Nat, n \in S PROVE n + 1 \in S
  <2> SUFFICES ASSUME n + 1 <= Len(queue) PROVE Good(after[n + 1], n + 1)
    OBVIOUS
  <2> DEFINE g == after[n]
             x == queue[n + 1]
             grown == Insert(g, x)
  <2>1. n + 1 \in 1..Len(queue) /\ n <= Len(queue) /\ (n + 1) - 1 = n
    BY <1>1
  <2>2. after[n + 1] = grown /\ x \in Items /\ x \in ToSet(queue)
    BY <1>1, <1>2, <2>1 DEF ToSet
  <2>3. Good(g, n)
    BY <1>4, <2>1
  <2>4. So(n + 1) = So(n) \cup {x} /\ So(n) \subseteq ToSet(queue)
    <3>1. 1..(n + 1) = (1..n) \cup {n + 1}
      OBVIOUS
    <3>2. \A i \in 1..n : i \in DOMAIN queue
      BY <1>1, <2>1
    <3> QED
      BY <3>1, <3>2 DEF ToSet
  <2> HIDE DEF x, g, So
  <2>5. /\ grown \in Seq(Groups) /\ RowsIn(grown) = RowsIn(g) \cup {x}
        /\ \A k \in DOMAIN g : k \in DOMAIN grown /\ \A j \in DOMAIN g[k] :
              j \in DOMAIN grown[k] /\ grown[k][j] = g[k][j]
    BY <2>2, <2>3, InsertKeeps
  <2>6. ASSUME one PROVE Len(grown) <= 1
    <3>1. CASE \E k \in DOMAIN g : grown = [g EXCEPT ![k] = Append(@, x)]
      <4>1. DOMAIN grown = DOMAIN g
        BY <3>1
      <4>2. Len(grown) = Len(g)
        BY <2>3, <2>5, <4>1, LenProperties
      <4> QED
        BY <2>3, <2>6, <4>2
    <3>2. CASE (\A k \in DOMAIN g : ~SameKey(g[k][1], x)) /\ grown = Append(g, <<x>>)
      <4>1. Len(g) = 0
        <5> SUFFICES ASSUME Len(g) # 0 PROVE FALSE
          OBVIOUS
        <5>1. 1 \in DOMAIN g /\ 1 \in DOMAIN g[1]
          BY <2>3, GroupsAre
        <5>2. g[1][1] \in RowsIn(g)
          BY <5>1, RowsAre
        <5>3. KeyOf[g[1][1]] = KeyOf[x] /\ lowered = {}
          BY <2>2, <2>3, <2>4, <2>6, <5>2 DEF OneKey
        <5> QED
          BY <3>2, <5>1, <5>3 DEF SameKey, KeyNow
      <4>2. Len(grown) = Len(g) + 1
        BY <2>3, <3>2
      <4> QED
        BY <4>1, <4>2
    <3> QED
      BY <2>2, <2>3, <3>1, <3>2, Inserted, Zenon
  <2>7. Kept(grown)
    BY <2>3, <2>5
  <2>8. RowsIn(grown) = RowsIn(base) \cup So(n + 1)
    BY <2>3, <2>4, <2>5
  <2> HIDE DEF grown, Kept, one
  <2> QED
    BY <2>2, <2>5, <2>6, <2>7, <2>8
<1>5. Good(after[Len(queue)], Len(queue))
  <2> HIDE DEF S
  <2>1. Nat \subseteq S
    BY <1>3, <1>4, FromZeroUp
  <2>2. Len(queue) \in S
    BY <1>1, <2>1
  <2> QED
    BY <1>1, <2>2 DEF S
<1>6. So(Len(queue)) = ToSet(queue)
  BY <1>1 DEF ToSet
<1> HIDE DEF So
<1> QED
  BY <1>2, <1>5, <1>6

-----------------------------------------------------------------------------
(* The sub-table, and what swipes highlight.                               *)

SubTypes ==
  /\ subItems \in Seq(Groups) /\ subAdds \in Seq(Items) /\ subClears \in Nat
  /\ selected \in Nat
  /\ \A m \in net : m.action = "tap" => m.index \in Nat \ {0}

SubInv == SubTypes /\ HighlightedIsShown

LEMMA SubSame ==
  ASSUME SubInv, UNCHANGED <<subItems, subAdds, subClears, selected, net, highlighted>>
  PROVE  SubInv'
BY DEF SubInv, SubTypes, HighlightedIsShown, SubRows, RowsIn, ToSet

LEMMA SendKeeps ==
  ASSUME SubInv, NEW m, Send(m), m.action = "tap" => m.index \in Nat \ {0}
  PROVE  SubInv'
<1>1. /\ net' = net \cup {m}
      /\ UNCHANGED <<subItems, subAdds, subClears, selected, highlighted>>
  BY DEF Send, topVars, subVars, subQueues
<1> QED
  BY <1>1 DEF SubInv, SubTypes, HighlightedIsShown, SubRows, RowsIn, ToSet

LEMMA GestureKeeps ==
  ASSUME SubInv, Gesture
  PROVE  SubInv'
<1>1. ASSUME NEW istoptable \in BOOLEAN, NEW index \in Indexes, Tap(istoptable, index)
      PROVE  SubInv'
  <2> DEFINE m == [istoptable |-> istoptable, action |-> "tap", index |-> index]
  <2>1. Send(m) /\ m.index \in Nat \ {0}
    BY <1>1, TableAssumption DEF Tap
  <2> HIDE DEF m
  <2> QED
    BY <2>1, SendKeeps
<1>2. ASSUME NEW istoptable \in BOOLEAN, NEW way \in {"left", "right"}, Swipe(istoptable, way)
      PROVE  SubInv'
  <2> DEFINE m == [istoptable |-> istoptable, action |-> way]
  <2>1. Send(m) /\ m.action # "tap"
    BY <1>2 DEF Swipe
  <2> HIDE DEF m
  <2> QED
    BY <2>1, SendKeeps
<1> QED
  BY <1>1, <1>2 DEF Gesture

\* The selection goes with its group.
LEMMA SortSelects ==
  ASSUME items \in Seq(Groups), selected \in Nat, Sort
  PROVE  /\ selected' \in Nat /\ (selected' = 0 <=> selected = 0)
         /\ selected <= Len(items) => selected' <= Len(items')
         /\ selected \in 1..Len(items) => selected' \in DOMAIN items' /\ items'[selected'] = items[selected]
<1>1. Len(items) \in Nat /\ DOMAIN items = 1..Len(items)
  OBVIOUS
<1>2. CASE selected > Len(items)
  BY <1>1, <1>2 DEF Sort
<1>3. CASE ~(selected > Len(items))
  <2>1. PICK order \in Orders(items) :
          /\ items' = order
          /\ selected' = IF selected = 0 THEN 0
                         ELSE CHOOSE k \in DOMAIN order : order[k] = items[selected]
    BY <1>3, Zenon DEF Sort
  <2>2. DOMAIN order = DOMAIN items /\ Len(order) = Len(items)
    BY OrderIs
  <2>3. CASE selected = 0
    BY <1>1, <2>1, <2>2, <2>3
  <2>4. CASE selected # 0
    <3>1. selected \in DOMAIN items
      BY <1>1, <1>3, <2>4
    <3>2. PICK f \in [DOMAIN items -> DOMAIN items] :
            /\ \A k \in DOMAIN items : order[k] = items[f[k]]
            /\ \A l \in DOMAIN items : \E k \in DOMAIN items : f[k] = l
      BY OrderIs
    <3>3. \E k \in DOMAIN order : order[k] = items[selected]
      BY <2>2, <3>1, <3>2
    <3>4. selected' \in DOMAIN order /\ order[selected'] = items[selected]
      <4>1. selected' = CHOOSE k \in DOMAIN order : order[k] = items[selected]
        BY <2>1, <2>4
      <4> QED
        BY <3>3, <4>1, Zenon
    <3> QED
      BY <1>1, <2>1, <2>2, <2>4, <3>4
  <2> QED
    BY <2>3, <2>4
<1> QED
  BY <1>2, <1>3

LEMMA SubRestIs ==
  ASSUME SubInv, SubRest
  PROVE  \E base \in {subItems, <<>>}, grown \in Seq(Groups) :
           /\ base = (IF subClears > 0 THEN <<>> ELSE subItems)
           /\ RowsIn(grown) = RowsIn(base) \cup ToSet(subAdds)
           /\ \A k \in DOMAIN base : k \in DOMAIN grown /\ \A j \in DOMAIN base[k] :
                j \in DOMAIN grown[k] /\ grown[k][j] = base[k][j]
           /\ Len(base) <= 1 /\ OneKey(RowsIn(base) \cup ToSet(subAdds)) => Len(grown) <= 1
           /\ subItems' \in Seq(Groups) /\ Len(subItems') = Len(grown)
           /\ RowsIn(subItems') = RowsIn(grown)
<1> DEFINE base == IF subClears > 0 THEN <<>> ELSE subItems
           grown == FoldLeft(Insert, base, subAdds)
<1>1. base \in Seq(Groups) /\ base \in {subItems, <<>>} /\ subAdds \in Seq(Items)
  BY DEF SubInv, SubTypes
<1>2. subItems' \in Orders(grown)
  BY Zenon DEF SubRest, ClearThenAdd
<1>b. base = (IF subClears > 0 THEN <<>> ELSE subItems)
  OBVIOUS
<1> HIDE DEF base
<1>3. /\ grown \in Seq(Groups)
      /\ RowsIn(grown) = RowsIn(base) \cup ToSet(subAdds)
      /\ \A k \in DOMAIN base : k \in DOMAIN grown /\ \A j \in DOMAIN base[k] :
           j \in DOMAIN grown[k] /\ grown[k][j] = base[k][j]
      /\ Len(base) <= 1 /\ OneKey(RowsIn(base) \cup ToSet(subAdds)) => Len(grown) <= 1
  BY <1>1, AddsKeep, Zenon
<1> HIDE DEF grown
<1>4. /\ subItems' \in Seq(Groups) /\ Len(subItems') = Len(grown)
      /\ RowsIn(subItems') = RowsIn(grown)
  BY <1>2, <1>3, OrderIs, OrderKeeps
<1> QED
  BY <1>1, <1>2, <1>b, <1>3, <1>4, Zenon

LEMMA SubRestKeeps ==
  ASSUME SubInv, SubRest
  PROVE  SubInv'
<1> USE DEF SubInv, SubTypes
<1>1. PICK base \in {subItems, <<>>}, grown \in Seq(Groups) :
        /\ base = (IF subClears > 0 THEN <<>> ELSE subItems)
        /\ RowsIn(grown) = RowsIn(base) \cup ToSet(subAdds)
        /\ subItems' \in Seq(Groups) /\ RowsIn(subItems') = RowsIn(grown)
  BY SubRestIs, Zenon
<1>2. /\ subClears' = 0 /\ subAdds' = <<>>
      /\ highlighted' = IF subClears > 0 THEN Cleared ELSE highlighted
      /\ UNCHANGED <<selected, net>>
  BY DEF SubRest, topVars, netVars
<1>3. SubTypes'
  BY <1>1, <1>2
<1>4. HighlightedIsShown'
  <2>1. SubRows = RowsIn(subItems) /\ SubRows' = RowsIn(subItems')
    BY DEF SubRows, RowsIn, ToSet
  <2>2. CASE subClears > 0
    BY <1>2, <2>1, <2>2 DEF HighlightedIsShown, Cleared
  <2>3. CASE ~(subClears > 0)
    BY <1>1, <1>2, <2>1, <2>3 DEF HighlightedIsShown
  <2> QED
    BY <2>2, <2>3
<1> QED
  BY <1>3, <1>4

LEMMA TopTapIs ==
  ASSUME TableInv, SubInv, NEW m \in net, TopTap(m)
  PROVE  /\ m.index \in DOMAIN items /\ items[m.index] \in Groups
         /\ subClears' = subClears + 1 /\ shifted' = FALSE /\ added' = {}
         /\ IF m.index = selected
              THEN selected' = 0 /\ subAdds' = subAdds
              ELSE selected' = m.index /\ subAdds' = subAdds \o items[m.index]
         /\ subAdds' \in Seq(Items)
         /\ UNCHANGED <<items, lowered, subItems, mixed, net, highlighted>>
<1>1. m.action = "tap" /\ m.index <= Len(items)
  BY DEF TopTap
<1>2. items \in Seq(Groups) /\ m.index \in Nat \ {0} /\ subAdds \in Seq(Items)
  BY <1>1 DEF TableInv, TableTypes, SubInv, SubTypes
<1>3. m.index \in DOMAIN items
  BY <1>1, <1>2
<1>4. items[m.index] \in Groups /\ items[m.index] \in Seq(Items)
  BY <1>2, <1>3, GroupsAre DEF Groups
<1>5. subAdds \o items[m.index] \in Seq(Items)
  BY <1>2, <1>4
<1>6. /\ subClears' = subClears + 1 /\ shifted' = FALSE /\ added' = {}
      /\ IF m.index = selected
           THEN selected' = 0 /\ subAdds' = subAdds
           ELSE selected' = m.index /\ subAdds' = subAdds \o items[m.index]
      /\ UNCHANGED <<items, lowered, subItems, mixed, net, highlighted>>
  BY DEF TopTap, Select, subVars
<1> QED
  BY <1>2, <1>3, <1>4, <1>5, <1>6

LEMMA SubStep == TableInv /\ SubInv /\ [Next]_vars => SubInv'
<1> SUFFICES ASSUME TableInv, SubInv, [Next]_vars PROVE SubInv'
  OBVIOUS
<1> DEFINE most == UNCHANGED <<subItems, subAdds, subClears, net, highlighted>>
<1>1. ASSUME most, UNCHANGED selected PROVE SubInv'
  BY <1>1, SubSame
<1>2. ASSUME most, Sort PROVE SubInv'
  <2>1. selected' \in Nat
    BY <1>2, SortSelects DEF TableInv, TableTypes, SubInv, SubTypes
  <2> QED
    BY <1>2, <2>1 DEF SubInv, SubTypes, HighlightedIsShown, SubRows, RowsIn, ToSet
<1>3. CASE UNCHANGED vars
  BY <1>1, <1>3 DEF vars, tableVars, topVars, subVars, subQueues, netVars, tableHistory
<1>4. CASE Update
  BY <1>1, <1>4 DEF Update, NewBoids, NewRow, RemoveBoids, RemoveRowOf, PushAdd, PushRemove,
     tableVars, topVars, subVars, subQueues, netVars, tableHistory
<1>5. CASE UNCHANGED tableVars \/ StartTables
  BY <1>1, <1>5 DEF tableVars, StartTables, topVars, subVars, subQueues, netVars, tableHistory
<1>6. ASSUME NEW m \in net, TopTap(m) PROVE SubInv'
  <2>1. /\ m.index \in DOMAIN items /\ subClears' = subClears + 1 /\ subAdds' \in Seq(Items)
        /\ selected' = 0 \/ selected' = m.index
        /\ UNCHANGED <<subItems, net, highlighted>>
    BY <1>6, TopTapIs
  <2>2. m.index \in Nat
    BY <2>1 DEF TableInv, TableTypes
  <2>3. SubTypes'
    BY <2>1, <2>2 DEF SubInv, SubTypes
  <2>4. HighlightedIsShown'
    BY <2>1 DEF SubInv, HighlightedIsShown, SubRows, RowsIn, ToSet
  <2> QED
    BY <2>3, <2>4 DEF SubInv
<1>7. ASSUME NEW m \in net, SubTap(m) PROVE SubInv'
  BY <1>1, <1>7 DEF SubTap, topVars, subVars, subQueues
<1>8. ASSUME NEW m \in net, SubSwipe(m) PROVE SubInv'
  <2>1. /\ subItems # <<>>
        /\ highlighted' \subseteq highlighted \cup ToSet(subItems[1])
        /\ UNCHANGED <<subItems, subAdds, subClears, selected, net>>
    BY <1>8 DEF SubSwipe, topVars, subQueues, tableHistory
  <2>2. ToSet(subItems[1]) \subseteq SubRows
    <3>1. 1 \in DOMAIN subItems
      BY <2>1 DEF SubInv, SubTypes
    <3> QED
      BY <3>1 DEF SubRows, RowsIn
  <2>3. HighlightedIsShown'
    <3>1. SubRows' = SubRows
      BY <2>1 DEF SubRows, RowsIn, ToSet
    <3> QED
      BY <2>1, <2>2, <3>1 DEF SubInv, HighlightedIsShown
  <2>4. SubTypes'
    BY <2>1 DEF SubInv, SubTypes
  <2> QED
    BY <2>3, <2>4 DEF SubInv
<1>9. CASE OnLoop
  <2>1. ASSUME NEW m \in net, TopTapBeyond(m) \/ SubGestureBeyond(m) PROVE SubInv'
    BY <1>1, <2>1 DEF TopTapBeyond, SubGestureBeyond, topVars, subVars, subQueues, tableHistory
  <2>2. ASSUME NEW m \in net, TopSwipe(m) PROVE SubInv'
    BY <1>2, <2>2 DEF TopSwipe, subVars, subQueues
  <2>3. CASE TopStartupSort
    BY <1>2, <2>3 DEF TopStartupSort, subVars, subQueues, netVars
  <2>4. CASE TopGoesOn \/ TopAdd \/ TopRemove
    BY <1>1, <2>4 DEF TopGoesOn, TopAdd, TopRemove, topVars, subVars, subQueues, netVars, tableHistory
  <2> QED
    BY <1>6, <1>7, <1>8, <1>9, <2>1, <2>2, <2>3, <2>4, SubRestKeeps DEF OnLoop
<1> QED
  BY <1>3, <1>4, <1>5, <1>9, GestureKeeps DEF Next, Render

LEMMA SubInitially == Init => SubInv
<1> SUFFICES ASSUME Init PROVE SubInv
  OBVIOUS
<1>1. /\ subItems = <<>> /\ subAdds = <<>> /\ subClears = 0 /\ selected = 0
      /\ net = {} /\ highlighted = {}
  BY DEF Init, TableInit
<1> QED
  BY <1>1 DEF SubInv, SubTypes, HighlightedIsShown

LEMMA SubInvariance == Spec => [](TableInv /\ SubInv)
<1>1. Init => TableInv /\ SubInv
  BY TableInitially, SubInitially
<1>2. TableInv /\ SubInv /\ [Next]_vars => (TableInv /\ SubInv)'
  BY TableStep, SubStep
<1> QED
  BY <1>1, <1>2, PTL DEF Spec

\* For any processes, boids are highlighted only while the sub-table shows their
\* rows (Table::Clear against the swipes of Table::OnLoop).
THEOREM HighlightsAreShown == Spec => []HighlightedIsShown
<1>1. SubInv => HighlightedIsShown
  BY DEF SubInv
<1> QED
  BY <1>1, SubInvariance, PTL

-----------------------------------------------------------------------------
(* The sub-table shows what is selected.                                   *)

\* Rows are grouped by their names.
Uniform(groups) ==
  \A k \in DOMAIN groups : \A x, y \in ToSet(groups[k]) : KeyOf[x] = KeyOf[y]

\* The rows that the top table has in the selected group, but for new ones, are
\* those that it has of the given rows.
Selects(rows) == ToSet(items[selected]) \ added = (rows \cap RowsIn(items)) \ added

\* All have one name.
OneName(rows) == \A x, y \in rows : KeyOf[x] = KeyOf[y]

Shows ==
  IF selected = 0 THEN subItems = <<>>
  ELSE Len(subItems) = 1 /\ OneName(RowsIn(subItems)) /\ Selects(RowsIn(subItems))

\* What is to be added is what will be shown.
Coming ==
  IF selected = 0 THEN subAdds = <<>>
  ELSE subAdds # <<>> /\ OneName(ToSet(subAdds)) /\ Selects(ToSet(subAdds))

SelectionInv ==
  /\ subClears = 0 => subAdds = <<>>
  /\ ~shifted => selected <= Len(items)
  /\ lowered = {} => Uniform(items)
  /\ ~shifted /\ lowered = {} =>
       /\ subClears = 0 /\ ~mixed => Shows
       /\ subClears = 1 => Coming

\* Whatever keeps the rows of the selected group, if there is one, keeps what
\* is shown.
LEMMA SelectionKept ==
  ASSUME TableInv, SubInv, SelectionInv,
         UNCHANGED <<subItems, subAdds, subClears, mixed>>,
         lowered' = {} => lowered = {}, ~shifted' => ~shifted,
         ~shifted' => selected' <= Len(items') /\ (selected' = 0 <=> selected = 0),
         lowered' = {} => Uniform(items'),
         ~shifted' /\ lowered' = {} /\ selected # 0 =>
           \A rows : Selects(rows) =>
             ToSet(items'[selected']) \ added' = (rows \cap RowsIn(items')) \ added'
  PROVE  SelectionInv'
<1>1. /\ RowsIn(subItems)' = RowsIn(subItems) /\ ToSet(subAdds)' = ToSet(subAdds)
      /\ RowsIn(items)' = RowsIn(items') /\ ToSet(items[selected])' = ToSet(items'[selected'])
      /\ OneName(RowsIn(subItems))' = OneName(RowsIn(subItems))
      /\ OneName(ToSet(subAdds))' = OneName(ToSet(subAdds))
  BY DEF RowsIn, ToSet, OneName
<1>2. ASSUME ~shifted', lowered' = {}, selected # 0
      PROVE  /\ Selects(RowsIn(subItems)) => Selects(RowsIn(subItems))'
             /\ Selects(ToSet(subAdds)) => Selects(ToSet(subAdds))'
  <2>1. /\ Selects(RowsIn(subItems)) => ToSet(items'[selected']) \ added' =
             (RowsIn(subItems) \cap RowsIn(items')) \ added'
        /\ Selects(ToSet(subAdds)) => ToSet(items'[selected']) \ added' =
             (ToSet(subAdds) \cap RowsIn(items')) \ added'
    BY <1>2
  <2> QED
    BY <1>1, <2>1, Zenon DEF Selects
<1>3. ~shifted' /\ lowered' = {} => (Shows => Shows') /\ (Coming => Coming')
  BY <1>1, <1>2 DEF Shows, Coming
<1>4. Uniform(items)' <=> Uniform(items')
  BY DEF Uniform, ToSet
<1> QED
  BY <1>3, <1>4 DEF SelectionInv

LEMMA SelectionSame ==
  ASSUME TableInv, SubInv, SelectionInv,
         UNCHANGED <<subItems, subAdds, subClears, mixed, lowered, shifted, added, selected, items>>
  PROVE  SelectionInv'
BY DEF SelectionInv, Shows, Coming, Selects, OneName, RowsIn, ToSet, Uniform

LEMMA SelectedIs ==
  ASSUME TableInv, SubInv, SelectionInv, ~shifted, selected # 0
  PROVE  selected \in DOMAIN items /\ 1 \in DOMAIN items[selected]
<1>1. items \in Seq(Groups) /\ selected \in Nat /\ selected <= Len(items)
  BY DEF TableInv, TableTypes, SubInv, SubTypes, SelectionInv
<1>2. selected \in DOMAIN items
  BY <1>1
<1> QED
  BY <1>1, <1>2, GroupsAre

LEMMA SortKeepsSelection ==
  ASSUME TableInv, SubInv, SelectionInv, Sort,
         UNCHANGED <<subItems, subAdds, subClears, mixed, shifted, added>>,
         lowered' = {} => lowered = {}
  PROVE  SelectionInv'
<1>1. items \in Seq(Groups) /\ selected \in Nat /\ Len(items) \in Nat
  BY DEF TableInv, TableTypes, SubInv, SubTypes
<1>2. /\ (selected' = 0 <=> selected = 0)
      /\ selected <= Len(items) => selected' <= Len(items')
      /\ selected \in 1..Len(items) => items'[selected'] = items[selected]
  BY <1>1, SortSelects
<1>3. Uniform(items) => Uniform(items')
  <2>1. CASE items' = items
    BY <2>1
  <2>2. CASE items' \in Orders(items)
    <3>1. DOMAIN items' = DOMAIN items
      BY <1>1, <2>2, OrderIs
    <3>2. PICK f \in [DOMAIN items -> DOMAIN items] :
            /\ \A k \in DOMAIN items : items'[k] = items[f[k]]
            /\ \A k, l \in DOMAIN items : f[k] = f[l] => k = l
            /\ \A l \in DOMAIN items : \E k \in DOMAIN items : f[k] = l
      BY <1>1, <2>2, OrderIs
    <3> QED
      BY <3>1, <3>2 DEF Uniform
  <2> QED
    BY <2>1, <2>2 DEF Sort
<1>4. ~shifted => selected <= Len(items)
  BY DEF SelectionInv
<1>5. ~shifted /\ selected # 0 => selected \in 1..Len(items)
  BY <1>1, <1>4
<1>6. lowered' = {} => Uniform(items')
  BY <1>3 DEF SelectionInv
<1>7. RowsIn(items') = RowsIn(items)
  BY <1>1, SortKeepsRows
<1>8. ASSUME ~shifted', selected # 0, NEW rows, Selects(rows)
      PROVE  ToSet(items'[selected']) \ added' = (rows \cap RowsIn(items')) \ added'
  BY <1>2, <1>5, <1>7, <1>8, Zenon DEF Selects
<1> QED
  BY <1>2, <1>4, <1>5, <1>6, <1>8, SelectionKept

LEMMA RemoveKeepsSelection ==
  ASSUME TableInv, SubInv, SelectionInv, TopRemove
  PROVE  SelectionInv'
<1> DEFINE x == Head(removeQueue)
<1>1. /\ IF Found(x) = {} THEN UNCHANGED <<items, shifted>>
                          ELSE \E p \in Found(x) : EraseRow(p[1], p[2])
      /\ UNCHANGED <<selected, lowered, subItems, subAdds, subClears, mixed, added>>
  BY DEF TopRemove, subVars, subQueues
<1>2. CASE Found(x) = {}
  BY <1>1, <1>2, SelectionSame
<1>3. CASE Found(x) # {}
  <2>1. PICK p \in Found(x) : EraseRow(p[1], p[2])
    BY <1>1, <1>3
  <2> DEFINE k == p[1]
             j == p[2]
  <2>2. k \in DOMAIN items /\ j \in DOMAIN items[k]
    BY <2>1, FoundIs
  <2>3. EraseRow(k, j)
    BY <2>1
  <2>4. items \in Seq(Groups) /\ OnceEach(items) /\ selected \in Nat /\ Len(items) \in Nat
        /\ k \in Nat /\ k <= Len(items)
    BY <2>2 DEF TableInv, TableTypes, RowsInv, SubInv, SubTypes
  <2> HIDE DEF k, j, x
  <2>5. /\ items' \in Seq(Groups) /\ RowsIn(items') = RowsIn(items) \ {items[k][j]}
        /\ \A l \in DOMAIN items' : \E m \in DOMAIN items : ToSet(items'[l]) \subseteq ToSet(items[m])
        /\ \/ /\ Len(items') = Len(items) - 1 /\ (shifted' <=> (shifted \/ k <= selected))
              /\ \A l \in 1..(k - 1) : items'[l] = items[l]
           \/ /\ Len(items') = Len(items) /\ (shifted' <=> shifted)
              /\ \A l \in DOMAIN items : ToSet(items'[l]) \subseteq ToSet(items[l])
    BY <2>2, <2>3, <2>4, EraseKeeps
  <2>6. Uniform(items) => Uniform(items')
    BY <2>5 DEF Uniform
  <2>7. lowered' = {} => Uniform(items')
    BY <1>1, <2>6 DEF SelectionInv
  <2>8. ~shifted' => ~shifted /\ selected' <= Len(items')
    <3>1. ~shifted => selected <= Len(items)
      BY DEF SelectionInv
    <3> QED
      BY <1>1, <2>4, <2>5, <3>1
  <2>9. ASSUME ~shifted', selected # 0
        PROVE  ToSet(items'[selected]) = ToSet(items[selected]) \ {items[k][j]}
    <3>1. selected \in DOMAIN items
      BY <2>8, <2>9, SelectedIs
    <3>2. CASE /\ (shifted' <=> (shifted \/ k <= selected))
               /\ \A l \in 1..(k - 1) : items'[l] = items[l]
      <4>1. selected \in 1..(k - 1)
        BY <2>4, <2>9, <3>2
      <4>2. ASSUME NEW i \in DOMAIN items[selected] PROVE items[selected][i] # items[k][j]
        <5>1. selected # k
          BY <2>4, <4>1
        <5> QED
          BY <2>2, <2>4, <3>1, <4>2, <5>1, OncePlace, Zenon
      <4>3. items[k][j] \notin ToSet(items[selected])
        BY <4>2 DEF ToSet
      <4> QED
        BY <3>2, <4>1, <4>3
    <3>3. CASE /\ Len(items') = Len(items)
               /\ \A l \in DOMAIN items : ToSet(items'[l]) \subseteq ToSet(items[l])
      <4>1. DOMAIN items' = DOMAIN items
        BY <2>4, <2>5, <3>3
      <4>2. ToSet(items'[selected]) \subseteq ToSet(items[selected])
        BY <3>1, <3>3
      <4>3. items[k][j] \notin ToSet(items'[selected])
        <5>1. ToSet(items'[selected]) \subseteq RowsIn(items')
          BY <3>1, <4>1 DEF RowsIn
        <5> QED
          BY <2>5, <5>1
      <4>4. ASSUME NEW y \in ToSet(items[selected]), y # items[k][j]
            PROVE  y \in ToSet(items'[selected])
        <5>1. y \in RowsIn(items')
          BY <2>5, <3>1, <4>4 DEF RowsIn
        <5>2. PICK l \in DOMAIN items' : y \in ToSet(items'[l])
          BY <5>1 DEF RowsIn
        <5>3. y \in ToSet(items[l]) /\ l \in DOMAIN items
          BY <3>3, <4>1, <5>2
        <5>4. l = selected
          <6>1. PICK i \in DOMAIN items[l] : items[l][i] = y
            BY <5>3 DEF ToSet
          <6>2. PICK h \in DOMAIN items[selected] : items[selected][h] = y
            BY <4>4 DEF ToSet
          <6> QED
            BY <2>4, <3>1, <5>3, <6>1, <6>2, OncePlace, Zenon
        <5> QED
          BY <5>2, <5>4
      <4> QED
        BY <4>2, <4>3, <4>4
    <3> QED
      BY <2>5, <3>2, <3>3
  <2>10. ASSUME ~shifted', selected # 0, NEW rows, Selects(rows)
         PROVE  ToSet(items'[selected']) \ added' = (rows \cap RowsIn(items')) \ added'
    <3>1. ToSet(items'[selected]) = ToSet(items[selected]) \ {items[k][j]}
      BY <2>9, <2>10
    <3> QED
      BY <1>1, <2>5, <2>10, <3>1 DEF Selects
  <2> QED
    BY <1>1, <2>7, <2>8, <2>10, SelectionKept
<1> QED
  BY <1>2, <1>3

LEMMA AddKeepsSelection ==
  ASSUME TableInv, SubInv, SelectionInv, TopAdd
  PROVE  SelectionInv'
<1> DEFINE x == Head(addQueue)
<1>1. /\ addQueue # <<>> /\ items' = Insert(items, x) /\ added' = added \cup {x}
      /\ UNCHANGED <<selected, lowered, subItems, subAdds, subClears, mixed, shifted>>
  BY DEF TopAdd, subVars, subQueues
<1>2. items \in Seq(Groups) /\ selected \in Nat /\ Len(items) \in Nat /\ x \in Items
  BY <1>1, QueueTaken DEF TableInv, TableTypes, QueuesInv, SubInv, SubTypes
<1> HIDE DEF x
<1>3. /\ items' \in Seq(Groups) /\ RowsIn(items') = RowsIn(items) \cup {x}
      /\ \A k \in DOMAIN items : k \in DOMAIN items' /\ \A j \in DOMAIN items[k] :
           j \in DOMAIN items'[k] /\ items'[k][j] = items[k][j]
  BY <1>1, <1>2, InsertKeeps
<1>4. Len(items) <= Len(items')
  <2>1. Len(items') \in Nat /\ DOMAIN items' = 1..Len(items') /\ DOMAIN items = 1..Len(items)
    BY <1>2, <1>3
  <2>2. Len(items) # 0 => Len(items) \in DOMAIN items'
    BY <1>2, <1>3, <2>1
  <2> QED
    BY <1>2, <2>1, <2>2
<1>5. ASSUME lowered = {}, Uniform(items) PROVE Uniform(items')
  <2>1. CASE \E k \in DOMAIN items : SameKey(items[k][1], x) /\ items' = [items EXCEPT ![k] = Append(@, x)]
    <3>1. PICK k \in DOMAIN items : SameKey(items[k][1], x) /\ items' = [items EXCEPT ![k] = Append(@, x)]
      BY <2>1
    <3>2. items[k] \in Seq(Items) /\ 1 \in DOMAIN items[k]
      BY <1>2, GroupsAre
    <3>3. ToSet(Append(items[k], x)) = ToSet(items[k]) \cup {x}
      BY <1>2, <3>2, QueueAppended
    <3>4. DOMAIN items' = DOMAIN items /\ items'[k] = Append(items[k], x)
          /\ \A l \in DOMAIN items \ {k} : items'[l] = items[l]
      BY <3>1
    <3>5. items[k][1] \in ToSet(items[k])
      BY <3>2 DEF ToSet
    <3>6. \A y \in ToSet(items[k]) : KeyOf[y] = KeyOf[x]
      <4>1. KeyOf[items[k][1]] = KeyOf[x]
        BY <1>5, <3>1 DEF SameKey, KeyNow
      <4> QED
        BY <1>5, <3>5, <4>1 DEF Uniform
    <3>7. \A y, z \in ToSet(items'[k]) : KeyOf[y] = KeyOf[z]
      BY <3>3, <3>4, <3>6
    <3>8. \A l \in DOMAIN items \ {k} : \A y, z \in ToSet(items'[l]) : KeyOf[y] = KeyOf[z]
      BY <1>5, <3>4 DEF Uniform
    <3> QED
      BY <3>4, <3>7, <3>8 DEF Uniform
  <2>2. CASE items' = Append(items, <<x>>)
    <3>1. DOMAIN items' = DOMAIN items \cup {Len(items) + 1} /\ items'[Len(items) + 1] = <<x>>
          /\ \A l \in DOMAIN items : items'[l] = items[l]
      BY <1>2, <2>2
    <3>2. ToSet(<<x>>) = {x}
      BY DEF ToSet
    <3> QED
      BY <1>5, <3>1, <3>2 DEF Uniform
  <2> QED
    BY <1>1, <1>2, <2>1, <2>2, Inserted, Zenon
<1>6. ASSUME ~shifted, selected # 0
      PROVE  ToSet(items'[selected]) \cup {x} = ToSet(items[selected]) \cup {x}
  <2>1. selected \in DOMAIN items
    BY <1>6, SelectedIs
  <2>2. CASE \E k \in DOMAIN items : SameKey(items[k][1], x) /\ items' = [items EXCEPT ![k] = Append(@, x)]
    <3>1. PICK k \in DOMAIN items : items' = [items EXCEPT ![k] = Append(@, x)]
      BY <2>2
    <3>2. CASE k = selected
      <4>1. items'[selected] = Append(items[selected], x) /\ items[selected] \in Seq(Items)
        BY <1>2, <2>1, <3>1, <3>2, GroupsAre
      <4>2. ToSet(Append(items[selected], x)) = ToSet(items[selected]) \cup {x}
        BY <1>2, <4>1, QueueAppended
      <4> QED
        BY <4>1, <4>2
    <3>3. CASE k # selected
      <4>1. items'[selected] = items[selected]
        BY <2>1, <3>1, <3>3
      <4> QED
        BY <4>1
    <3> QED
      BY <3>2, <3>3
  <2>3. CASE items' = Append(items, <<x>>)
    <3>1. items'[selected] = items[selected]
      BY <1>2, <2>1, <2>3
    <3> QED
      BY <3>1
  <2> QED
    BY <1>1, <1>2, <2>2, <2>3, Inserted, Zenon
<1>7. lowered' = {} => Uniform(items')
  BY <1>1, <1>5 DEF SelectionInv
<1>8. ~shifted => selected <= Len(items')
  <2>1. Len(items') \in Nat
    BY <1>3
  <2> QED
    BY <1>2, <1>4, <2>1 DEF SelectionInv
<1>9. ASSUME ~shifted', selected # 0, NEW rows, Selects(rows)
      PROVE  ToSet(items'[selected']) \ added' = (rows \cap RowsIn(items')) \ added'
  <2>1. ToSet(items'[selected]) \cup {x} = ToSet(items[selected]) \cup {x}
    BY <1>1, <1>6, <1>9
  <2> QED
    BY <1>1, <1>3, <1>9, <2>1 DEF Selects
<1> QED
  BY <1>1, <1>7, <1>8, <1>9, SelectionKept

LEMMA TapKeepsSelection ==
  ASSUME TableInv, SubInv, SelectionInv, NEW m \in net, TopTap(m)
  PROVE  SelectionInv'
<1>1. /\ m.index \in DOMAIN items /\ items[m.index] \in Groups
      /\ subClears' = subClears + 1 /\ shifted' = FALSE /\ added' = {}
      /\ IF m.index = selected
           THEN selected' = 0 /\ subAdds' = subAdds
           ELSE selected' = m.index /\ subAdds' = subAdds \o items[m.index]
      /\ UNCHANGED <<items, lowered, subItems, mixed>>
  BY TopTapIs
<1>2. items \in Seq(Groups) /\ Len(items) \in Nat /\ m.index \in Nat \ {0} /\ m.index <= Len(items)
      /\ subClears \in Nat
  BY <1>1 DEF TableInv, TableTypes, SubInv, SubTypes
<1>3. selected' <= Len(items')
  BY <1>1, <1>2
<1>4. lowered' = {} => Uniform(items)'
  BY <1>1 DEF SelectionInv, Uniform, ToSet
<1>5. ASSUME subClears' = 1, lowered' = {} PROVE Coming'
  <2>1. subAdds = <<>>
    BY <1>1, <1>2, <1>5 DEF SelectionInv
  <2>2. CASE m.index = selected
    BY <1>1, <2>1, <2>2 DEF Coming
  <2>3. CASE m.index # selected
    <3>1. selected' = m.index /\ selected' # 0 /\ subAdds' = items[m.index]
      <4>1. <<>> \o items[m.index] = items[m.index]
        BY <1>1 DEF Groups
      <4> QED
        BY <1>1, <1>2, <2>1, <2>3, <4>1
    <3>2. items[m.index] # <<>>
      BY <1>1 DEF Groups
    <3>3. OneName(ToSet(items[m.index]))
      BY <1>1, <1>5 DEF SelectionInv, Uniform, OneName
    <3>4. /\ ToSet(subAdds)' = ToSet(items[m.index]) /\ ToSet(items[selected])' = ToSet(items[m.index])
          /\ RowsIn(items)' = RowsIn(items)
      BY <1>1, <3>1 DEF ToSet, RowsIn
    <3>5. ToSet(items[m.index]) \subseteq RowsIn(items)
      BY <1>1 DEF RowsIn
    <3>6. Selects(ToSet(subAdds))'
      BY <3>4, <3>5 DEF Selects
    <3>7. OneName(ToSet(subAdds))'
      BY <3>3, <3>4 DEF OneName
    <3> QED
      BY <1>1, <3>1, <3>2, <3>6, <3>7 DEF Coming
  <2> QED
    BY <2>2, <2>3
<1> QED
  BY <1>1, <1>2, <1>3, <1>4, <1>5 DEF SelectionInv

LEMMA SubRestKeepsSelection ==
  ASSUME TableInv, SubInv, SelectionInv, SubRest
  PROVE  SelectionInv'
<1>1. PICK base \in {subItems, <<>>}, grown \in Seq(Groups) :
        /\ base = (IF subClears > 0 THEN <<>> ELSE subItems)
        /\ RowsIn(grown) = RowsIn(base) \cup ToSet(subAdds)
        /\ Len(base) <= 1 /\ OneKey(RowsIn(base) \cup ToSet(subAdds)) => Len(grown) <= 1
        /\ subItems' \in Seq(Groups) /\ Len(subItems') = Len(grown)
        /\ RowsIn(subItems') = RowsIn(grown)
  BY SubRestIs, Zenon
<1>2. /\ subClears' = 0 /\ subAdds' = <<>>
      /\ subClears = 0 => (mixed' <=> mixed)
      /\ subClears # 0 => (mixed' <=> subClears > 1)
      /\ UNCHANGED <<selected, lowered, items, shifted, added>>
  <2>1. mixed' = IF subClears = 0 THEN mixed ELSE subClears > 1
    BY DEF SubRest
  <2>2. /\ subClears = 0 => (mixed' <=> mixed)
        /\ subClears # 0 => (mixed' <=> subClears > 1)
    BY <2>1, Zenon
  <2> QED
    BY <2>2 DEF SubRest, topVars
<1>3. /\ subItems \in Seq(Groups) /\ subAdds \in Seq(Items) /\ subClears \in Nat
  BY DEF SubInv, SubTypes
<1>4. ASSUME ~shifted, lowered = {}, ~mixed' PROVE Shows'
  <2> DEFINE rows == RowsIn(base) \cup ToSet(subAdds)
  <2>1. RowsIn(subItems)' = RowsIn(subItems')
    BY DEF RowsIn, ToSet
  <2>2. /\ Len(subItems') \in Nat
        /\ Len(subItems') = 0 <=> subItems' = <<>>
        /\ RowsIn(subItems') = {} <=> subItems' = <<>>
    BY <1>1, NoRowsNoGroups
  <2>3. RowsIn(<<>>) = {} /\ ToSet(<<>>) = {}
    BY DEF RowsIn, ToSet
  <2>4. CASE selected = 0
    <3>1. rows = {}
      <4>1. CASE subClears = 0
        <5>1. base = <<>> /\ subAdds = <<>>
          BY <1>1, <1>2, <1>3, <1>4, <2>4, <4>1 DEF SelectionInv, Shows
        <5> QED
          BY <2>3, <5>1, Zenon
      <4>2. CASE subClears # 0
        <5>1. base = <<>> /\ subClears = 1
          BY <1>1, <1>2, <1>3, <1>4, <4>2
        <5>2. subAdds = <<>>
          BY <1>4, <2>4, <5>1 DEF SelectionInv, Coming
        <5> QED
          BY <2>3, <5>1, <5>2, Zenon
      <4> QED
        BY <4>1, <4>2
    <3>2. subItems' = <<>>
      BY <1>1, <2>2, <3>1
    <3> QED
      BY <1>2, <2>4, <3>2 DEF Shows
  <2>5. CASE selected # 0
    <3>1. Len(base) <= 1 /\ rows # {} /\ OneName(rows) /\ Selects(rows)
      <4>1. CASE subClears = 0
        <5>1. base = subItems /\ subAdds = <<>> /\ Shows
          BY <1>1, <1>2, <1>3, <1>4, <4>1 DEF SelectionInv
        <5>2. rows = RowsIn(subItems)
          BY <2>3, <5>1
        <5>3. Len(subItems) = 1 /\ OneName(RowsIn(subItems)) /\ Selects(RowsIn(subItems))
          BY <2>5, <5>1 DEF Shows
        <5>4. RowsIn(subItems) # {}
          <6>1. Len(subItems) # 0
            BY <5>3
          <6> QED
            BY <1>3, <6>1, NoRowsNoGroups, Zenon
        <5> HIDE DEF rows
        <5> QED
          BY <5>1, <5>2, <5>3, <5>4
      <4>2. CASE subClears # 0
        <5>1. base = <<>> /\ subClears = 1
          BY <1>1, <1>2, <1>3, <1>4, <4>2
        <5>2. subAdds # <<>> /\ OneName(ToSet(subAdds)) /\ Selects(ToSet(subAdds))
          BY <1>4, <2>5, <5>1 DEF SelectionInv, Coming
        <5>3. ToSet(subAdds) # {}
          <6>1. 1 \in DOMAIN subAdds
            BY <1>3, <5>2
          <6> QED
            BY <6>1 DEF ToSet
        <5>4. rows = ToSet(subAdds) /\ Len(base) = 0
          BY <2>3, <5>1
        <5> HIDE DEF rows
        <5> QED
          BY <5>2, <5>3, <5>4
      <4> QED
        BY <4>1, <4>2
    <3>2. OneKey(rows)
      BY <1>4, <3>1 DEF OneKey, OneName
    <3>3. Len(subItems') <= 1 /\ RowsIn(subItems') = rows
      BY <1>1, <3>1, <3>2
    <3>4. Len(subItems') = 1
      <4>1. subItems' # <<>>
        BY <2>2, <3>1, <3>3, Zenon
      <4>2. Len(subItems') # 0 /\ Len(subItems') \in Nat
        BY <2>2, <4>1, Zenon
      <4>3. \A n \in Nat : n # 0 /\ n <= 1 => n = 1
        OBVIOUS
      <4> QED
        BY <3>3, <4>2, <4>3, Zenon
    <3> HIDE DEF rows
    <3>5. OneName(RowsIn(subItems))' /\ Selects(RowsIn(subItems))'
      <4>1. /\ RowsIn(subItems)' = rows /\ RowsIn(items)' = RowsIn(items)
            /\ ToSet(items[selected])' = ToSet(items[selected])
        BY <1>2, <2>1, <3>3 DEF RowsIn, ToSet
      <4> QED
        BY <1>2, <3>1, <4>1 DEF OneName, Selects
    <3> QED
      BY <1>2, <2>5, <3>4, <3>5 DEF Shows
  <2> QED
    BY <2>4, <2>5
<1>5. Uniform(items)' <=> Uniform(items)
  BY <1>2 DEF Uniform, ToSet
<1> QED
  BY <1>2, <1>4, <1>5 DEF SelectionInv

LEMMA SelectionStep == TableInv /\ SubInv /\ SelectionInv /\ [Next]_vars => SelectionInv'
<1> SUFFICES ASSUME TableInv, SubInv, SelectionInv, [Next]_vars PROVE SelectionInv'
  OBVIOUS
<1> DEFINE same == UNCHANGED <<subItems, subAdds, subClears, mixed, lowered, shifted, added, selected, items>>
<1>1. ASSUME same PROVE SelectionInv'
  BY <1>1, SelectionSame
<1>2. CASE UNCHANGED vars
  BY <1>1, <1>2 DEF vars, tableVars, topVars, subVars, subQueues, tableHistory
<1>3. CASE Update
  BY <1>1, <1>3 DEF Update, NewBoids, NewRow, RemoveBoids, RemoveRowOf, PushAdd, PushRemove,
     tableVars, topVars, subVars, subQueues, tableHistory
<1>4. CASE UNCHANGED tableVars \/ StartTables \/ Gesture
  BY <1>1, <1>4 DEF tableVars, StartTables, Gesture, Tap, Swipe, Send,
     topVars, subVars, subQueues, tableHistory
<1>5. CASE OnLoop
  <2>1. ASSUME NEW m \in net, TopTapBeyond(m) \/ SubGestureBeyond(m) \/ SubTap(m) \/ SubSwipe(m)
        PROVE  SelectionInv'
    BY <1>1, <2>1 DEF TopTapBeyond, SubGestureBeyond, SubTap, SubSwipe, topVars, subVars, subQueues,
       tableHistory
  <2>2. ASSUME NEW m \in net, TopSwipe(m) PROVE SelectionInv'
    <3>1. Sort /\ UNCHANGED <<subItems, subAdds, subClears, mixed, shifted, added>>
      BY <2>2 DEF TopSwipe, subVars, subQueues
    <3>2. lowered' = {} => lowered = {}
      BY <2>2 DEF TopSwipe
    <3> QED
      BY <3>1, <3>2, SortKeepsSelection
  <2>3. CASE TopStartupSort
    BY <2>3, SortKeepsSelection DEF TopStartupSort, subVars, subQueues
  <2>4. CASE TopGoesOn
    BY <1>1, <2>4 DEF TopGoesOn, topVars, subVars, subQueues, tableHistory
  <2> QED
    BY <1>5, <2>1, <2>2, <2>3, <2>4, TapKeepsSelection, RemoveKeepsSelection, AddKeepsSelection,
       SubRestKeepsSelection DEF OnLoop
<1> QED
  BY <1>2, <1>3, <1>4, <1>5 DEF Next, Render

\* For any processes and names, the rows that the sub-table shows are those of
\* the group that is selected, once the last tap has been dealt with; but for
\* rows that came since and the exceptions that the property names (OnLoop of
\* the one table against that of the other).
THEOREM SelectionShown == Spec => []SubTableShowsSelection
<1>1. Init => SelectionInv
  <2> SUFFICES ASSUME Init PROVE SelectionInv
    OBVIOUS
  <2>1. /\ items = <<>> /\ selected = 0 /\ subItems = <<>> /\ subAdds = <<>> /\ subClears = 0
    BY DEF Init, TableInit
  <2> QED
    BY <2>1 DEF SelectionInv, Shows, Uniform
<1>2. ASSUME TableInv, SubInv, SelectionInv PROVE SubTableShowsSelection
  <2> SUFFICES ASSUME subClears = 0, ~mixed, ~shifted, lowered = {}, selected # 0, Shows
               PROVE  Selects(ToSet(subItems[1]))
    BY <1>2 DEF SubTableShowsSelection, SelectionInv, Shows, Selects
  <2>1. Len(subItems) = 1 /\ Selects(RowsIn(subItems))
    BY DEF Shows
  <2>2. DOMAIN subItems = {1}
    BY <1>2, <2>1 DEF SubInv, SubTypes
  <2>3. RowsIn(subItems) = ToSet(subItems[1])
    BY <2>2 DEF RowsIn
  <2> QED
    BY <2>1, <2>3
<1> QED
  BY <1>1, <1>2, SubInvariance, SelectionStep, PTL DEF Spec
=============================================================================
