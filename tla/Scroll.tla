------------------------------- MODULE Scroll ------------------------------
(***************************************************************************)
(* modules/boids2d/Entity.cpp: how an EntityEvent turns the touches that   *)
(* hit it into taps and into the speeds of a scroll and a swipe, and how   *)
(* the callbacks of each frame use the speeds up.  Both run in the render  *)
(* thread, touches before callbacks (module Touch).                        *)
(*                                                                         *)
(* Speeds are whole numbers of a two-thousandth of the entity's height:    *)
(* 0.001, 0.03 and 0.05 * 0.03 of the height are 2, 60 and 3 of them.      *)
(* Times are ticks of the touch server's clock.                            *)
(***************************************************************************)
EXTENDS Integers

MinSpeed == 2
MaxSpeed == 60
Decay == 3
ScrollThreshold == 40

\* One of the two directions: its speed, the time of its last touch, and the
\* time of the touch that the last callback was for.
Axis == [speed : Int, current : Int, previous : Int]

\* An entity that has been touched once, which sets its thresholds: its axes
\* and the time of the last tap it reacted to.  And what the touch server says
\* of a finger that is down, or just lifted.
Entities == [scroll : Axis, swipe : Axis, tapped : Int]
Touches == [dx : Int, dy : Int, movedDistance : Nat, radius : Nat,
            remove : BOOLEAN, time : Int]

\* A tap is a finger that presses wider than the radius, or one that is lifted
\* having moved less than the distance.
TapRadius == 20
TapDistance == 5

Magnitude(speed) == IF speed < 0 THEN -speed ELSE speed

Bounded(axis) == Magnitude(axis.speed) <= MaxSpeed

\* A touch that moves adds to the speed, up to MaxSpeed either way.
Accelerate(speed, delta) ==
  LET sum == speed + delta
  IN  IF sum > MaxSpeed THEN MaxSpeed ELSE IF sum < -MaxSpeed THEN -MaxSpeed ELSE sum

Push(axis, delta, now) ==
  [axis EXCEPT !.speed = Accelerate(axis.speed, delta), !.current = now]

IsTap(touch) ==
  (touch.remove /\ touch.movedDistance < TapDistance) \/ touch.radius > TapRadius
IsStill(touch, swipeThreshold) ==
  /\ Magnitude(touch.dy) < ScrollThreshold
  /\ Magnitude(touch.dx) < swipeThreshold

HandleHit(entity, touch, swipeThreshold, tapInterval) ==
  IF IsTap(touch)
    THEN IF touch.time - entity.tapped > tapInterval
           THEN [entity EXCEPT !.tapped = touch.time]
           ELSE entity
  ELSE IF touch.remove \/ IsStill(touch, swipeThreshold)
    THEN entity
  ELSE IF Magnitude(touch.dy) > Magnitude(touch.dx)
    THEN [entity EXCEPT !.scroll = Push(entity.scroll, touch.dy, touch.time)]
    ELSE [entity EXCEPT !.swipe = Push(entity.swipe, touch.dx, touch.time)]

\* What a callback leaves of the speed.
Slower(speed) ==
  CASE speed > MinSpeed -> IF speed < Decay THEN 0 ELSE speed - Decay
    [] speed < -MinSpeed -> IF speed > -Decay THEN 0 ELSE speed + Decay
    [] OTHER -> 0

\* RunCallbacks for one axis.  The interval is -1 unless the entity sets one.
IsDue(axis, interval) == axis.current - axis.previous > interval
RunCallbacks(axis, interval) ==
  IF IsDue(axis, interval)
    THEN [axis EXCEPT !.previous = axis.current, !.speed = Slower(axis.speed)]
    ELSE axis
IsMoved(axis, interval) == IsDue(axis, interval) /\ Magnitude(axis.speed) > MinSpeed

=============================================================================
