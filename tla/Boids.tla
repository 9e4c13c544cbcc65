------------------------------- MODULE Boids -------------------------------
(***************************************************************************)
(* modules/boids2d: where a boid is drawn.  Handler.cpp turns a process's  *)
(* utilization into a destination, the boid moves there within a second    *)
(* (Boid.cpp), one step in every frame (Fps.cpp), trailing a tail that the *)
(* axes' gestures lengthen and shorten (BoidAxis.cpp).                     *)
(*                                                                         *)
(* Coordinates are whole thousandths of a percent of the axes' length.     *)
(***************************************************************************)
EXTENDS TableGeometry

MAX_FPS == 35
Percent == 1000
Axes == {"x", "y"}
Points == [Axes -> Int]

\* A boid between two frames: its width is 2 percent then, also when it was
\* drawn 4 wide because it is highlighted.  tail is the length of _tail.
Boid == [at : Points, speed : Points, old : Points, visible : BOOLEAN, tail : Nat]
Radius == Percent
NewBoids ==
  {b \in Boid : /\ b.at = [a \in Axes |-> 0] /\ b.old = [a \in Axes |-> -Percent]
                /\ b.tail = 0 /\ ~b.visible}

Distance(m, n) == IF m < n THEN n - m ELSE m - n

\* Between the axes by half of the boid's width.
Between(place) ==
  IF place < Radius THEN Radius
  ELSE IF place > 100 * Percent - Radius THEN 100 * Percent - Radius ELSE place
Aligned(dest) == [a \in Axes |-> Between(dest[a])]

IsDestinationReached(boid, dest) ==
  \A a \in Axes : 2 * Distance(boid.at[a], dest[a]) < Percent

\* What is done about a destination other than the last one steered for.
Steered(boid, dest) ==
  IF dest = boid.old
    THEN boid
    ELSE [boid EXCEPT !.old = dest,
                      !.speed = [a \in Axes |-> Quotient(dest[a] - boid.at[a], MAX_FPS)]]
Moved(boid) == [boid EXCEPT !.at = [a \in Axes |-> boid.at[a] + boid.speed[a]]]
Approach(boid, dest) ==
  IF IsDestinationReached(boid, dest)
    THEN [boid EXCEPT !.speed = [a \in Axes |-> 0]]
    ELSE Moved(Steered(boid, dest))

\* _tail loses its last point when it is as long as allowed, then gains one.
TailAfter(size, limit) ==
  IF limit = 0 THEN 0 ELSE IF size = limit THEN size ELSE size + 1

\* A process below the threshold has a negative destination: nothing moves.
OnLoop(boid, dest, tailLength) ==
  IF \E a \in Axes : dest[a] < 0
    THEN [boid EXCEPT !.visible = FALSE]
    ELSE LET next == Approach(boid, Aligned(dest))
         IN  [next EXCEPT !.visible = TRUE, !.tail = TailAfter(boid.tail, tailLength)]

\* The gestures on the axes.
SwipeLeft(tailLength, speed) == IF tailLength - speed < 0 THEN 0 ELSE tailLength - speed
SwipeRight(tailLength, speed) == IF tailLength + speed > 100 THEN 100 ELSE tailLength + speed

-----------------------------------------------------------------------------
(* What is drawn.                                                          *)

\* The corners of a shape of a size, around a point, for a multiple of four:
\* all shapes but the octagon use only the middles and ends of the edges.
Shapes == {"QUAD", "DIAMOND", "TRIANGLE_UP", "TRIANGLE_DOWN", "TRIANGLE_LEFT",
           "TRIANGLE_RIGHT", "POLYGON"}
Corners(shape) ==
  CASE shape = "QUAD" -> {<<0, 0>>, <<4, 0>>, <<4, 4>>, <<0, 4>>}
    [] shape = "DIAMOND" -> {<<0, 2>>, <<2, 0>>, <<4, 2>>, <<2, 4>>}
    [] shape = "TRIANGLE_UP" -> {<<0, 0>>, <<4, 0>>, <<2, 4>>}
    [] shape = "TRIANGLE_DOWN" -> {<<2, 0>>, <<4, 4>>, <<0, 4>>}
    [] shape = "TRIANGLE_LEFT" -> {<<0, 2>>, <<4, 0>>, <<4, 4>>}
    [] shape = "TRIANGLE_RIGHT" -> {<<0, 0>>, <<4, 2>>, <<0, 4>>}
    [] OTHER -> {<<0, 1>>, <<1, 0>>, <<3, 0>>, <<4, 1>>, <<4, 3>>, <<3, 4>>, <<1, 4>>, <<0, 3>>}
DrawnCorners(at, shape, quarter) ==
  {[a \in Axes |-> at[a] - 2 * quarter + quarter * (IF a = "x" THEN c[1] ELSE c[2])]
     : c \in Corners(shape)}

\* A quarter of the width.
DrawnQuarter(isHighlighted) == IF isHighlighted THEN Percent ELSE Percent \div 2

\* The inner edges of the frame that the axes draw.
FrameLow == -Percent
FrameHigh == 101 * Percent

-----------------------------------------------------------------------------
(* Where a process's boids are to go.  amounts are in a unit of which      *)
(* Unit is one percent of the axis.                                        *)

Hidden == [a \in Axes |-> -Percent]
Share(part, total) == IF total > 0 THEN Quotient(100 * Percent * part, total) ELSE 50 * Percent

\* position stands for the place of the total on the linear or the logarithmic
\* axis, the threshold for 1 percent there.
Destination(position, part, total) ==
  IF position < Percent THEN Hidden
  ELSE [a \in Axes |-> IF a = "x" THEN position ELSE Share(part, total)]

\* Memory is filtered before the logarithm, and drawn against page faults.
MemoryDestination(used, position, faults) ==
  IF used < Percent THEN Hidden
  ELSE [a \in Axes |-> IF a = "x" THEN position ELSE faults]

-----------------------------------------------------------------------------
(* Fps.cpp: the time between frames, in milliseconds of an unsigned int    *)
(* with Ticks values.                                                      *)

FrameTime == 1000 \div MAX_FPS
Delay(last, now, Ticks) ==
  LET spent == (now - last) % Ticks IN IF FrameTime > spent THEN FrameTime - spent ELSE 0
FrameStarts(last, now, Ticks) == (now + Delay(last, now, Ticks)) % Ticks

=============================================================================
