--------------------------- MODULE OperatorProofs ---------------------------
(***************************************************************************)
(* Theorems about the pure functions of the program, for every value.      *)
(* What is tapped is what is drawn (TableGeometry, Scroll, WallView), for  *)
(* every position, height, speed and grid; a boid arrives where Boids      *)
(* sends it; the scenes of Stage share the picture.  What is counted is    *)
(* what has happened: the differences of counters (Measures) and, as state *)
(* machines, the experiment and the messages of Experiment and Messages,   *)
(* for any number of hosts and servers.                                    *)
(***************************************************************************)
EXTENDS TableGeometry, Scroll, WallView, Boids, Stage, WVGeometry, Measures, Experiment,
        LinuxProcessMonitor, Charts, Messages, FiniteSetTheorems, TLAPS

-----------------------------------------------------------------------------
(* Quotients.                                                              *)

\* What \div means between naturals.
LEMMA DivBounds ==
  ASSUME NEW a \in Nat, NEW b \in Int, b > 0
  PROVE  /\ a \div b \in Nat
         /\ b * (a \div b) <= a
         /\ a < b * (a \div b) + b
BY SMTT(30)

\* The quotient is the only number within those bounds.
LEMMA DivUnique ==
  ASSUME NEW a \in Nat, NEW b \in Int, b > 0, NEW q \in Int,
         b * q <= a, a < b * q + b
  PROVE  a \div b = q
BY SMTT(30)

\* C++'s conversion to int rounds towards 0, from either side.
LEMMA QuotientBounds ==
  ASSUME NEW a \in Int, NEW b \in Int, b > 0
  PROVE  /\ Quotient(a, b) \in Int
         /\ a >= 0 => /\ 0 <= Quotient(a, b)
                      /\ b * Quotient(a, b) <= a
                      /\ a < b * Quotient(a, b) + b
         /\ a < 0 => /\ Quotient(a, b) <= 0
                     /\ b * Quotient(a, b) - b < a
                     /\ a <= b * Quotient(a, b)
<1>1. CASE a >= 0
  <2>1. Quotient(a, b) = a \div b
    BY <1>1 DEF Quotient
  <2> QED
    BY <1>1, <2>1, DivBounds
<1>2. CASE a < 0
  <2> DEFINE n == -a
  <2>1. n \in Nat /\ a = -n
    BY <1>2
  <2>2. Quotient(a, b) = -(n \div b)
    BY <1>2 DEF Quotient
  <2> HIDE DEF n
  <2>3. /\ n \div b \in Nat
        /\ b * (n \div b) <= n
        /\ n < b * (n \div b) + b
    BY <2>1, DivBounds
  <2>4. b * (-(n \div b)) = -(b * (n \div b))
    BY <2>3
  <2> QED
    BY <1>2, <2>1, <2>2, <2>3, <2>4
<1> QED
  BY <1>1, <1>2

\* The same for the conversion to int.
LEMMA QuotientUnique ==
  ASSUME NEW a \in Nat, NEW b \in Int, b > 0, NEW q \in Int,
         b * q <= a, a < b * q + b
  PROVE  Quotient(a, b) = q
BY DivUnique DEF Quotient

-----------------------------------------------------------------------------
(* Rows of a table.                                                        *)

\* The two roundings of _ItemNumberToPixel cancel: a row's upper edge is where
\* the list's position puts it.
LEMMA RowsAreEvenlySpaced ==
  ASSUME NEW pixel \in Int, NEW h \in Int, NEW top \in Int, NEW place \in Int,
         NEW hr \in Int, h > 0, hr = h * place
  PROVE  UpperEdge(pixel, h, top, place) = (top + pixel) - hr
<1> DEFINE s == Quotient(pixel, h)
<1>1. s \in Int
  BY QuotientBounds
<1>2. UpperEdge(pixel, h, top, place) = (top + (pixel - h * s)) - h * (place - s)
  BY DEF UpperEdge, ItemNumberToPixel, CurrentPixelToItemIndex, Fmod
<1> HIDE DEF s
<1>3. h * (place - s) = h * place - h * s
  BY <1>1
<1>4. h * s \in Int /\ h * place \in Int
  BY <1>1
<1> QED
  BY <1>2, <1>3, <1>4

\* A tap on a row that is drawn means that row (_RelativePixelToItemIndex
\* against the draw loops), however far the list is scrolled.
THEOREM RowDrawnIsRowTapped ==
  ASSUME NEW pixel \in Int, NEW h \in Int, h > 0, NEW top \in Int,
         NEW y \in Int, y <= top,
         NEW place \in Nat, Covers(pixel, h, top, place, y)
  PROVE  RelativePixelToItemIndex(pixel, h, top, y) = place
<1>1. PICK s \in Int : s = Quotient(pixel, h)
  BY QuotientBounds
<1>2. PICK hs \in Int : hs = h * s
  BY <1>1
<1>3. PICK hr \in Nat : hr = h * place
  OBVIOUS
<1>4. PICK a \in Int : a = (top - y) + (pixel - hs)
  BY <1>2
<1>5. RelativePixelToItemIndex(pixel, h, top, y) = Quotient(a, h) + s
  BY <1>1, <1>2, <1>4 DEF RelativePixelToItemIndex, CurrentPixelToItemIndex, Fmod
<1>6. UpperEdge(pixel, h, top, place) = (top + pixel) - hr
  <2>1. place \in Int /\ hr \in Int
    OBVIOUS
  <2> QED
    BY <1>3, <2>1, RowsAreEvenlySpaced
<1>7. hr <= (top + pixel) - y /\ (top + pixel) - y < hr + h
  BY <1>6 DEF Covers
<1>8. a \in Nat
  <2>1. CASE pixel >= 0
    <3>1. hs <= pixel
      BY <1>1, <1>2, <2>1, QuotientBounds
    <3> QED
      BY <1>2, <1>4, <3>1
  <2>2. CASE pixel < 0
    <3>1. s <= 0
      BY <1>1, <2>2, QuotientBounds
    <3>2. hs <= 0
      BY <1>1, <1>2, <3>1
    <3> QED
      BY <1>2, <1>3, <1>4, <1>7, <3>2
  <2> QED
    BY <2>1, <2>2
<1>9. h * (place - s) = hr - hs
  BY <1>1, <1>2, <1>3
<1>10. h * (place - s) <= a /\ a < h * (place - s) + h
  BY <1>2, <1>3, <1>4, <1>7, <1>9
<1>11. Quotient(a, h) = place - s
  BY <1>1, <1>8, <1>10, QuotientUnique
<1> QED
  BY <1>1, <1>5, <1>11

\* A tap that means a row is on that row, with one exception: when the list is
\* pulled down by less than a row, the gap above the first row counts as it.
THEOREM TapIsOnRowOrGap ==
  ASSUME NEW pixel \in Int, NEW h \in Int, h > 0, NEW top \in Int,
         NEW y \in Int, y <= top,
         NEW place \in Nat, RelativePixelToItemIndex(pixel, h, top, y) = place
  PROVE  \/ Covers(pixel, h, top, place, y)
         \/ /\ place = 0 /\ -h < pixel /\ pixel < 0
            /\ UpperEdge(pixel, h, top, place) < y
<1>1. PICK s \in Int : s = Quotient(pixel, h)
  BY QuotientBounds
<1>2. PICK hs \in Int : hs = h * s
  BY <1>1
<1>3. PICK hr \in Nat : hr = h * place
  OBVIOUS
<1>4. PICK a \in Int : a = (top - y) + (pixel - hs)
  BY <1>2
<1>5. PICK q \in Int : q = Quotient(a, h)
  BY QuotientBounds
<1>6. place = q + s
  BY <1>1, <1>2, <1>4, <1>5 DEF RelativePixelToItemIndex, CurrentPixelToItemIndex, Fmod
<1>7. UpperEdge(pixel, h, top, place) = (top + pixel) - hr
  <2>1. place \in Int /\ hr \in Int
    OBVIOUS
  <2> QED
    BY <1>3, <2>1, RowsAreEvenlySpaced
<1>8. CASE a >= 0
  <2>1. h * q <= a /\ a < h * q + h
    BY <1>5, <1>8, QuotientBounds
  <2>2. hr = h * q + hs
    BY <1>1, <1>2, <1>3, <1>5, <1>6
  <2>3. h * q \in Int
    BY <1>5
  <2>4. hr <= (top + pixel) - y /\ (top + pixel) - y < hr + h
    BY <1>2, <1>3, <1>4, <2>1, <2>2, <2>3
  <2> QED
    BY <1>3, <1>7, <2>4 DEF Covers
<1>9. CASE a < 0
  <2>1. pixel < 0
    <3> SUFFICES ASSUME pixel >= 0 PROVE FALSE
      OBVIOUS
    <3>1. hs <= pixel
      BY <1>1, <1>2, QuotientBounds
    <3> QED
      BY <1>2, <1>4, <1>9, <3>1
  <2>2. s <= 0 /\ h * s - h < pixel
    BY <1>1, <2>1, QuotientBounds
  <2>3. q <= 0
    BY <1>5, <1>9, QuotientBounds
  <2>4. s = 0 /\ q = 0 /\ place = 0
    BY <1>1, <1>5, <1>6, <2>2, <2>3
  <2>5. hs = 0 /\ hr = 0
    BY <1>2, <1>3, <2>4
  <2>6. -h < pixel
    BY <2>2, <2>4
  <2>7. top + pixel < y
    BY <1>4, <1>9, <2>5
  <2> QED
    BY <1>7, <2>1, <2>4, <2>5, <2>6, <2>7
<1> QED
  BY <1>8, <1>9

\* The draw loops start early enough: no row that reaches below the table's
\* top is skipped.
THEOREM RowsSeenAreDrawn ==
  ASSUME NEW pixel \in Int, NEW h \in Int, h > 0, NEW top \in Int, NEW place \in Nat,
         UpperEdge(pixel, h, top, place) - h < top
  PROVE  FirstDrawn(pixel, h) <= place
<1>1. PICK s \in Int : s = Quotient(pixel, h)
  BY QuotientBounds
<1>2. PICK hr \in Nat : hr = h * place
  OBVIOUS
<1>3. UpperEdge(pixel, h, top, place) = (top + pixel) - hr
  <2>1. place \in Int /\ hr \in Int
    OBVIOUS
  <2> QED
    BY <1>2, <2>1, RowsAreEvenlySpaced
<1>4. pixel < hr + h
  BY <1>2, <1>3
<1>5. CASE s > 0
  <2>1. pixel >= 0
    BY <1>1, <1>5, QuotientBounds
  <2>2. h * s <= pixel
    BY <1>1, <2>1, QuotientBounds
  <2>3. h * s < h * (place + 1)
    BY <1>1, <1>2, <1>4, <2>2
  <2>4. s < place + 1
    BY <1>1, <2>3
  <2> QED
    BY <1>1, <1>5, <2>4 DEF FirstDrawn, CurrentPixelToItemIndex
<1>6. CASE ~(s > 0)
  BY <1>1, <1>6 DEF FirstDrawn, CurrentPixelToItemIndex
<1> QED
  BY <1>5, <1>6

\* Wherever the list is and however fast it is scrolled, the half of the last
\* row stays below the table's top, and the first row goes down by no more
\* than the lowest position: the list cannot be scrolled out of sight.
THEOREM ListStaysInView ==
  ASSUME NEW h \in Int, h > 0, NEW top \in Int, NEW n \in Nat \ {0},
         NEW lowest \in Int, lowest <= 0,
         NEW pixel \in Int, lowest <= pixel, pixel <= MaxPixelIndex(n, h),
         NEW speed \in Nat,
         NEW next \in {ScrollDown(pixel, h, n, speed), ScrollUp(pixel, lowest, speed)}
  PROVE  /\ lowest <= next /\ next <= MaxPixelIndex(n, h)
         /\ 2 * (UpperEdge(next, h, top, n - 1) - h) <= 2 * top - h
         /\ UpperEdge(next, h, top, 0) >= top + lowest
<1>1. PICK hn \in Nat : hn = h * n
  OBVIOUS
<1>2. PICK m \in Int : m = MaxPixelIndex(n, h)
  <2>1. ((IF n > 2 THEN n ELSE 2) * (2 * h)) - 3 * h \in Int
    OBVIOUS
  <2> QED
    BY <2>1, QuotientBounds DEF MaxPixelIndex
<1>3. 0 <= m /\ (2 * m <= 2 * hn - 3 * h \/ (n = 1 /\ 2 * m <= h))
  <2>1. CASE n > 2
    <3>1. n * (2 * h) = 2 * hn
      BY <1>1
    <3>2. hn >= 3 * h
      BY <1>1, <2>1
    <3>3. 2 * hn - 3 * h \in Nat /\ m = Quotient(2 * hn - 3 * h, 2)
      BY <1>1, <1>2, <2>1, <3>1, <3>2 DEF MaxPixelIndex
    <3> QED
      BY <1>2, <3>3, QuotientBounds
  <2>2. CASE n <= 2
    <3>1. m = Quotient(h, 2)
      BY <1>2, <2>2 DEF MaxPixelIndex
    <3>2. 0 <= m /\ 2 * m <= h
      BY <1>2, <3>1, QuotientBounds
    <3>3. n = 1 \/ hn = 2 * h
      BY <1>1, <2>2
    <3> QED
      BY <1>1, <1>2, <3>2, <3>3
  <2> QED
    BY <2>1, <2>2
<1>4. next \in Int /\ lowest <= next /\ next <= m
  BY <1>2, <1>3 DEF ScrollDown, ScrollUp
<1>5. UpperEdge(next, h, top, n - 1) = (top + next) - (hn - h)
  <2>1. PICK i \in Int : i = n - 1
    OBVIOUS
  <2>2. PICK hi \in Int : hi = h * i
    BY <2>1
  <2>3. hi = hn - h
    BY <1>1, <2>1, <2>2
  <2>4. UpperEdge(next, h, top, i) = (top + next) - hi
    BY <1>4, <2>2, RowsAreEvenlySpaced
  <2> QED
    BY <2>1, <2>3, <2>4
<1>6. UpperEdge(next, h, top, 0) = (top + next) - 0
  <2>1. 0 = h * 0 /\ 0 \in Int
    OBVIOUS
  <2> QED
    BY <1>4, <2>1, RowsAreEvenlySpaced
<1>7. n = 1 => hn = h
  BY <1>1
<1> QED
  BY <1>1, <1>2, <1>3, <1>4, <1>5, <1>6, <1>7

-----------------------------------------------------------------------------
(* Speeds.                                                                 *)

\* A push keeps a speed between the clamps.
LEMMA PushBounds ==
  ASSUME NEW axis \in Axis, NEW delta \in Int, NEW now \in Int
  PROVE  Push(axis, delta, now) \in Axis /\ Bounded(Push(axis, delta, now))
<1>1. axis.speed \in Int /\ axis.current \in Int /\ axis.previous \in Int
  BY DEF Axis
<1>2. /\ Accelerate(axis.speed, delta) \in Int
      /\ Magnitude(Accelerate(axis.speed, delta)) <= MaxSpeed
  BY <1>1 DEF Accelerate, Magnitude, MaxSpeed
<1>3. /\ Push(axis, delta, now) \in Axis
      /\ Push(axis, delta, now).speed = Accelerate(axis.speed, delta)
  BY <1>1, <1>2 DEF Push, Axis
<1> QED
  BY <1>2, <1>3 DEF Bounded

\* However fast and however often an entity is touched, neither of its speeds
\* leaves the range that HandleHit clamps them to.
THEOREM TouchesKeepSpeedBounded ==
  ASSUME NEW entity \in Entities, Bounded(entity.scroll), Bounded(entity.swipe),
         NEW touch \in Touches, NEW swipeThreshold \in Int, NEW tapInterval \in Int
  PROVE  LET after == HandleHit(entity, touch, swipeThreshold, tapInterval)
         IN  after \in Entities /\ Bounded(after.scroll) /\ Bounded(after.swipe)
<1>1. /\ entity.scroll \in Axis /\ entity.swipe \in Axis /\ entity.tapped \in Int
      /\ touch.dx \in Int /\ touch.dy \in Int /\ touch.time \in Int
      /\ entity = [scroll |-> entity.scroll, swipe |-> entity.swipe, tapped |-> entity.tapped]
  BY DEF Entities, Touches
<1>2. /\ Push(entity.scroll, touch.dy, touch.time) \in Axis
      /\ Bounded(Push(entity.scroll, touch.dy, touch.time))
      /\ Push(entity.swipe, touch.dx, touch.time) \in Axis
      /\ Bounded(Push(entity.swipe, touch.dx, touch.time))
  BY <1>1, PushBounds
<1>3. HandleHit(entity, touch, swipeThreshold, tapInterval)
        \in {entity,
             [entity EXCEPT !.tapped = touch.time],
             [entity EXCEPT !.scroll = Push(entity.scroll, touch.dy, touch.time)],
             [entity EXCEPT !.swipe = Push(entity.swipe, touch.dx, touch.time)]}
  BY DEF HandleHit
<1>4. \A after \in {entity,
                    [entity EXCEPT !.tapped = touch.time],
                    [entity EXCEPT !.scroll = Push(entity.scroll, touch.dy, touch.time)],
                    [entity EXCEPT !.swipe = Push(entity.swipe, touch.dx, touch.time)]} :
        after \in Entities /\ Bounded(after.scroll) /\ Bounded(after.swipe)
  BY <1>1, <1>2 DEF Entities
<1> QED
  BY <1>3, <1>4

\* The callbacks keep the speeds in their range too.
THEOREM CallbacksKeepSpeedBounded ==
  ASSUME NEW axis \in Axis, Bounded(axis), NEW interval \in Int
  PROVE  RunCallbacks(axis, interval) \in Axis /\ Bounded(RunCallbacks(axis, interval))
<1>1. axis.speed \in Int /\ axis.current \in Int /\ axis.previous \in Int
  BY DEF Axis
<1>2. Slower(axis.speed) \in Int /\ Magnitude(Slower(axis.speed)) <= MaxSpeed
  BY <1>1 DEF Slower, Bounded, Magnitude, MaxSpeed, MinSpeed, Decay
<1>3. /\ RunCallbacks(axis, interval) \in Axis
      /\ RunCallbacks(axis, interval).speed \in {axis.speed, Slower(axis.speed)}
  BY <1>1, <1>2 DEF RunCallbacks, Axis
<1> QED
  BY <1>2, <1>3 DEF Bounded

\* A scroll comes to rest: each callback that is due takes Decay off the
\* speed, or all of it, and never turns the list around.
THEOREM EachCallbackSlowsDown ==
  ASSUME NEW axis \in Axis, NEW interval \in Int, IsDue(axis, interval)
  PROVE  LET speed == RunCallbacks(axis, interval).speed
         IN  /\ speed = 0 \/ Magnitude(speed) = Magnitude(axis.speed) - Decay
             /\ axis.speed >= 0 => speed >= 0
             /\ axis.speed <= 0 => speed <= 0
<1>1. axis.speed \in Int
  BY DEF Axis
<1>2. RunCallbacks(axis, interval).speed = Slower(axis.speed)
  BY DEF RunCallbacks, Axis
<1> QED
  BY <1>1, <1>2 DEF Slower, Magnitude, MinSpeed, Decay

\* An entity that sets an interval (the tables do, for swipes) gets at most one
\* callback for touches less than the interval apart: after one, no other is
\* due until a touch that is later by more than the interval.
THEOREM CallbacksKeepTheirInterval ==
  ASSUME NEW axis \in Axis, NEW interval \in Nat, IsDue(axis, interval),
         NEW delta \in Int, NEW now \in Int
  PROVE  LET after == RunCallbacks(axis, interval)
         IN  /\ ~IsDue(after, interval)
             /\ IsDue(Push(after, delta, now), interval) => now - axis.current > interval
<1>1. axis.current \in Int
  BY DEF Axis
<1>2. /\ RunCallbacks(axis, interval) \in [speed : {Slower(axis.speed)}, current : Int, previous : Int]
      /\ RunCallbacks(axis, interval).current = axis.current
      /\ RunCallbacks(axis, interval).previous = axis.current
  BY <1>1 DEF RunCallbacks, Axis
<1> QED
  BY <1>1, <1>2 DEF IsDue, Push

-----------------------------------------------------------------------------
(* Tiles of the wall.                                                      *)

\* Division of a place in the grid into row and column.
LEMMA PlaceInRow ==
  ASSUME NEW w \in Int, NEW i \in Int, NEW j \in Int, NEW k \in Int,
         w > 0, 0 <= j, j < w, 0 <= i, k = i * w + j
  PROVE  k \div w = i /\ k % w = j
<1>1. k \in Nat
  <2>1. i * w >= 0
    OBVIOUS
  <2> QED
    BY <2>1
<1>2. w * i <= k /\ k < w * i + w
  OBVIOUS
<1>3. k \div w = i
  BY <1>1, <1>2, DivUnique
<1>4. k % w = j
  BY SMTT(30)
<1> QED
  BY <1>3, <1>4

\* Row and column are those of the grid.
LEMMA PlaceInGrid ==
  ASSUME NEW w \in Int, NEW h \in Int, NEW i \in Int, NEW j \in Int,
         w > 0, 0 <= j, j < w, 0 <= i, i < h
  PROVE  i * w + j \in 0..(w * h - 1)
<1>1. PICK iw \in Int : iw = i * w
  OBVIOUS
<1>2. PICK wh \in Int : wh = w * h
  OBVIOUS
<1>3. iw >= 0
  BY <1>1
<1>4. iw + w <= wh
  BY <1>1, <1>2
<1> QED
  BY <1>1, <1>2, <1>3, <1>4

\* And make up the place again.
LEMMA PlaceIsRowAndColumn ==
  ASSUME NEW w \in Int, NEW k \in Nat, w > 0
  PROVE  /\ k \div w \in Int /\ k % w \in Int
         /\ 0 <= k % w /\ k % w < w /\ 0 <= k \div w
         /\ k = (k \div w) * w + (k % w)
BY SMTT(30)

\* How many columns and rows of a view are on the wall.
LEMMA GridSize ==
  ASSUME NEW view \in Views
  PROVE  /\ view.x \in Int /\ view.y \in Int /\ view.w \in Int /\ view.h \in Int
         /\ view.w > 0 /\ view.h > 0
         /\ Columns(view) \in Int /\ Columns(view) > 0
         /\ Columns(view) = Least(view.w, WALL_WIDTH - view.x)
         /\ Rows(view) \in Int /\ Rows(view) > 0
         /\ Rows(view) = Least(view.h, WALL_HEIGHT - view.y)
BY DEF Views, Columns, Rows, Least, WALL_WIDTH, WALL_HEIGHT

\* Where _GetIndex finds the tile of a column and a row of the grid.
LEMMA IndexOfTile ==
  ASSUME NEW view \in Views, NEW i \in Int, NEW j \in Int,
         0 <= i, i < Rows(view), 0 <= j, j < Columns(view)
  PROVE  GetIndex(view, [column |-> view.x + j, row |-> view.y + i])
           = i * Columns(view) + j
<1> DEFINE tile == [column |-> view.x + j, row |-> view.y + i]
           place == i * Columns(view) + j
<1>1. PICK w \in Int : w = Columns(view) /\ w > 0 /\ j < w
  BY GridSize
<1>2. PICK h \in Int : h = Rows(view) /\ h > 0 /\ i < h
  BY GridSize
<1>3. DOMAIN Grid(view) = 0..(w * h - 1)
  BY <1>1, <1>2 DEF Grid
<1>4. place \in DOMAIN Grid(view)
  BY <1>1, <1>2, <1>3, PlaceInGrid
<1>5. \A k \in DOMAIN Grid(view) :
        Grid(view)[k] = [column |-> view.x + (k % w), row |-> view.y + (k \div w)]
  BY <1>1 DEF Grid
<1>6. PICK p \in Int : p = place /\ p \div w = i /\ p % w = j
  BY <1>1, PlaceInRow
<1>7. Grid(view)[place] = tile
  BY <1>4, <1>5, <1>6
<1>8. ASSUME NEW k \in DOMAIN Grid(view), Grid(view)[k] = tile
      PROVE  k = place
  <2>1. k \in Nat
    BY <1>1, <1>2, <1>3
  <2>2. PICK q \in Int, r \in Int : q = k \div w /\ r = k % w /\ k = q * w + r
    BY <1>1, <2>1, PlaceIsRowAndColumn
  <2>3. view.x + r = view.x + j /\ view.y + q = view.y + i
    BY <1>5, <1>8, <2>2
  <2>4. r = j /\ q = i
    <3>1. PICK x \in Int, y \in Int : x = view.x /\ y = view.y
      BY GridSize
    <3> QED
      BY <2>2, <2>3, <3>1
  <2> QED
    BY <1>1, <2>2, <2>4
<1> HIDE DEF tile, place
<1>9. GetIndex(view, tile) = CHOOSE k \in DOMAIN Grid(view) : Grid(view)[k] = tile
  BY <1>4, <1>7 DEF GetIndex
<1>10. GetIndex(view, tile) = place
  BY <1>4, <1>7, <1>8, <1>9
<1> QED
  BY <1>10 DEF tile, place

\* IsTileWithin answers the question its name asks, for any grid that begins
\* on the wall, those that run over its edges included.
THEOREM WithinIsWithin ==
  ASSUME NEW view \in Views, NEW tile \in Tiles
  PROVE  IsTileWithin(view, tile) <=>
           /\ view.x <= tile.column /\ tile.column < view.x + view.w
           /\ view.y <= tile.row /\ tile.row < view.y + view.h
<1>1. /\ tile.column \in Int /\ 0 <= tile.column /\ tile.column < WALL_WIDTH
      /\ tile.row \in Int /\ 0 <= tile.row /\ tile.row < WALL_HEIGHT
  BY DEF Tiles, WALL_WIDTH, WALL_HEIGHT
<1>2. ASSUME view.x <= tile.column, tile.column < view.x + view.w,
             view.y <= tile.row, tile.row < view.y + view.h
      PROVE  IsTileWithin(view, tile)
  <2>1. PICK i \in Int, j \in Int : i = tile.row - view.y /\ j = tile.column - view.x
    BY <1>1, GridSize
  <2>2. 0 <= i /\ i < Rows(view) /\ 0 <= j /\ j < Columns(view)
    BY <1>1, <1>2, <2>1, GridSize DEF Least, WALL_WIDTH, WALL_HEIGHT
  <2>3. tile = [column |-> view.x + j, row |-> view.y + i]
    BY <1>1, <2>1, GridSize DEF Tiles
  <2>4. GetIndex(view, tile) = i * Columns(view) + j
    BY <2>2, <2>3, IndexOfTile
  <2>5. i * Columns(view) + j \in 0..(Columns(view) * Rows(view) - 1)
    BY <2>2, GridSize, PlaceInGrid
  <2>6. Columns(view) * Rows(view) \in Int
    BY GridSize
  <2> QED
    BY <2>4, <2>5, <2>6 DEF IsTileWithin
<1>3. ASSUME IsTileWithin(view, tile)
      PROVE  /\ view.x <= tile.column /\ tile.column < view.x + view.w
             /\ view.y <= tile.row /\ tile.row < view.y + view.h
  <2>1. PICK k \in DOMAIN Grid(view) : Grid(view)[k] = tile
    BY <1>3 DEF IsTileWithin, GetIndex
  <2>2. PICK w \in Int : w = Columns(view) /\ w > 0
    BY GridSize
  <2>3. PICK h \in Int : h = Rows(view) /\ h > 0
    BY GridSize
  <2>4. k \in 0..(w * h - 1) /\ w * h \in Int
    BY <2>1, <2>2, <2>3 DEF Grid
  <2>5. PICK q \in Int, r \in Int : /\ q = k \div w /\ r = k % w /\ k = q * w + r
                                    /\ 0 <= r /\ r < w /\ 0 <= q
    <3>1. k \in Nat
      BY <2>4
    <3> QED
      BY <2>2, <3>1, PlaceIsRowAndColumn
  <2>6. tile.column = view.x + r /\ tile.row = view.y + q
    BY <2>1, <2>2, <2>5 DEF Grid
  <2>7. q < h
    <3>1. q * w < w * h
      BY <2>2, <2>3, <2>4, <2>5
    <3> QED
      BY <2>2, <2>3, <2>5, <3>1
  <2>8. w <= view.w /\ h <= view.h
    BY <2>2, <2>3, GridSize DEF Least
  <2>9. PICK x \in Int, y \in Int : x = view.x /\ y = view.y
    BY GridSize
  <2>10. PICK vw \in Int, vh \in Int : vw = view.w /\ vh = view.h
    BY GridSize
  <2>11. tile.column = x + r /\ tile.row = y + q
    BY <2>6, <2>9
  <2>12. x <= x + r /\ x + r < x + vw /\ y <= y + q /\ y + q < y + vh
    <3>1. w <= vw /\ h <= vh
      BY <2>8, <2>10
    <3>2. 0 <= r /\ r < w /\ 0 <= q
      BY <2>5
    <3> QED
      BY <2>7, <3>1, <3>2
  <2> QED
    BY <2>9, <2>10, <2>11, <2>12
<1> QED
  BY <1>2, <1>3

\* Every grid has one lower left tile, and so the application one master.
THEOREM OneLowerLeft ==
  ASSUME NEW view \in Views, NEW tile \in Tiles
  PROVE  IsLowerLeft(view, tile) <=> tile.column = view.x /\ tile.row = view.y
<1>1. tile = [column |-> tile.column, row |-> tile.row] /\ tile.column \in Int /\ tile.row \in Int
  BY DEF Tiles
<1>2. /\ GetIndex(view, [column |-> view.x + 0, row |-> view.y + 0]) = 0 * Columns(view) + 0
      /\ 0 * Columns(view) + 0 = 0 /\ view.x + 0 = view.x /\ view.y + 0 = view.y
  BY GridSize, IndexOfTile
<1>3. ASSUME IsLowerLeft(view, tile)
      PROVE  tile.column = view.x /\ tile.row = view.y
  <2>1. 0 \in DOMAIN Grid(view) /\ Grid(view)[0] = tile
    <3>1. GetIndex(view, tile) = 0
      BY <1>3 DEF IsLowerLeft
    <3>2. \E k \in DOMAIN Grid(view) : Grid(view)[k] = tile
      BY <3>1 DEF GetIndex
    <3> QED
      BY <3>1, <3>2 DEF GetIndex
  <2>2. PICK w \in Int : w = Columns(view) /\ w > 0
    BY GridSize
  <2>3. 0 % w = 0 /\ 0 \div w = 0
    BY <2>2, PlaceInRow
  <2> QED
    BY <2>1, <2>2, <2>3, GridSize DEF Grid
<1> QED
  BY <1>1, <1>2, <1>3 DEF IsLowerLeft

\* For a grid that fits on the wall, drawing and touching agree: a touch on the
\* screen of one of its tiles is accepted, and becomes a position in the part
\* of the picture that this tile shows (FilterAndRouteEvent against
\* GetDisplayArea).  For one that runs over the right edge they do not:
\* _grid has fewer columns than the _w that _IndexToCoordinates divides by.
THEOREM TouchMeetsItsTile ==
  ASSUME NEW view \in Views, FitsOnWall(view),
         NEW tile \in Tiles, IsTileWithin(view, tile),
         NEW x \in Int, NEW y \in Int, IsOn(tile, x, y)
  PROVE  LET area == GetDisplayArea(view, tile)
             touch == GlobalToGridCoords(view, x, y)
         IN  /\ IsCordsWithin(view, x, y)
             /\ area.x <= touch.x /\ touch.x < area.x + TILE_SCREEN_WIDTH
             /\ area.y <= touch.y /\ touch.y < area.y + TILE_SCREEN_HEIGHT
<1>1. /\ view.x <= tile.column /\ tile.column < view.x + view.w
      /\ view.y <= tile.row /\ tile.row < view.y + view.h
  BY WithinIsWithin
<1>2. tile.column \in Int /\ tile.row \in Int
  BY DEF Tiles
<1>3. PICK i \in Int, j \in Int : i = tile.row - view.y /\ j = tile.column - view.x
  BY <1>2, GridSize
<1>4. Columns(view) = view.w /\ Rows(view) = view.h
  BY GridSize DEF FitsOnWall, Least, WALL_WIDTH, WALL_HEIGHT
<1>5. 0 <= i /\ i < Rows(view) /\ 0 <= j /\ j < Columns(view)
  BY <1>1, <1>2, <1>3, <1>4, GridSize
<1>6. tile = [column |-> view.x + j, row |-> view.y + i]
  BY <1>2, <1>3, GridSize DEF Tiles
<1>7. PICK k \in Int : k = i * view.w + j /\ GetIndex(view, tile) = k
  BY <1>4, <1>5, <1>6, IndexOfTile, GridSize
<1>8. k \div view.w = i /\ k % view.w = j
  BY <1>4, <1>5, <1>7, GridSize, PlaceInRow, SMTT(20)
<1>9. GetDisplayArea(view, tile) = [x |-> TILE_SCREEN_WIDTH * j, y |-> TILE_SCREEN_HEIGHT * i]
  BY <1>7, <1>8 DEF GetDisplayArea, IndexToCoordinates
<1> QED
  BY <1>1, <1>2, <1>3, <1>9, GridSize
  DEF GlobalToGridCoords, IsCordsWithin, IsOn, TILE_SCREEN_WIDTH, TILE_SCREEN_HEIGHT

-----------------------------------------------------------------------------
(* Boids.                                                                  *)

InField(boid) == \A a \in Axes : 0 <= boid.at[a] /\ boid.at[a] <= 100 * Percent - Radius

\* What is left to go, seen along one axis: the steps, and less than one unit
\* for every frame of a second, in the same direction.
Ahead(rest, speed, steps) ==
  \/ /\ 0 <= speed /\ steps * speed <= rest /\ rest < steps * speed + MAX_FPS
  \/ /\ speed <= 0 /\ rest <= steps * speed /\ steps * speed - MAX_FPS < rest
OnCourse(boid, steps) ==
  /\ steps \in 0..MAX_FPS
  /\ \A a \in Axes : Ahead(boid.old[a] - boid.at[a], boid.speed[a], steps)

\* A boid steers for a place in the field, or stands still, or is new.
MotionInv(boid) ==
  /\ boid \in Boid
  /\ InField(boid)
  /\ \/ \A a \in Axes : boid.speed[a] = 0
     \/ \A a \in Axes : boid.old[a] = -Percent
     \/ /\ \A a \in Axes : boid.old[a] \in Radius..(100 * Percent - Radius)
        /\ \E steps \in Int : OnCourse(boid, steps)

\* A destination is put between the axes.
LEMMA BetweenInField ==
  ASSUME NEW place \in Int
  PROVE  Between(place) \in Radius..(100 * Percent - Radius)
<1> DEFINE high == 100 * Percent - Radius
<1>1. Radius \in Int /\ high \in Int /\ Radius <= high
  BY DEF Radius, Percent
<1>2. Between(place) = IF place < Radius THEN Radius ELSE IF place > high THEN high ELSE place
  BY DEF Between
<1> HIDE DEF high
<1>3. Between(place) \in Radius..high
  BY <1>1, <1>2
<1> QED
  BY <1>3 DEF high

LEMMA AlignedInField ==
  ASSUME NEW dest \in Points
  PROVE  /\ Aligned(dest) \in Points
         /\ \A a \in Axes : Aligned(dest)[a] \in Radius..(100 * Percent - Radius)
<1>1. \A a \in Axes : dest[a] \in Int
  BY DEF Points
<1>2. \A a \in Axes : Between(dest[a]) \in Radius..(100 * Percent - Radius)
  BY <1>1, BetweenInField
<1>3. \A n \in Radius..(100 * Percent - Radius) : n \in Int
  OBVIOUS
<1>4. \A a \in Axes : Between(dest[a]) \in Int
  BY <1>2, <1>3
<1> QED
  BY <1>2, <1>4, Zenon DEF Aligned, Points

\* A new course needs 35 steps, and a rest that one frame covers.
LEMMA CourseSet ==
  ASSUME NEW rest \in Int
  PROVE  /\ Quotient(rest, MAX_FPS) \in Int
         /\ Ahead(rest, Quotient(rest, MAX_FPS), MAX_FPS)
<1> DEFINE s == Quotient(rest, MAX_FPS)
<1>1. /\ s \in Int
      /\ rest >= 0 => 0 <= s /\ MAX_FPS * s <= rest /\ rest < MAX_FPS * s + MAX_FPS
      /\ rest < 0 => s <= 0 /\ MAX_FPS * s - MAX_FPS < rest /\ rest <= MAX_FPS * s
  BY QuotientBounds DEF MAX_FPS
<1> QED
  BY <1>1 DEF Ahead, MAX_FPS

\* Each step of a course leaves one step fewer, and stays on this side of the
\* destination.
LEMMA CourseStep ==
  ASSUME NEW at \in Int, NEW old \in Int, NEW speed \in Int, NEW steps \in Int, steps > 0,
         Ahead(old - at, speed, steps)
  PROVE  /\ Ahead(old - (at + speed), speed, steps - 1)
         /\ at <= old => at <= at + speed /\ at + speed <= old
         /\ old <= at => old <= at + speed /\ at + speed <= at
<1>1. (steps - 1) * speed = steps * speed - speed
  OBVIOUS
<1> DEFINE p == steps * speed
<1>2. p \in Int
  OBVIOUS
<1>3. /\ speed >= 0 => speed <= p
      /\ speed <= 0 => p <= speed
  OBVIOUS
<1> HIDE DEF p
<1>4. \/ 0 <= speed /\ p <= old - at /\ old - at < p + MAX_FPS
      \/ speed <= 0 /\ old - at <= p /\ p - MAX_FPS < old - at
  BY DEF Ahead, p
<1>5. (steps - 1) * speed = p - speed
  BY <1>1 DEF p
<1>6. Ahead(old - (at + speed), speed, steps - 1)
  BY <1>2, <1>4, <1>5 DEF Ahead, MAX_FPS
<1>7. /\ at <= old => at <= at + speed /\ at + speed <= old
      /\ old <= at => old <= at + speed /\ at + speed <= at
  BY <1>2, <1>3, <1>4
<1> QED
  BY <1>6, <1>7

\* So that it leads from place to place of the field.
LEMMA CourseInField ==
  ASSUME NEW at \in Int, NEW old \in Int, NEW speed \in Int, NEW steps \in Int, steps > 0,
         Ahead(old - at, speed, steps),
         0 <= at, at <= 100 * Percent - Radius, Radius <= old, old <= 100 * Percent - Radius
  PROVE  0 <= at + speed /\ at + speed <= 100 * Percent - Radius
<1> DEFINE p == at + speed
<1>1. /\ at <= old => at <= p /\ p <= old
      /\ old <= at => old <= p /\ p <= at
  BY CourseStep
<1>2. p \in Int
  OBVIOUS
<1> HIDE DEF p
<1>3. 0 <= p /\ p <= 100 * Percent - Radius
  BY <1>1, <1>2 DEF Radius, Percent
<1> QED
  BY <1>3 DEF p

\* A course without a step left has arrived.
LEMMA CourseDone ==
  ASSUME NEW at \in Int, NEW old \in Int, NEW speed \in Int, Ahead(old - at, speed, 0)
  PROVE  2 * Distance(at, old) < Percent
BY DEF Ahead, Distance, MAX_FPS, Percent

\* A boid from its fields.
LEMMA BoidFields ==
  /\ \A boid \in Boid : /\ boid.tail \in Nat /\ boid.visible \in BOOLEAN
                        /\ boid.at \in Points /\ boid.speed \in Points /\ boid.old \in Points
                        /\ \A a \in Axes : /\ boid.at[a] \in Int /\ boid.speed[a] \in Int
                                           /\ boid.old[a] \in Int
  /\ \A boid \in Boid, at \in Points : [boid EXCEPT !.at = at] \in Boid
  /\ \A boid \in Boid, speed \in Points : [boid EXCEPT !.speed = speed] \in Boid
  /\ \A boid \in Boid, old \in Points, speed \in Points :
       [boid EXCEPT !.old = old, !.speed = speed] \in Boid
BY DEF Boid, Points

\* A fresh boid, before its first frame.
LEMMA NewBoidInv ==
  ASSUME NEW boid \in NewBoids
  PROVE  MotionInv(boid)
<1>1. boid \in Boid /\ boid.at = [a \in Axes |-> 0] /\ boid.old = [a \in Axes |-> -Percent]
  BY DEF NewBoids
<1>2. \A a \in Axes : boid.at[a] = 0 /\ boid.old[a] = -Percent
  BY <1>1
<1>3. InField(boid)
  BY <1>2 DEF InField, Percent, Radius
<1> QED
  BY <1>1, <1>2, <1>3 DEF MotionInv

\* Where a frame's step leads, on a course that is not finished.
LEMMA CourseKept ==
  ASSUME NEW boid \in Boid, InField(boid), NEW steps \in Int, steps > 0, OnCourse(boid, steps),
         \A a \in Axes : boid.old[a] \in Radius..(100 * Percent - Radius)
  PROVE  /\ Moved(boid) \in Boid /\ Moved(boid).old = boid.old
         /\ InField(Moved(boid))
         /\ OnCourse(Moved(boid), steps - 1)
<1> DEFINE to == [a \in Axes |-> boid.at[a] + boid.speed[a]]
<1>1. \A a \in Axes : /\ boid.at[a] \in Int /\ boid.speed[a] \in Int /\ boid.old[a] \in Int
  BY BoidFields
<1>2. to \in Points
  BY <1>1 DEF Points
<1>3. Moved(boid) = [boid EXCEPT !.at = to]
  BY DEF Moved
<1> HIDE DEF to
<1>4. Moved(boid) \in Boid
  BY <1>2, <1>3, BoidFields
<1>5. Moved(boid).at = to /\ Moved(boid).speed = boid.speed /\ Moved(boid).old = boid.old
  BY <1>3 DEF Boid
<1>6. ASSUME NEW a \in Axes
      PROVE  /\ 0 <= to[a] /\ to[a] <= 100 * Percent - Radius
             /\ Ahead(boid.old[a] - to[a], boid.speed[a], steps - 1)
  <2>1. to[a] = boid.at[a] + boid.speed[a]
    BY DEF to
  <2>2. /\ 0 <= boid.at[a] /\ boid.at[a] <= 100 * Percent - Radius
        /\ Radius <= boid.old[a] /\ boid.old[a] <= 100 * Percent - Radius
        /\ Ahead(boid.old[a] - boid.at[a], boid.speed[a], steps)
    BY <1>1 DEF InField, OnCourse
  <2>3. boid.at[a] \in Int /\ boid.speed[a] \in Int /\ boid.old[a] \in Int
    BY <1>1
  <2>4. Ahead(boid.old[a] - (boid.at[a] + boid.speed[a]), boid.speed[a], steps - 1)
    BY <2>2, <2>3, CourseStep
  <2>5. /\ 0 <= boid.at[a] + boid.speed[a]
        /\ boid.at[a] + boid.speed[a] <= 100 * Percent - Radius
    BY <2>2, <2>3, CourseInField
  <2> QED
    BY <2>1, <2>4, <2>5
<1>7. steps - 1 \in 0..MAX_FPS
  BY DEF OnCourse, MAX_FPS
<1> QED
  BY <1>4, <1>5, <1>6, <1>7 DEF InField, OnCourse

\* A boid that has not arrived steers for its destination and moves there.
LEMMA SteeredOnCourse ==
  ASSUME NEW boid \in Boid, InField(boid), NEW dest \in Points, dest # boid.old
  PROVE  /\ Steered(boid, dest) \in Boid /\ Steered(boid, dest).old = dest
         /\ InField(Steered(boid, dest))
         /\ OnCourse(Steered(boid, dest), MAX_FPS)
<1> DEFINE speed == [a \in Axes |-> Quotient(dest[a] - boid.at[a], MAX_FPS)]
           b == Steered(boid, dest)
<1>1. \A a \in Axes : boid.at[a] \in Int /\ dest[a] \in Int
  BY BoidFields DEF Points
<1>2. \A a \in Axes : /\ speed[a] \in Int
                      /\ Ahead(dest[a] - boid.at[a], speed[a], MAX_FPS)
  <2>1. \A a \in Axes : dest[a] - boid.at[a] \in Int
    BY <1>1
  <2> QED
    BY <2>1, CourseSet
<1>3. speed \in Points
  <2>1. \A a \in Axes : Quotient(dest[a] - boid.at[a], MAX_FPS) \in Int
    BY <1>2
  <2> QED
    BY <2>1 DEF Points
<1>4. b = [boid EXCEPT !.old = dest, !.speed = speed]
  BY DEF Steered
<1> HIDE DEF speed, b
<1>5. b \in Boid
  BY <1>3, <1>4, BoidFields
<1>6. b.old = dest /\ b.speed = speed /\ b.at = boid.at
  BY <1>4 DEF Boid
<1>7. OnCourse(b, MAX_FPS)
  BY <1>2, <1>6 DEF OnCourse, MAX_FPS
<1>8. InField(b)
  BY <1>6 DEF InField
<1> QED
  BY <1>5, <1>6, <1>7, <1>8 DEF b

\* Boid::OnLoop keeps a boid in the field, from whichever destination to
\* whichever other it is sent, also by the two floats that a new
\* BoidSharedContext has not set yet: from where it is it only ever moves
\* towards a place in the field, and never past it.
THEOREM BoidStaysInField ==
  ASSUME NEW boid, MotionInv(boid), NEW dest \in Points, NEW tailLength \in Nat
  PROVE  MotionInv(OnLoop(boid, dest, tailLength))
<1>1. boid \in Boid /\ InField(boid)
  BY DEF MotionInv
<1>2. \A a \in Axes : boid.at[a] \in Int /\ boid.speed[a] \in Int /\ boid.old[a] \in Int
  BY <1>1, BoidFields
<1>3. ASSUME NEW b, MotionInv(b), NEW visible \in BOOLEAN, NEW tail \in Nat
      PROVE  MotionInv([b EXCEPT !.visible = visible, !.tail = tail])
  <2> DEFINE c == [b EXCEPT !.visible = visible, !.tail = tail]
  <2>1. b \in Boid
    BY <1>3 DEF MotionInv
  <2>2. c \in Boid /\ c.at = b.at /\ c.old = b.old /\ c.speed = b.speed
    BY <1>3, <2>1 DEF Boid
  <2> QED
    BY <1>3, <2>2 DEF MotionInv, InField, OnCourse
<1>4. CASE \E a \in Axes : dest[a] < 0
  <2> DEFINE c == [boid EXCEPT !.visible = FALSE]
  <2>1. c \in Boid /\ c.at = boid.at /\ c.old = boid.old /\ c.speed = boid.speed
    BY <1>1 DEF Boid
  <2>2. OnLoop(boid, dest, tailLength) = c
    BY <1>4 DEF OnLoop
  <2> QED
    BY <2>1, <2>2 DEF MotionInv, InField, OnCourse
<1>5. CASE ~ \E a \in Axes : dest[a] < 0
  <2> DEFINE d == Aligned(dest)
             next == Approach(boid, d)
  <2>1. d \in Points /\ \A a \in Axes : d[a] \in Radius..(100 * Percent - Radius)
    BY AlignedInField
  <2>2. OnLoop(boid, dest, tailLength)
          = [next EXCEPT !.visible = TRUE, !.tail = TailAfter(boid.tail, tailLength)]
    BY <1>5 DEF OnLoop
  <2>3. TailAfter(boid.tail, tailLength) \in Nat
    <3>1. boid.tail \in Nat
      BY <1>1, BoidFields
    <3> QED
      BY <3>1 DEF TailAfter
  <2> HIDE DEF d
  <2>4. MotionInv(next)
    <3>1. CASE IsDestinationReached(boid, d)
      <4> DEFINE still == [a \in Axes |-> 0]
      <4>1. next = [boid EXCEPT !.speed = still]
        BY <3>1 DEF Approach
      <4>2. still \in Points /\ \A a \in Axes : still[a] = 0
        BY DEF Points
      <4> HIDE DEF still
      <4>3. next \in Boid
        BY <1>1, <4>1, <4>2, BoidFields
      <4>4. next.speed = still /\ next.at = boid.at
        BY <1>1, <4>1 DEF Boid
      <4> QED
        BY <1>1, <4>2, <4>3, <4>4 DEF MotionInv, InField
    <3>2. CASE ~IsDestinationReached(boid, d) /\ d # boid.old
      <4>1. next = Moved(Steered(boid, d))
        BY <3>2 DEF Approach
      <4>2. /\ Steered(boid, d) \in Boid /\ Steered(boid, d).old = d
            /\ InField(Steered(boid, d)) /\ OnCourse(Steered(boid, d), MAX_FPS)
        BY <1>1, <2>1, <3>2, SteeredOnCourse
      <4>3. MAX_FPS \in Int /\ MAX_FPS > 0 /\ MAX_FPS - 1 \in Int
        BY DEF MAX_FPS
      <4>4. /\ next \in Boid /\ next.old = d /\ InField(next)
            /\ OnCourse(next, MAX_FPS - 1)
        BY <2>1, <4>1, <4>2, <4>3, CourseKept
      <4> QED
        BY <2>1, <4>3, <4>4 DEF MotionInv
    <3>3. CASE ~IsDestinationReached(boid, d) /\ d = boid.old
      <4>1. next = Moved(boid)
        BY <3>3 DEF Approach, Steered
      <4>2. CASE \A a \in Axes : boid.speed[a] = 0
        <5> DEFINE to == [a \in Axes |-> boid.at[a] + boid.speed[a]]
        <5>1. next = [boid EXCEPT !.at = to]
          BY <4>1 DEF Moved
        <5>2. \A a \in Axes : to[a] = boid.at[a]
          BY <1>2, <4>2
        <5>3. to \in Points
          BY <1>2 DEF Points
        <5> HIDE DEF to
        <5>4. next \in Boid
          BY <1>1, <5>1, <5>3, BoidFields
        <5>5. next.speed = boid.speed /\ next.at = to
          BY <1>1, <5>1 DEF Boid
        <5> QED
          BY <1>1, <4>2, <5>2, <5>4, <5>5 DEF MotionInv, InField
      <4>3. ASSUME \A a \in Axes : boid.old[a] = -Percent
            PROVE  FALSE
        <5>1. "x" \in Axes
          BY DEF Axes
        <5>2. d["x"] \in Radius..(100 * Percent - Radius) /\ d["x"] = -Percent
          BY <2>1, <3>3, <4>3, <5>1
        <5> QED
          BY <5>2 DEF Radius, Percent
      <4>4. ASSUME NEW steps \in Int, OnCourse(boid, steps)
            PROVE  MotionInv(next)
        <5>1. steps # 0
          <6>1. ASSUME steps = 0
                PROVE  \A a \in Axes : 2 * Distance(boid.at[a], d[a]) < Percent
            <7>1. \A a \in Axes : Ahead(boid.old[a] - boid.at[a], boid.speed[a], 0)
              BY <4>4, <6>1 DEF OnCourse
            <7> QED
              BY <1>2, <3>3, <7>1, CourseDone
          <6> QED
            BY <3>3, <6>1 DEF IsDestinationReached
        <5>2. steps > 0
          BY <4>4, <5>1 DEF OnCourse
        <5>3. /\ next \in Boid /\ next.old = d /\ InField(next)
              /\ OnCourse(next, steps - 1)
          BY <1>1, <2>1, <3>3, <4>1, <4>4, <5>2, CourseKept
        <5>4. steps - 1 \in Int
          BY <4>4
        <5> QED
          BY <2>1, <5>3, <5>4 DEF MotionInv
      <4> QED
        BY <4>2, <4>3, <4>4 DEF MotionInv
    <3> QED
      BY <3>1, <3>2, <3>3
  <2> HIDE DEF next
  <2>5. TRUE \in BOOLEAN
    OBVIOUS
  <2>6. MotionInv([next EXCEPT !.visible = TRUE, !.tail = TailAfter(boid.tail, tailLength)])
    BY <1>3, <2>3, <2>4, <2>5
  <2> QED
    BY <2>2, <2>6
<1> QED
  BY <1>4, <1>5

\* Boid::OnLoop arrives: a boid that is sent to a new place is within half a
\* percent of it after at most a second's 35 frames, as each frame that does
\* not find it there leaves one step fewer, and none is left on no course.
THEOREM BoidArrives ==
  ASSUME NEW boid \in Boid, InField(boid), NEW dest \in Points, NEW tailLength \in Nat,
         \A a \in Axes : dest[a] >= 0,
         ~IsDestinationReached(boid, Aligned(dest))
  PROVE  LET next == OnLoop(boid, dest, tailLength)
         IN  /\ next.old = Aligned(dest)
             /\ boid.old # Aligned(dest) => OnCourse(next, MAX_FPS - 1)
             /\ \A steps \in Int :
                  boid.old = Aligned(dest) /\ OnCourse(boid, steps)
                    => steps > 0 /\ OnCourse(next, steps - 1)
<1> DEFINE d == Aligned(dest)
           moved == Approach(boid, d)
           next == OnLoop(boid, dest, tailLength)
<1>1. d \in Points /\ \A a \in Axes : d[a] \in Radius..(100 * Percent - Radius)
  BY AlignedInField
<1>2. ~ \E a \in Axes : dest[a] < 0
  <2>1. \A a \in Axes : dest[a] \in Int
    BY DEF Points
  <2> QED
    BY <2>1
<1>3. next = [moved EXCEPT !.visible = TRUE, !.tail = TailAfter(boid.tail, tailLength)]
  BY <1>2 DEF OnLoop
<1>4. ~IsDestinationReached(boid, d)
  OBVIOUS
<1> HIDE DEF d, moved, next
<1>5. moved = Moved(Steered(boid, d))
  BY <1>4 DEF Approach, moved
<1>6. ASSUME moved \in Boid
      PROVE  next.old = moved.old /\ \A steps \in Int : OnCourse(moved, steps) => OnCourse(next, steps)
  <2>1. next.at = moved.at /\ next.speed = moved.speed /\ next.old = moved.old
    BY <1>3, <1>6 DEF Boid
  <2> QED
    BY <2>1 DEF OnCourse
<1>7. MAX_FPS \in Int /\ MAX_FPS > 0 /\ MAX_FPS - 1 \in Int
  BY DEF MAX_FPS
<1>8. ASSUME boid.old # d
      PROVE  next.old = d /\ OnCourse(next, MAX_FPS - 1)
  <2>1. /\ Steered(boid, d) \in Boid /\ Steered(boid, d).old = d
        /\ InField(Steered(boid, d)) /\ OnCourse(Steered(boid, d), MAX_FPS)
    BY <1>1, <1>8, SteeredOnCourse
  <2>2. moved \in Boid /\ moved.old = d /\ OnCourse(moved, MAX_FPS - 1)
    BY <1>1, <1>5, <1>7, <2>1, CourseKept
  <2> QED
    BY <1>6, <1>7, <2>2
<1>9. ASSUME boid.old = d
      PROVE  next.old = d
  <2> DEFINE to == [a \in Axes |-> boid.at[a] + boid.speed[a]]
  <2>1. moved = [boid EXCEPT !.at = to]
    BY <1>5, <1>9 DEF Steered, Moved
  <2>2. to \in Points
    <3>1. \A a \in Axes : boid.at[a] \in Int /\ boid.speed[a] \in Int
      BY BoidFields
    <3>2. \A a \in Axes : boid.at[a] + boid.speed[a] \in Int
      BY <3>1
    <3> QED
      BY <3>2 DEF Points
  <2> HIDE DEF to
  <2>3. moved \in Boid
    BY <2>1, <2>2, BoidFields
  <2>4. moved.old = boid.old
    BY <2>1 DEF Boid
  <2> QED
    BY <1>6, <1>9, <2>3, <2>4
<1>10. ASSUME NEW steps \in Int, boid.old = d, OnCourse(boid, steps)
       PROVE  steps > 0 /\ OnCourse(next, steps - 1)
  <2>1. \A a \in Axes : boid.at[a] \in Int /\ boid.speed[a] \in Int /\ boid.old[a] \in Int
    BY BoidFields
  <2>2. steps # 0
    <3>1. ASSUME steps = 0
          PROVE  \A a \in Axes : 2 * Distance(boid.at[a], d[a]) < Percent
      <4>1. \A a \in Axes : Ahead(boid.old[a] - boid.at[a], boid.speed[a], 0)
        BY <1>10, <3>1 DEF OnCourse
      <4> QED
        BY <1>10, <2>1, <4>1, CourseDone
    <3> QED
      BY <1>4, <3>1 DEF IsDestinationReached
  <2>3. steps > 0 /\ steps - 1 \in Int
    BY <1>10, <2>2 DEF OnCourse
  <2>4. moved = Moved(boid)
    BY <1>5, <1>10 DEF Steered
  <2>5. \A a \in Axes : boid.old[a] \in Radius..(100 * Percent - Radius)
    BY <1>1, <1>10
  <2>6. moved \in Boid /\ OnCourse(moved, steps - 1)
    BY <1>10, <2>3, <2>4, <2>5, CourseKept
  <2> QED
    BY <1>6, <2>3, <2>6
<1> QED
  BY <1>8, <1>9, <1>10 DEF d, next

\* Boid::OnLoop forgets where it is: a boid that happens to be within half a
\* percent of a destination stands still and keeps the destination it was
\* steered for before, and while it is sent there again it never moves, however
\* far it is.
THEOREM BoidStranded ==
  ASSUME NEW boid \in Boid, NEW dest \in Points, NEW tailLength \in Nat,
         \A a \in Axes : dest[a] >= 0
  PROVE  LET next == OnLoop(boid, dest, tailLength)
         IN  /\ IsDestinationReached(boid, Aligned(dest))
                  => /\ next.at = boid.at /\ next.old = boid.old
                     /\ \A a \in Axes : next.speed[a] = 0
             /\ /\ boid.old = Aligned(dest)
                /\ \A a \in Axes : boid.speed[a] = 0
                => /\ next.at = boid.at /\ next.old = boid.old
                   /\ \A a \in Axes : next.speed[a] = 0
<1> DEFINE d == Aligned(dest)
           moved == Approach(boid, d)
           next == OnLoop(boid, dest, tailLength)
           still == [a \in Axes |-> 0]
           to == [a \in Axes |-> boid.at[a] + boid.speed[a]]
<1>1. ~ \E a \in Axes : dest[a] < 0
  <2>1. \A a \in Axes : dest[a] \in Int
    BY DEF Points
  <2> QED
    BY <2>1
<1>2. next = [moved EXCEPT !.visible = TRUE, !.tail = TailAfter(boid.tail, tailLength)]
  BY <1>1 DEF OnLoop
<1> HIDE DEF d, next
<1>3. still \in Points /\ \A a \in Axes : still[a] = 0
  BY DEF Points
<1>4. ASSUME NEW b \in Boid
      PROVE  LET c == [b EXCEPT !.visible = TRUE, !.tail = TailAfter(boid.tail, tailLength)]
             IN  c.at = b.at /\ c.old = b.old /\ c.speed = b.speed
  BY DEF Boid
<1>5. ASSUME IsDestinationReached(boid, d)
      PROVE  next.at = boid.at /\ next.old = boid.old /\ \A a \in Axes : next.speed[a] = 0
  <2>1. moved = [boid EXCEPT !.speed = still]
    BY <1>5 DEF Approach
  <2> HIDE DEF moved, still
  <2>2. moved \in Boid
    BY <1>3, <2>1, BoidFields
  <2>3. moved.at = boid.at /\ moved.old = boid.old /\ moved.speed = still
    BY <2>1 DEF Boid
  <2> QED
    BY <1>2, <1>3, <1>4, <2>2, <2>3
<1>6. ASSUME boid.old = d, \A a \in Axes : boid.speed[a] = 0, ~IsDestinationReached(boid, d)
      PROVE  next.at = boid.at /\ next.old = boid.old /\ \A a \in Axes : next.speed[a] = 0
  <2>1. moved = [boid EXCEPT !.at = to]
    BY <1>6 DEF Approach, Steered, Moved
  <2>2. \A a \in Axes : boid.at[a] + boid.speed[a] = boid.at[a] /\ boid.at[a] \in Int
    <3>1. \A a \in Axes : boid.at[a] \in Int /\ boid.speed[a] = 0
      BY <1>6, BoidFields
    <3> QED
      BY <3>1
  <2>3. to \in Points
    BY <2>2 DEF Points
  <2>4. to = boid.at
    <3>1. boid.at \in [Axes -> Int]
      BY BoidFields DEF Points
    <3>2. to \in [Axes -> Int] /\ \A a \in Axes : to[a] = boid.at[a]
      BY <2>2
    <3> HIDE DEF to
    <3> QED
      BY <3>1, <3>2
  <2> HIDE DEF moved, to
  <2>5. moved \in Boid
    BY <2>1, <2>3, BoidFields
  <2>6. moved.at = boid.at /\ moved.old = boid.old /\ moved.speed = boid.speed
    BY <2>1, <2>4 DEF Boid
  <2> QED
    BY <1>2, <1>4, <1>6, <2>5, <2>6
<1> QED
  BY <1>5, <1>6 DEF d, next

\* The tail and the gestures that set its length: it keeps to the limit while
\* the limit does not shrink below it, and once it is longer than a limit other
\* than 0 it grows by a point in every frame, as the test is for equality.
THEOREM TailKeepsToItsLimit ==
  ASSUME NEW size \in Nat, NEW limit \in Nat
  PROVE  /\ size <= limit => TailAfter(size, limit) <= limit
         /\ limit > 0 /\ size > limit => TailAfter(size, limit) = size + 1
         /\ TailAfter(size, 0) = 0
BY DEF TailAfter

\* BoidAxis' swipes keep the length of the tails, which all boids share, between
\* 0 and 100 points, however fast they are.
THEOREM TailLengthBounded ==
  ASSUME NEW length \in 0..100, NEW speed \in Nat
  PROVE  SwipeLeft(length, speed) \in 0..100 /\ SwipeRight(length, speed) \in 0..100
BY DEF SwipeLeft, SwipeRight

\* What is drawn of a boid that is not highlighted stays inside of the frame.
THEOREM DrawnInsideFrame ==
  ASSUME NEW boid \in Boid, InField(boid), NEW shape \in Shapes,
         NEW corner \in DrawnCorners(boid.at, shape, DrawnQuarter(FALSE)), NEW a \in Axes
  PROVE  FrameLow <= corner[a] /\ corner[a] <= FrameHigh
<1>1. DrawnQuarter(FALSE) = 500
  <2>1. 1000 \div 2 = 500
    OBVIOUS
  <2> QED
    BY <2>1 DEF DrawnQuarter, Percent
<1>2. PICK c \in Corners(shape) :
        corner = [b \in Axes |-> boid.at[b] - 2 * 500 + 500 * (IF b = "x" THEN c[1] ELSE c[2])]
  <2>1. corner \in DrawnCorners(boid.at, shape, 500)
    BY <1>1
  <2> QED
    BY <2>1, Zenon DEF DrawnCorners
<1>3. /\ c[1] \in Int /\ 0 <= c[1] /\ c[1] <= 4
      /\ c[2] \in Int /\ 0 <= c[2] /\ c[2] <= 4
  <2>1. c \in (0..4) \X (0..4)
    BY DEF Corners, Shapes
  <2> QED
    BY <2>1
<1>4. PICK k \in Int : 0 <= k /\ k <= 4 /\ corner[a] = boid.at[a] - 2 * 500 + 500 * k
  <2>1. CASE a = "x"
    BY <1>2, <1>3, <2>1
  <2>2. CASE a # "x"
    BY <1>2, <1>3, <2>2
  <2> QED
    BY <2>1, <2>2
<1>5. boid.at[a] \in Int /\ 0 <= boid.at[a] /\ boid.at[a] <= 100 * Percent - Radius
  BY BoidFields DEF InField
<1> QED
  BY <1>4, <1>5 DEF FrameLow, FrameHigh, Percent, Radius

\* Handler::_HandleProcessMessage shows a process on both axes or hides it: its
\* share is between 0 and 100 percent, of which a total of 0 has 50.
THEOREM DestinationInField ==
  ASSUME NEW total \in Nat, NEW part \in 0..total, NEW position \in Int,
         position <= 100 * Percent
  PROVE  /\ Share(part, total) \in 0..(100 * Percent)
         /\ \/ Destination(position, part, total) = Hidden
            \/ \A a \in Axes : Destination(position, part, total)[a] \in 0..(100 * Percent)
<1> DEFINE high == 100 * Percent
<1>1. high = 100000
  BY DEF Percent
<1>2. Share(part, total) \in 0..high
  <2>1. CASE total > 0
    <3> DEFINE m == 100 * Percent * part
               q == Quotient(m, total)
    <3>1. part \in Int /\ 0 <= part /\ part <= total
      OBVIOUS
    <3>2. m \in Int /\ 0 <= m /\ m <= high * total
      BY <3>1 DEF Percent
    <3>7. Share(part, total) = q
      BY <2>1 DEF Share
    <3> HIDE DEF m, high
    <3>3. q \in Int /\ 0 <= q /\ total * q <= m
      BY <2>1, <3>2, QuotientBounds
    <3> HIDE DEF q
    <3>4. high \in Int
      BY <1>1
    <3>5. total * q <= high * total
      BY <1>1, <3>2, <3>3
    <3>6. q <= high
      <4>1. ASSUME q > high
            PROVE  FALSE
        <5>1. total * q > total * high
          BY <2>1, <3>3, <3>4, <4>1
        <5> QED
          BY <1>1, <3>3, <3>4, <3>5, <5>1
      <4> QED
        BY <1>1, <3>3, <4>1
    <3>8. high \in Int /\ q \in 0..high
      BY <3>3, <3>4, <3>6
    <3> QED
      BY <3>7, <3>8
  <2>2. CASE total = 0
    <3>1. Share(part, total) = 50 * Percent
      BY <2>2 DEF Share
    <3>2. /\ 50 * Percent \in Int /\ high \in Int
          /\ 0 <= 50 * Percent /\ 50 * Percent <= high
      BY DEF Percent
    <3> HIDE DEF high
    <3> QED
      BY <3>1, <3>2
  <2> QED
    BY <2>1, <2>2
<1>3. ASSUME ~(position < Percent)
      PROVE  \A a \in Axes : Destination(position, part, total)[a] \in 0..high
  <2>1. Destination(position, part, total)
          = [a \in Axes |-> IF a = "x" THEN position ELSE Share(part, total)]
    BY <1>3 DEF Destination
  <2>2. position \in 0..high
    <3>1. 0 <= position /\ position <= high
      BY <1>3 DEF Percent
    <3>2. high \in Int
      BY <1>1
    <3> HIDE DEF high
    <3> QED
      BY <3>1, <3>2
  <2> HIDE DEF high
  <2> QED
    BY <1>2, <2>1, <2>2
<1> QED
  BY <1>2, <1>3 DEF Destination

\* Fps::OnLoop: frames start at least 28 milliseconds apart, also when the
\* milliseconds' counter wraps between them.
THEOREM FramesApart ==
  ASSUME NEW Ticks \in Nat, Ticks > 1000, NEW last \in 0..(Ticks - 1), NEW now \in 0..(Ticks - 1),
         NEW spent \in 0..(Ticks - 1), spent = (now - last) % Ticks
  PROVE  spent + Delay(last, now, Ticks) >= FrameTime
<1>1. FrameTime = 28
  <2>1. 1000 \div 35 = 28
    OBVIOUS
  <2> QED
    BY <2>1 DEF FrameTime, MAX_FPS
<1>2. Delay(last, now, Ticks) = IF FrameTime > spent THEN FrameTime - spent ELSE 0
  BY DEF Delay
<1> QED
  BY <1>1, <1>2

-----------------------------------------------------------------------------
(* The picture and its scenes.                                             *)

\* On a grid that fits on the wall every pixel of the picture is shown by
\* exactly one tile of the grid: each tile's SetDisplayArea continues the next
\* one's.
THEOREM PictureShownOnce ==
  ASSUME NEW view \in Views, FitsOnWall(view), NEW x \in Nat, NEW y \in Nat,
         x < GetTotalPixelWidth(view), y < GetTotalPixelHeight(view)
  PROVE  /\ \E tile \in Tiles : IsTileWithin(view, tile) /\ Shows(view, tile, x, y)
         /\ \A s, t \in Tiles :
              /\ IsTileWithin(view, s) /\ Shows(view, s, x, y)
              /\ IsTileWithin(view, t) /\ Shows(view, t, x, y)
              => s = t
<1>1. /\ view.x \in Int /\ view.y \in Int /\ view.w \in Int /\ view.h \in Int
      /\ Columns(view) = view.w /\ Rows(view) = view.h /\ view.w > 0 /\ view.h > 0
      /\ 0 <= view.x /\ 0 <= view.y
  BY GridSize DEF FitsOnWall, Least, WALL_WIDTH, WALL_HEIGHT, Views
<1>2. ASSUME NEW tile \in Tiles, IsTileWithin(view, tile)
      PROVE  GetDisplayArea(view, tile)
               = [x |-> TILE_SCREEN_WIDTH * (tile.column - view.x),
                  y |-> TILE_SCREEN_HEIGHT * (tile.row - view.y)]
  <2>1. tile.column \in Int /\ tile.row \in Int
    BY DEF Tiles
  <2>2. PICK i \in Int, j \in Int : i = tile.row - view.y /\ j = tile.column - view.x
    BY <1>1, <2>1
  <2>3. 0 <= i /\ i < Rows(view) /\ 0 <= j /\ j < Columns(view)
    BY <1>1, <1>2, <2>1, <2>2, WithinIsWithin
  <2>4. tile = [column |-> view.x + j, row |-> view.y + i]
    BY <1>1, <2>1, <2>2 DEF Tiles
  <2>5. PICK k \in Int : k = i * view.w + j /\ GetIndex(view, tile) = k
    BY <1>1, <2>2, <2>3, <2>4, IndexOfTile
  <2>6. k \div view.w = i /\ k % view.w = j
    BY <1>1, <2>2, <2>3, <2>5, PlaceInRow
  <2> QED
    BY <2>2, <2>5, <2>6 DEF GetDisplayArea, IndexToCoordinates
<1>3. \E tile \in Tiles : IsTileWithin(view, tile) /\ Shows(view, tile, x, y)
  <2>1. PICK j \in Int, i \in Int : j = x \div TILE_SCREEN_WIDTH /\ i = y \div TILE_SCREEN_HEIGHT
    BY DEF TILE_SCREEN_WIDTH, TILE_SCREEN_HEIGHT
  <2>2. /\ 0 <= j /\ j < view.w /\ TILE_SCREEN_WIDTH * j <= x /\ x < TILE_SCREEN_WIDTH * j + TILE_SCREEN_WIDTH
        /\ 0 <= i /\ i < view.h /\ TILE_SCREEN_HEIGHT * i <= y /\ y < TILE_SCREEN_HEIGHT * i + TILE_SCREEN_HEIGHT
    BY <1>1, <2>1
    DEF TILE_SCREEN_WIDTH, TILE_SCREEN_HEIGHT, GetTotalPixelWidth, GetTotalPixelHeight
  <2> DEFINE tile == [column |-> view.x + j, row |-> view.y + i]
  <2>3. tile \in Tiles
    BY <1>1, <2>1, <2>2 DEF Tiles, FitsOnWall, WALL_WIDTH, WALL_HEIGHT
  <2>4. IsTileWithin(view, tile)
    BY <1>1, <2>1, <2>2, <2>3, WithinIsWithin
  <2>5. GetDisplayArea(view, tile) = [x |-> TILE_SCREEN_WIDTH * j, y |-> TILE_SCREEN_HEIGHT * i]
    BY <1>1, <1>2, <2>1, <2>3, <2>4
  <2> QED
    BY <2>2, <2>3, <2>4, <2>5 DEF Shows
<1>4. ASSUME NEW s \in Tiles, NEW t \in Tiles,
             IsTileWithin(view, s), Shows(view, s, x, y),
             IsTileWithin(view, t), Shows(view, t, x, y)
      PROVE  s = t
  <2>1. s.column \in Int /\ s.row \in Int /\ t.column \in Int /\ t.row \in Int
    BY DEF Tiles
  <2>2. \A tile \in {s, t} :
          /\ 1024 * (tile.column - view.x) <= x /\ x < 1024 * (tile.column - view.x) + 1024
          /\ 768 * (tile.row - view.y) <= y /\ y < 768 * (tile.row - view.y) + 768
    <3>1. TAKE tile \in {s, t}
    <3>2. GetDisplayArea(view, tile)
            = [x |-> TILE_SCREEN_WIDTH * (tile.column - view.x),
               y |-> TILE_SCREEN_HEIGHT * (tile.row - view.y)]
      BY <1>2, <1>4
    <3>3. Shows(view, tile, x, y)
      BY <1>4
    <3> QED
      BY <3>2, <3>3 DEF Shows, TILE_SCREEN_WIDTH, TILE_SCREEN_HEIGHT
  <2>3. \A m, n, o, z \in Int :
          /\ 1024 * (m - o) <= z /\ z < 1024 * (m - o) + 1024
          /\ 1024 * (n - o) <= z /\ z < 1024 * (n - o) + 1024
          => m = n
    OBVIOUS
  <2>4. \A m, n, o, z \in Int :
          /\ 768 * (m - o) <= z /\ z < 768 * (m - o) + 768
          /\ 768 * (n - o) <= z /\ z < 768 * (n - o) + 768
          => m = n
    OBVIOUS
  <2>5. s.column = t.column
    <3>1. PICK m \in Int, n \in Int, o \in Int, z \in Int :
            m = s.column /\ n = t.column /\ o = view.x /\ z = x
      BY <1>1, <2>1
    <3>2. /\ 1024 * (m - o) <= z /\ z < 1024 * (m - o) + 1024
          /\ 1024 * (n - o) <= z /\ z < 1024 * (n - o) + 1024
      BY <2>2, <3>1
    <3>3. m = n
      BY <2>3, <3>2
    <3> QED
      BY <3>1, <3>3
  <2>6. s.row = t.row
    <3>1. PICK m \in Int, n \in Int, o \in Int, z \in Int :
            m = s.row /\ n = t.row /\ o = view.y /\ z = y
      BY <1>1, <2>1
    <3>2. /\ 768 * (m - o) <= z /\ z < 768 * (m - o) + 768
          /\ 768 * (n - o) <= z /\ z < 768 * (n - o) + 768
      BY <2>2, <3>1
    <3>3. m = n
      BY <2>4, <3>2
    <3> QED
      BY <3>1, <3>3
  <2> QED
    BY <2>5, <2>6 DEF Tiles
<1> QED
  BY <1>3, <1>4

\* What the scenes are, in the lengths of the picture.
LEMMA SceneAreas ==
  ASSUME NEW view \in Views
  PROVE  \E w, h \in Nat :
           /\ w > 0 /\ h > 0
           /\ Scenes(view).table = [x |-> 0, y |-> 0, w |-> 100 * w, h |-> 200 * h]
           /\ Scenes(view).boids = [x |-> 110 * w, y |-> 26 * h, w |-> 80 * w, h |-> 161 * h]
           /\ Scenes(view).panel = [x |-> 0, y |-> 0, w |-> 200 * w, h |-> 200 * h]
<1>1. PICK w \in Nat, h \in Nat :
        w > 0 /\ h > 0 /\ w = GetTotalPixelWidth(view) /\ h = GetTotalPixelHeight(view)
  BY DEF Views, GetTotalPixelWidth, GetTotalPixelHeight, TILE_SCREEN_WIDTH, TILE_SCREEN_HEIGHT
<1> QED
  BY <1>1 DEF Scenes

\* RealToVirtualCoords undoes LoadVirtual: wherever on the picture a place of a
\* scene's square is drawn, a touch there hits exactly the entities of the
\* scene whose boxes hold that place.
THEOREM HitWhereDrawn ==
  ASSUME NEW scene \in Areas, Side(scene) > 0, NEW box \in Areas,
         NEW x \in Int, NEW y \in Int, NEW place \in Places,
         100 * place.x = LoadVirtual(scene, x, y).x,
         100 * place.y = LoadVirtual(scene, x, y).y
  PROVE  IsHit(box, scene, RealToVirtualCoords(scene, place))
           <=> IsWithin(box, [x |-> x, y |-> y])
<1>1. PICK s \in Int : s = Side(scene) /\ s > 0
  BY DEF Side, Areas, Least
<1>2. /\ scene.x \in Int /\ scene.y \in Int /\ place.x \in Int /\ place.y \in Int
      /\ box.x \in Int /\ box.y \in Int /\ box.w \in Int /\ box.h \in Int
  BY DEF Areas, Places
<1>3. PICK sx \in Int, sy \in Int : sx = s * x /\ sy = s * y
  BY <1>1
<1>4. 100 * place.x = 100 * scene.x + sx /\ 100 * place.y = 100 * scene.y + sy
  BY <1>1, <1>3 DEF LoadVirtual
<1>5. 100 * (place.x - scene.x) = s * x /\ 100 * (place.y - scene.y) = s * y
  <2>1. PICK px \in Int, py \in Int, ox \in Int, oy \in Int :
          px = place.x /\ py = place.y /\ ox = scene.x /\ oy = scene.y
    BY <1>2
  <2>2. 100 * px = 100 * ox + sx /\ 100 * py = 100 * oy + sy
    BY <1>4, <2>1
  <2>3. 100 * (px - ox) = sx /\ 100 * (py - oy) = sy
    BY <2>2
  <2> QED
    BY <1>3, <2>1, <2>3
<1>6. \A m, n \in Int : s * m <= s * n <=> m <= n
  BY <1>1
<1>7. /\ s * box.x + s * box.w = s * (box.x + box.w)
      /\ s * box.y + s * box.h = s * (box.y + box.h)
  BY <1>1, <1>2
<1> QED
  BY <1>1, <1>2, <1>5, <1>6, <1>7 DEF IsHit, IsWithin, RealToVirtualCoords

\* No touch means both the axes and a table, on any grid, and the control
\* panel is hit on one line only, if at all.
THEOREM ScenesApart ==
  ASSUME NEW view \in Views, NEW place \in Places, NEW panelBox \in PanelBoxes
  PROVE  LET hit == {h.entity : h \in GetAllEntityHits(view, place, panelBox)}
         IN  /\ "axis" \in hit => hit \cap {"table", "subTable"} = {}
             /\ "panel" \in hit =>
                  100 * place.y = Side(Scenes(view).panel) * panelBox.y
<1> DEFINE hit == {h.entity : h \in GetAllEntityHits(view, place, panelBox)}
<1>1. PICK w \in Nat, h \in Nat :
           /\ w > 0 /\ h > 0
           /\ Scenes(view).table = [x |-> 0, y |-> 0, w |-> 100 * w, h |-> 200 * h]
           /\ Scenes(view).boids = [x |-> 110 * w, y |-> 26 * h, w |-> 80 * w, h |-> 161 * h]
           /\ Scenes(view).panel = [x |-> 0, y |-> 0, w |-> 200 * w, h |-> 200 * h]
  BY SceneAreas, ZenonT(30)
<1>2. place.x \in Int /\ place.y \in Int
  BY DEF Places
<1>3. ASSUME NEW e \in hit
      PROVE  \E name \in SceneNames :
               /\ e \in EntityList[name] /\ IsWithin(Scenes(view)[name], place)
               /\ IsHit(Boxes(panelBox)[e], Scenes(view)[name],
                        RealToVirtualCoords(Scenes(view)[name], place))
  BY DEF GetAllEntityHits, GetEntityHits
<1>4. "axis" \in hit => place.x >= 110 * w
  BY <1>1, <1>2, <1>3 DEF EntityList, SceneNames, IsWithin
<1>5. hit \cap {"table", "subTable"} # {} => place.x <= 100 * w
  <2>1. ASSUME NEW e \in {"table", "subTable"}, e \in hit
        PROVE  IsWithin(Scenes(view).table, place)
    BY <1>3, <2>1 DEF EntityList, SceneNames
  <2>2. IsWithin(Scenes(view).table, place) => place.x <= 100 * w
    BY <1>1, <1>2 DEF IsWithin
  <2> QED
    BY <2>1, <2>2
<1>6. ASSUME "panel" \in hit
      PROVE  100 * place.y = Side(Scenes(view).panel) * panelBox.y
  <2>1. IsHit(panelBox, Scenes(view).panel, RealToVirtualCoords(Scenes(view).panel, place))
    BY <1>3, <1>6 DEF EntityList, SceneNames, Boxes
  <2>2. PICK s \in Int : s = Side(Scenes(view).panel)
    BY <1>1 DEF Side, Least
  <2>3. panelBox.y \in Int /\ panelBox.h = 0
    BY DEF PanelBoxes, Areas
  <2>4. PICK low \in Int : low = s * panelBox.y
    BY <2>2, <2>3
  <2>5. s * panelBox.h = 0
    BY <2>2, <2>3
  <2> QED
    BY <1>1, <1>2, <2>1, <2>2, <2>4, <2>5 DEF IsHit, IsWithin, RealToVirtualCoords
<1>7. 110 * w > 100 * w
  BY <1>1
<1>8. "axis" \in hit => hit \cap {"table", "subTable"} = {}
  BY <1>1, <1>2, <1>4, <1>5, <1>7
<1> QED
  BY <1>6, <1>8

\* The squares of all scenes, and the texts beside the axes, begin and end on
\* the picture, whatever the shape of the grid.
THEOREM SquaresOnPicture ==
  ASSUME NEW view \in Views, NEW name \in SceneNames, NEW x \in 0..100, NEW y \in 0..100
  PROVE  LET scene == Scenes(view)[name]
             end == LoadVirtual(scene, 100, 100)
         IN  /\ 0 <= scene.x /\ end.x <= 20000 * GetTotalPixelWidth(view)
             /\ 0 <= scene.y /\ end.y <= 20000 * GetTotalPixelHeight(view)
             /\ name = "boids" => /\ LoadVirtual(scene, LabelsLeft, y).x >= 0
                                  /\ LoadVirtual(scene, x, LabelsBelow).y >= 0
<1>1. PICK w \in Nat, h \in Nat :
        /\ w > 0 /\ h > 0 /\ w = GetTotalPixelWidth(view) /\ h = GetTotalPixelHeight(view)
  BY DEF Views, GetTotalPixelWidth, GetTotalPixelHeight, TILE_SCREEN_WIDTH, TILE_SCREEN_HEIGHT
<1>2. CASE name = "table"
  BY <1>1, <1>2 DEF Scenes, LoadVirtual, Side, Least
<1>3. CASE name = "boids"
  BY <1>1, <1>3 DEF Scenes, LoadVirtual, Side, Least, LabelsLeft, LabelsBelow
<1>4. CASE name = "panel"
  BY <1>1, <1>4 DEF Scenes, LoadVirtual, Side, Least
<1> QED
  BY <1>2, <1>3, <1>4 DEF SceneNames

\* The draw loops begin with a row that may be scrolled out at the top and end
\* with one that is out at the bottom; whatever of a drawn row lies outside of
\* the table is behind one of the black borders, for both tables.
THEOREM RowsHiddenOutside ==
  ASSUME NEW pixel \in Int, NEW unit \in Nat, unit > 0,
         NEW height \in {TopItemHeight, SubItemHeight},
         NEW place \in Nat, Drawn(pixel, unit, height, place),
         NEW y \in Int, Covers(pixel, unit * height, unit * TABLE_TOP, place, y)
  PROVE  \/ unit * TABLE_BOTTOM <= y /\ y <= unit * TABLE_TOP
         \/ Hides(BorderAbove, unit, y)
         \/ Hides(BorderBelow, unit, y)
<1>1. PICK h \in Int : h = unit * height /\ 0 < h /\ h <= 15 * unit
  BY DEF TopItemHeight, SubItemHeight
<1>2. PICK q \in Int : q = Quotient(pixel, h)
  BY <1>1, QuotientBounds
<1>3. PICK hq \in Int, hr \in Int : hq = h * q /\ hr = h * place
  BY <1>1, <1>2
<1>4. UpperEdge(pixel, h, unit * TABLE_TOP, place) = (unit * TABLE_TOP + pixel) - hr
  <2>1. PICK top \in Int : top = unit * TABLE_TOP
    BY DEF TABLE_TOP
  <2>2. place \in Int
    OBVIOUS
  <2>3. h > 0 /\ hr = h * place
    BY <1>1, <1>3
  <2>4. UpperEdge(pixel, h, top, place) = (top + pixel) - hr
    BY <2>2, <2>3, RowsAreEvenlySpaced
  <2> QED
    BY <2>1, <2>4
<1>5. pixel - hq < h
  <2>1. CASE pixel >= 0
    BY <1>1, <1>2, <1>3, <2>1, QuotientBounds
  <2>2. CASE pixel < 0
    BY <1>1, <1>2, <1>3, <2>2, QuotientBounds
  <2> QED
    BY <2>1, <2>2
<1>6. hq <= hr
  <2>1. q <= place
    BY <1>1, <1>2 DEF Drawn, FirstDrawn, CurrentPixelToItemIndex
  <2> QED
    BY <1>1, <1>2, <1>3, <2>1
<1>7. y < unit * TABLE_TOP + h /\ -h < y
  BY <1>1, <1>3, <1>4, <1>5, <1>6 DEF Drawn, Covers, TABLE_TOP
<1> QED
  BY <1>1, <1>7 DEF Hides, BorderAbove, BorderBelow, TABLE_TOP, TABLE_BOTTOM

\* All lines of text of a row lie between its edges, so that they are hidden
\* with it.
THEOREM LinesInsideRow ==
  /\ \A line \in TopItemLines : 0 < line /\ line < 10 * TopItemHeight
  /\ \A line \in SubItemLines : 0 < line /\ line < 10 * SubItemHeight
BY DEF TopItemLines, SubItemLines, TopItemHeight, SubItemHeight

\* However much of a name is cut, the number in brackets behind it stays, and
\* the dot is where the cut is.
THEOREM NumberStaysReadable ==
  ASSUME NEW C, NEW text \in Seq(C), NEW digits \in Nat \ {0},
         NEW k \in 1..StaysOfRow(text, digits)
  PROVE  LET n == StaysOfRow(text, digits)
             cut == Cut(text, n, k)
         IN  /\ DOMAIN cut = 1..(Len(text) - k)
             /\ \A i \in 1..(n - k) : cut[i] = text[i]
             /\ cut[n - k + 1] = "."
             /\ \A i \in 1..(3 + digits) : cut[(n - k + 1) + i] = text[(n + 1) + i]
             /\ n + 1 + (3 + digits) = Len(text)
<1> DEFINE n == StaysOfRow(text, digits)
           cut == Cut(text, n, k)
<1>1. PICK l \in Nat, m \in Int : l = Len(text) /\ m = n /\ m = l - (4 + digits) /\ k \in Nat /\ k >= 1 /\ k <= m
  BY DEF StaysOfRow
<1>2. cut = [i \in 1..(l - k) |->
               IF i <= m - k THEN text[i] ELSE IF i = m - k + 1 THEN "." ELSE text[i + k]]
  BY <1>1 DEF Cut
<1>3. \A i \in 1..(m - k) : cut[i] = text[i]
  BY <1>1, <1>2
<1>4. cut[m - k + 1] = "."
  BY <1>1, <1>2
<1>5. \A i \in 1..(3 + digits) : cut[(m - k + 1) + i] = text[(m + 1) + i]
  <2>1. TAKE i \in 1..(3 + digits)
  <2> DEFINE j == (m - k + 1) + i
  <2>3. j \in Int /\ j \in 1..(l - k) /\ ~(j <= m - k) /\ j # m - k + 1 /\ j + k = (m + 1) + i
    BY <1>1
  <2> QED
    BY <1>1, <1>2, <2>3
<1> QED
  BY <1>1, <1>2, <1>3, <1>4, <1>5

\* The numbers at the ticks are those of the values that the handler's scales
\* put there, on the linear and, but for the 0, on the logarithmic axis; and
\* all ticks are on the axis.
THEOREM TicksAreTrue ==
  /\ \A tick \in LinearTicks : tick.at = 8 * tick.label /\ tick.at \in 0..800
  /\ \A tick \in LogarithmicTicks :
       tick.at = LinearToLogarithmicAxisValue(tick.exponent) /\ tick.at \in 0..800
<1>1. \A i \in 0..4 : 8 * (25 * i) = 8 * 25 * i /\ 8 * 25 * i \in 0..800
  OBVIOUS
<1>2. 100 \div TickSize = 4
  BY DEF TickSize
<1>3. \A tick \in LinearTicks : tick.at = 8 * tick.label /\ tick.at \in 0..800
  BY <1>1, <1>2 DEF LinearTicks, TickSize
<1>4. \A i \in 1..8 : 100 * ((i - 1) + 1) = 100 * i /\ 100 * i \in 0..800
  OBVIOUS
<1>5. \A tick \in LogarithmicTicks :
        tick.at = LinearToLogarithmicAxisValue(tick.exponent) /\ tick.at \in 0..800
  BY <1>4 DEF LogarithmicTicks, LinearToLogarithmicAxisValue
<1> QED
  BY <1>3, <1>5

-----------------------------------------------------------------------------
(* WVGeometry: the rectangles and circles of the touch manager.            *)

(* WVRect::intersect: a point lies in the intersection of two rectangles   *)
(* exactly if it lies in both, also where one only touches the other and   *)
(* where they are apart.                                                   *)
THEOREM IntersectIsBoth ==
  ASSUME NEW ax \in Int, NEW ay \in Int, NEW aw \in Nat, NEW ah \in Nat,
         NEW bx \in Int, NEW by \in Int, NEW bw \in Nat, NEW bh \in Nat,
         NEW px \in Int, NEW py \in Int
  PROVE  LET a == [x |-> ax, y |-> ay, w |-> aw, h |-> ah]
             b == [x |-> bx, y |-> by, w |-> bw, h |-> bh]
             p == [x |-> px, y |-> py]
         IN  Contains(Intersect(a, b), p) <=> Contains(a, p) /\ Contains(b, p)
<1>1. ASSUME NEW a \in Int, NEW l \in Nat, NEW b \in Int, NEW m \in Nat, NEW p \in Int
      PROVE  LET o == Overlap([at |-> a, len |-> l], [at |-> b, len |-> m])
             IN  o.at <= p /\ p < o.at + o.len
                   <=> a <= p /\ p < a + l /\ b <= p /\ p < b + m
  BY <1>1, SMT DEF Overlap
<1>2. LET across == Overlap([at |-> ax, len |-> aw], [at |-> bx, len |-> bw])
      IN  across.at <= px /\ px < across.at + across.len
            <=> ax <= px /\ px < ax + aw /\ bx <= px /\ px < bx + bw
  BY <1>1
<1>3. LET along == Overlap([at |-> ay, len |-> ah], [at |-> by, len |-> bh])
      IN  along.at <= py /\ py < along.at + along.len
            <=> ay <= py /\ py < ay + ah /\ by <= py /\ py < by + bh
  BY <1>1
<1> QED BY <1>2, <1>3 DEF Contains, Intersect

(* WVRect::subtract returns more than a difference: where two rectangles   *)
(* meet, the eight fields make up    all of the box around both but their  *)
(* intersection, what lies only in the subtrahend and what lies in neither *)
(* included.                                                               *)
THEOREM SubtractLeavesTheRestOfBoth ==
  ASSUME NEW ax \in Int, NEW ay \in Int, NEW aw \in Nat, NEW ah \in Nat,
         NEW bx \in Int, NEW by \in Int, NEW bw \in Nat, NEW bh \in Nat,
         ax <= bx + bw, bx <= ax + aw, ay <= by + bh, by <= ay + ah,
         NEW px \in Int, NEW py \in Int
  PROVE  LET a == [x |-> ax, y |-> ay, w |-> aw, h |-> ah]
             b == [x |-> bx, y |-> by, w |-> bw, h |-> bh]
             p == [x |-> px, y |-> py]
         IN  (\E f \in Fields : Contains(Subtract(a, b)[f], p))
               <=> Contains(RectUnion(a, b), p) /\ ~(Contains(a, p) /\ Contains(b, p))
<1> DEFINE a == [x |-> ax, y |-> ay, w |-> aw, h |-> ah]
           b == [x |-> bx, y |-> by, w |-> bw, h |-> bh]
           p == [x |-> px, y |-> py]
           x == Coordinates(ax, aw, bx, bw)
           y == Coordinates(ay, ah, by, bh)
           In(g, i, v) == g[i] <= v /\ v < g[i + 1]
<1>1. ASSUME NEW f \in Fields
      PROVE  Contains(Subtract(a, b)[f], p) <=> In(x, f[1], px) /\ In(y, f[2], py)
  <2>1. /\ x[1] \in Int /\ x[2] \in Int /\ x[3] \in Int /\ x[4] \in Int
        /\ y[1] \in Int /\ y[2] \in Int /\ y[3] \in Int /\ y[4] \in Int
    BY DEF Coordinates, Lesser, Greater
  <2>2. f[1] \in 1..3 /\ f[2] \in 1..3
    BY DEF Fields
  <2>3. /\ x[f[1]] \in Int /\ x[f[1] + 1] \in Int
        /\ y[f[2]] \in Int /\ y[f[2] + 1] \in Int
    <3> HIDE DEF x, y
    <3> QED BY <2>1, <2>2
  <2>4. Subtract(a, b)[f] = [x |-> x[f[1]], y |-> y[f[2]],
                             w |-> x[f[1] + 1] - x[f[1]], h |-> y[f[2] + 1] - y[f[2]]]
    BY <1>1 DEF Subtract, Field
  <2> HIDE DEF x, y
  <2> QED BY <2>3, <2>4 DEF Contains
<1>2. /\ x[1] <= x[2] /\ x[2] <= x[3] /\ x[3] <= x[4]
      /\ y[1] <= y[2] /\ y[2] <= y[3] /\ y[3] <= y[4]
      /\ x[1] \in Int /\ x[2] \in Int /\ x[3] \in Int /\ x[4] \in Int
      /\ y[1] \in Int /\ y[2] \in Int /\ y[3] \in Int /\ y[4] \in Int
  <2>1. ASSUME NEW u \in Int, NEW l \in Nat, NEW v \in Int, NEW m \in Nat,
               u <= v + m, v <= u + l
        PROVE  LET g == Coordinates(u, l, v, m)
               IN  /\ g[1] <= g[2] /\ g[2] <= g[3] /\ g[3] <= g[4]
                   /\ g[1] \in Int /\ g[2] \in Int /\ g[3] \in Int /\ g[4] \in Int
    BY <2>1 DEF Coordinates, Lesser, Greater
  <2> QED BY <2>1
<1>3. (\E f \in Fields : Contains(Subtract(a, b)[f], p))
        <=> (\E i, j \in 1..3 : <<i, j>> # <<2, 2>> /\ In(x, i, px) /\ In(y, j, py))
  <2> HIDE DEF x, y, a, b, p, In
  <2>1. ASSUME NEW f \in Fields, Contains(Subtract(a, b)[f], p)
        PROVE  \E i, j \in 1..3 : <<i, j>> # <<2, 2>> /\ In(x, i, px) /\ In(y, j, py)
    <3>1. f[1] \in 1..3 /\ f[2] \in 1..3 /\ <<f[1], f[2]>> # <<2, 2>>
      BY DEF Fields
    <3> QED BY <1>1, <2>1, <3>1
  <2>2. ASSUME NEW i \in 1..3, NEW j \in 1..3, <<i, j>> # <<2, 2>>,
               In(x, i, px), In(y, j, py)
        PROVE  \E f \in Fields : Contains(Subtract(a, b)[f], p)
    <3>1. <<i, j>> \in Fields /\ <<i, j>>[1] = i /\ <<i, j>>[2] = j
      BY <2>2 DEF Fields
    <3> QED BY <1>1, <2>2, <3>1
  <2> QED BY <2>1, <2>2
<1>4. (\E i, j \in 1..3 : <<i, j>> # <<2, 2>> /\ In(x, i, px) /\ In(y, j, py))
        <=> /\ x[1] <= px /\ px < x[4] /\ y[1] <= py /\ py < y[4]
            /\ ~(In(x, 2, px) /\ In(y, 2, py))
  <2> HIDE DEF x, y
  <2>0. \A v \in Int : /\ x[1] <= v /\ v < x[4]
                          <=> In(x, 1, v) \/ In(x, 2, v) \/ In(x, 3, v)
                       /\ y[1] <= v /\ v < y[4]
                          <=> In(y, 1, v) \/ In(y, 2, v) \/ In(y, 3, v)
                       /\ ~(In(x, 2, v) /\ (In(x, 1, v) \/ In(x, 3, v)))
                       /\ ~(In(y, 2, v) /\ (In(y, 1, v) \/ In(y, 3, v)))
    BY <1>2
  <2>1. \A i \in 1..3 : i = 1 \/ i = 2 \/ i = 3
    OBVIOUS
  <2> HIDE DEF In
  <2> QED BY <2>0, <2>1
<1>5. /\ Contains(RectUnion(a, b), p)
           <=> x[1] <= px /\ px < x[4] /\ y[1] <= py /\ py < y[4]
      /\ Contains(a, p) /\ Contains(b, p) <=> In(x, 2, px) /\ In(y, 2, py)
  BY DEF Contains, RectUnion, Coordinates, Lesser, Greater
<1> HIDE DEF a, b, p, x, y, In
<1>6. (\E f \in Fields : Contains(Subtract(a, b)[f], p))
        <=> Contains(RectUnion(a, b), p) /\ ~(Contains(a, p) /\ Contains(b, p))
  BY <1>3, <1>4, <1>5
<1> QED BY <1>6 DEF a, b, p

(* WVRect::subtract: if one rectangle lies inside the other, none of the   *)
(* eight fields is empty, where the comment allows for four.               *)
LEMMA SubtractCanLeaveEight ==
  ASSUME NEW ax \in Int, NEW ay \in Int, NEW aw \in Nat, NEW ah \in Nat,
         NEW bx \in Int, NEW by \in Int, NEW bw \in Nat \ {0}, NEW bh \in Nat \ {0},
         ax < bx, bx + bw < ax + aw, ay < by, by + bh < ay + ah
  PROVE  LET a == [x |-> ax, y |-> ay, w |-> aw, h |-> ah]
             b == [x |-> bx, y |-> by, w |-> bw, h |-> bh]
         IN  \A f \in Fields : ~Empty(Subtract(a, b)[f])
<1> DEFINE a == [x |-> ax, y |-> ay, w |-> aw, h |-> ah]
           b == [x |-> bx, y |-> by, w |-> bw, h |-> bh]
           x == Coordinates(ax, aw, bx, bw)
           y == Coordinates(ay, ah, by, bh)
<1>1. x = <<ax, bx, bx + bw, ax + aw>> /\ y = <<ay, by, by + bh, ay + ah>>
  BY DEF Coordinates, Lesser, Greater
<1>2. SUFFICES ASSUME NEW f \in Fields
               PROVE  ~Empty(Subtract(a, b)[f])
  OBVIOUS
<1>3. f[1] \in 1..3 /\ f[2] \in 1..3
  BY DEF Fields
<1>4. Subtract(a, b)[f] = [x |-> x[f[1]], y |-> y[f[2]],
                           w |-> x[f[1] + 1] - x[f[1]], h |-> y[f[2] + 1] - y[f[2]]]
  BY DEF Subtract, Field
<1>5. /\ x[f[1] + 1] - x[f[1]] \in Nat \ {0}
      /\ y[f[2] + 1] - y[f[2]] \in Nat \ {0}
  <2> HIDE DEF x, y
  <2> QED BY <1>1, <1>3
<1>6. \A w, h \in Nat \ {0} : w * h > 0
  OBVIOUS
<1> HIDE DEF x, y, a, b
<1>7. (x[f[1] + 1] - x[f[1]]) * (y[f[2] + 1] - y[f[2]]) > 0
  BY <1>5, <1>6
<1> QED BY <1>4, <1>7, <1>5 DEF Empty

(* WVPoint3d::wrap: a point that is at most one round outside its limits   *)
(* is brought within them on every axis.                                   *)
LEMMA WrapOnce ==
  ASSUME NEW min \in Int, NEW max \in Int, min <= max, NEW p,
         \A axis \in DOMAIN p :
           /\ p[axis] \in Int
           /\ min - (max - min) <= p[axis] /\ p[axis] <= max + (max - min)
  PROVE  \A axis \in DOMAIN p :
           min <= wrap(p, min, max)[axis] /\ wrap(p, min, max)[axis] <= max
BY DEF wrap, WrappedUp, WrappedDown

(* WVCircle::circle_union: the union of two circles holds every point of   *)
(* both, though it is larger than need be.                                 *)
LEMMA CircleUnionHoldsBoth ==
  ASSUME NEW radius \in Nat, NEW other \in Nat, NEW d \in Nat
  PROVE  LET u == CircleUnion(radius, other, d)
         IN  u.from + 2 * radius <= u.r /\ u.fromOther + 2 * other <= u.r
BY DEF CircleUnion, CircleHolds

-----------------------------------------------------------------------------
(* Counters.                                                               *)

\* What % means: the only remainder there is.
LEMMA RemainderUnique ==
  ASSUME NEW a \in Int, NEW W \in Int, W > 0, NEW k \in Int, NEW r \in Int,
         a = k * W + r, 0 <= r, r < W
  PROVE  a % W = r
BY SMTT(30)

LEMMA RemainderBounds ==
  ASSUME NEW a \in Int, NEW W \in Int, W > 0
  PROVE  /\ a % W \in Int /\ 0 <= a % W /\ a % W < W
         /\ (a \div W) \in Int /\ a = (a \div W) * W + (a % W)
BY SMTT(30)

\* Numbers that differ by a multiple of W have the same remainder.
LEMMA SameRemainder ==
  ASSUME NEW W \in Int, W > 0, NEW a \in Int, NEW b \in Int, NEW k \in Int, a = k * W + b
  PROVE  a % W = b % W
<1>1. PICK r \in Int, q \in Int : r = b % W /\ b = q * W + r /\ 0 <= r /\ r < W
  BY RemainderBounds
<1>2. PICK n \in Int : n = k + q
  OBVIOUS
<1>3. a = n * W + r
  <2>1. a = k * W + (q * W + r)
    BY <1>1
  <2> QED BY <1>2, <2>1
<1>4. a % W = r
  BY <1>1, <1>3, RemainderUnique
<1> QED BY <1>1, <1>4

\* What a message says is the difference of two counters of W = times * V
\* values: the remainder of what lies between them, wherever they wrapped.
LEMMA OnWireIs ==
  ASSUME NEW V \in Int, V > 0, NEW times \in Int, times > 0, NEW W \in Int, W = times * V,
         NEW now \in Int, NEW prev \in Int
  PROVE  OnWire(Since(now, prev, W), V) = (now - prev) % V
<1>1. PICK d \in Int : d = now - prev
  OBVIOUS
<1>2. W > 0
  OBVIOUS
<1>3. PICK s \in Int, q \in Int : s = d % W /\ d = q * W + s
  <2>1. d % W \in Int /\ (d \div W) \in Int /\ d = (d \div W) * W + (d % W)
    BY <1>2, RemainderBounds
  <2> QED BY <2>1
<1>4. PICK k \in Int : k = q * times
  OBVIOUS
<1>5. d = k * V + s
  <2>1. q * W = q * (times * V)
    OBVIOUS
  <2>2. q * (times * V) = (q * times) * V
    OBVIOUS
  <2> QED BY <1>3, <1>4, <2>1, <2>2
<1>6. d % V = s % V
  BY <1>5, SameRemainder
<1> QED BY <1>1, <1>3, <1>6 DEF OnWire, Since

\* The bytes that a message reports (ProcessCollector::Sample) are those that
\* the process moved since the message before, whether the kernel's counter or
\* the difference wraps in between, exactly if they are less than the V values
\* of a field; of more, the multiples of V are lost and too few are reported.
THEOREM GrowthOnWire ==
  ASSUME NEW V \in Nat, V > 0, NEW times \in Nat, times > 0, NEW W \in Nat, W = times * V,
         NEW prev \in Words(W), NEW growth \in Nat
  PROVE  LET reported == OnWire(Since((prev + growth) % W, prev, W), V)
         IN  /\ reported = growth % V
             /\ growth < V => reported = growth
             /\ growth >= V => reported < growth
<1> DEFINE now == (prev + growth) % W
           reported == OnWire(Since(now, prev, W), V)
<1>1. prev \in Int /\ W \in Int /\ V \in Int /\ times \in Int /\ growth \in Int /\ W > 0
  BY DEF Words
<1>2. PICK n \in Int, q \in Int : n = now /\ prev + growth = q * W + n
  <2>1. PICK sum \in Int : sum = prev + growth
    BY <1>1
  <2>2. sum % W \in Int /\ (sum \div W) \in Int /\ sum = (sum \div W) * W + (sum % W)
    BY <1>1, <2>1, RemainderBounds
  <2> QED BY <2>1, <2>2
<1>3. PICK d \in Int : d = n - prev
  BY <1>1
<1>4. reported = d % V
  <2>1. V \in Int /\ V > 0 /\ times \in Int /\ times > 0 /\ n \in Int /\ prev \in Int
    BY <1>1
  <2>2. OnWire(Since(n, prev, W), V) = (n - prev) % V
    BY ONLY <2>1, W \in Int, W = times * V, OnWireIs
  <2> QED BY <1>2, <1>3, <2>2
<1>5. PICK k \in Int : k = q * times
  BY <1>1
<1>6. growth = k * V + d
  <2>1. growth = q * W + d
    BY <1>1, <1>2, <1>3
  <2>2. q * W = q * (times * V) /\ q * (times * V) = (q * times) * V
    BY <1>1
  <2> QED BY <1>5, <2>1, <2>2
<1>7. reported = growth % V
  BY <1>1, <1>4, <1>6, SameRemainder
<1>8. 0 <= growth % V /\ growth % V < V /\ growth % V \in Int
  BY <1>1, RemainderBounds
<1>9. growth < V => growth % V = growth
  <2>1. growth = 0 * V + growth
    BY <1>1
  <2> QED BY <1>1, <2>1, RemainderUnique
<1> HIDE DEF reported
<1>10. /\ reported = growth % V
       /\ growth < V => reported = growth
       /\ growth >= V => reported < growth
  BY <1>1, <1>7, <1>8, <1>9
<1> QED BY <1>10 DEF reported

\* The messages of successive updates add up, in a field's V values, to the one
\* message that would tell of them all: no use is reported twice, and none falls
\* between two messages.
THEOREM ReportsAddUp ==
  ASSUME NEW V \in Nat, V > 0, NEW times \in Nat, times > 0, NEW W \in Nat, W = times * V,
         NEW a \in Words(W), NEW b \in Words(W), NEW c \in Words(W)
  PROVE  (OnWire(Since(b, a, W), V) + OnWire(Since(c, b, W), V)) % V
           = OnWire(Since(c, a, W), V)
<1>1. a \in Int /\ b \in Int /\ c \in Int /\ V \in Int /\ times \in Int /\ W \in Int
  BY DEF Words
<1>2. /\ OnWire(Since(b, a, W), V) = (b - a) % V /\ OnWire(Since(c, b, W), V) = (c - b) % V
      /\ OnWire(Since(c, a, W), V) = (c - a) % V
  BY <1>1, OnWireIs
<1>3. PICK d \in Int, e \in Int, f \in Int : d = b - a /\ e = c - b /\ f = c - a /\ f = d + e
  BY <1>1
<1>4. PICK i \in Int, s \in Int : s = d % V /\ d = i * V + s
  <2>1. d % V \in Int /\ (d \div V) \in Int /\ d = (d \div V) * V + (d % V)
    BY <1>1, RemainderBounds
  <2> QED BY <2>1
<1>5. PICK j \in Int, t \in Int : t = e % V /\ e = j * V + t
  <2>1. e % V \in Int /\ (e \div V) \in Int /\ e = (e \div V) * V + (e % V)
    BY <1>1, RemainderBounds
  <2> QED BY <2>1
<1>6. PICK k \in Int, u \in Int : k = i + j /\ u = s + t
  OBVIOUS
<1>7. f = k * V + u
  <2>1. f = (i * V + s) + (j * V + t)
    BY <1>3, <1>4, <1>5
  <2> QED BY <1>1, <1>6, <2>1
<1>8. f % V = u % V
  BY <1>1, <1>7, SameRemainder
<1> QED BY <1>2, <1>3, <1>4, <1>5, <1>6, <1>8

\* Update with a file that fails, which is how the collector learns that a
\* process has ended: what is not read any more is reported as not used at all,
\* and not as what was used since the update before.
THEOREM FailedUpdateReportsNoUse ==
  ASSUME NEW W \in Nat, W > 0, NEW m \in Monitors(W), NEW kernel \in [Counters -> Words(W)],
         NEW failing \in Files \union {"none"}, NEW time \in Nat
  PROVE  LET next == Update(m, kernel, failing, time)
         IN  /\ next \in Monitors(W)
             /\ \A c \in Counters : ~IsRead(m, c, failing) => Used(next, c, W) = 0
             /\ failing = "stat" => \A c \in Counters : Used(next, c, W) = 0
<1> DEFINE now == [c \in Counters |-> IF IsRead(m, c, failing) THEN kernel[c] ELSE m.now[c]]
           next == Update(m, kernel, failing, time)
<1>1. /\ m.now \in [Counters -> Words(W)] /\ m.time \in Nat /\ m.samples + 1 \in Nat
  BY DEF Monitors
<1>2. now \in [Counters -> Words(W)]
  BY <1>1
<1>3. next = [m EXCEPT !.prev = m.now, !.now = now, !.prevTime = m.time, !.time = time,
                       !.samples = m.samples + 1]
  BY DEF Update
<1>4. \A c \in Counters : ~IsRead(m, c, failing) => now[c] = m.now[c]
  OBVIOUS
<1> HIDE DEF now, next
<1>5. next \in Monitors(W) /\ next.now = now /\ next.prev = m.now
  BY <1>1, <1>2, <1>3 DEF Monitors
<1>6. ASSUME NEW c \in Counters, ~IsRead(m, c, failing)
      PROVE  Used(next, c, W) = 0
  <2>1. m.now[c] \in Int
    BY <1>1 DEF Words
  <2>2. Used(next, c, W) = (m.now[c] - m.now[c]) % W
    BY <1>4, <1>5, <1>6 DEF Used, Since
  <2>3. m.now[c] - m.now[c] = 0 * W + 0 /\ 0 \in Int
    BY <2>1
  <2> QED
    BY <2>2, <2>3, RemainderUnique
<1>7. failing = "stat" => \A c \in Counters : ~IsRead(m, c, failing)
  BY DEF IsRead, ReadBefore
<1> QED
  BY <1>5, <1>6, <1>7 DEF next

\* Network use is what is left of all input or output without storage's: never
\* more than all of it, and together all of it unless storage has more, as it
\* has when pages are read ahead.
THEOREM NetworkIsTheRest ==
  ASSUME NEW W \in Nat, W > 0, NEW m \in Monitors(W)
  PROVE  /\ GetNetworkInBytes(m, W) \in 0..GetTotalIoInBytes(m, W)
         /\ GetNetworkOutBytes(m, W) \in 0..GetTotalIoOutBytes(m, W)
         /\ GetStorageInBytes(m, W) <= GetTotalIoInBytes(m, W) =>
              GetNetworkInBytes(m, W) + GetStorageInBytes(m, W) = GetTotalIoInBytes(m, W)
<1>1. ASSUME NEW c \in Counters
      PROVE  Used(m, c, W) \in Int /\ 0 <= Used(m, c, W)
  <2>1. m.now[c] - m.prev[c] \in Int
    <3>1. m.now[c] \in Words(W) /\ m.prev[c] \in Words(W)
      BY DEF Monitors
    <3> QED
      BY <3>1 DEF Words
  <2> QED
    BY <2>1, RemainderBounds DEF Used, Since
<1>2. \A all, part \in Int : 0 <= all /\ 0 <= part =>
        /\ Rest(all, part) \in 0..all
        /\ part <= all => Rest(all, part) + part = all
  BY DEF Rest
<1>3. {"rchar", "wchar", "read_bytes", "write_bytes"} \subseteq Counters
  BY DEF Counters
<1> QED
  BY <1>1, <1>2, <1>3
  DEF GetNetworkInBytes, GetNetworkOutBytes, GetTotalIoInBytes, GetTotalIoOutBytes,
      GetStorageInBytes, GetStorageOutBytes

\* The quotient of a share.
LEMMA QuotientOfShare ==
  ASSUME NEW a \in Int, NEW b \in Int, b > 0, 0 <= a, a <= b * 10000
  PROVE  Quotient(a, b) \in Int /\ 0 <= Quotient(a, b) /\ Quotient(a, b) <= 10000
<1>1. PICK q \in Int : q = Quotient(a, b) /\ 0 <= q /\ b * q <= a
  BY QuotientBounds
<1>2. q <= 10000
  <2>1. ASSUME q > 10000
        PROVE  FALSE
    <3>1. b * q > b * 10000
      BY <2>1
    <3> QED
      BY <1>1, <3>1
  <2> QED
    BY <2>1
<1> QED
  BY <1>1, <1>2

\* ProcessCollector::Sample: a process that gets no more of the cores' time than
\* there is uses between 0 and 100 percent of them.
THEOREM UtilizationIsAShare ==
  ASSUME NEW now \in Nat, NEW prev \in 0..now, NEW jiffy \in Nat, NEW cores \in Nat,
         NEW elapsed \in Nat, jiffy > 0, cores > 0, elapsed > 0,
         NEW m, NEW counter, m.now[counter] = now, m.prev[counter] = prev,
         m.time - m.prevTime = elapsed,
         (now - prev) * 1000 <= jiffy * cores * elapsed
  PROVE  LET share == CpuUtilization(m, counter, jiffy, cores)
         IN  share \in Int /\ 0 <= share /\ share <= 10000
<1> DEFINE d == jiffy * cores * elapsed
           a == (now - prev) * 1000 * 10000
<1>1. d \in Int /\ d > 0
  <2>1. jiffy * cores \in Int /\ jiffy * cores > 0
    OBVIOUS
  <2> QED
    BY <2>1
<1>2. a \in Int /\ 0 <= a /\ a <= d * 10000
  <2>1. (now - prev) * 1000 \in Int /\ 0 <= (now - prev) * 1000
    OBVIOUS
  <2> QED
    BY <1>1, <2>1
<1>3. CpuUtilization(m, counter, jiffy, cores) = Quotient(a, d)
  BY DEF CpuUtilization
<1> HIDE DEF a, d
<1>4. \A x, y \in Int : y > 0 /\ 0 <= x /\ x <= y * 10000 =>
        Quotient(x, y) \in Int /\ 0 <= Quotient(x, y) /\ Quotient(x, y) <= 10000
  BY QuotientOfShare
<1>5. PICK x \in Int, y \in Int : x = a /\ y = d
  BY <1>1, <1>2
<1>6. Quotient(x, y) \in Int /\ 0 <= Quotient(x, y) /\ Quotient(x, y) <= 10000
  <2>1. y > 0 /\ 0 <= x /\ x <= y * 10000
    BY <1>1, <1>2, <1>5
  <2> QED
    BY <1>4, <2>1
<1> QED
  BY <1>3, <1>5, <1>6

-----------------------------------------------------------------------------
(* Bytes.                                                                  *)

\* IoLogger stays within an interval of what is read while no read is larger
\* than one, although a read moves the trigger once only.
THEOREM LoggerKeepsUp ==
  ASSUME NEW interval \in Nat, interval > 0, NEW total \in Nat, NEW trigger \in Nat,
         total < trigger, trigger <= total + interval, NEW numBytes \in 0..interval
  PROVE  LET log == [total |-> total, trigger |-> trigger, interval |-> interval]
             next == Counted(log, numBytes)
         IN  next.total < next.trigger /\ next.trigger <= next.total + interval
BY DEF Counted

\* GnuplotHandler::_MaintainNetworkReceivePerSec: each byte is recorded once or
\* yet to be, and a record is of a second at least.
THEOREM BytesRecordedOnce ==
  ASSUME NEW previous \in Nat, NEW sum \in Nat, NEW recorded \in Nat,
         NEW timestamp \in Nat, NEW bytes \in Nat
  PROVE  LET r == [previous |-> previous, sum |-> sum, recorded |-> recorded]
             next == Received(r, timestamp, bytes)
         IN  /\ next.recorded + next.sum = recorded + sum + bytes
             /\ next.recorded # recorded => next.previous >= previous + 1000
             /\ Received(NewReceiver, timestamp, bytes).sum = bytes
BY DEF Received, NewReceiver

-----------------------------------------------------------------------------
(* The experiment.                                                         *)

Sampler == [index : 0..NUM_SAMPLE_INTERVALS, samples : Nat, frequency : Intervals, seq : Nat,
            state : {"sampling", "exited"}]

\* Where a Controller stands is what the number of its next sample says.
SamplerInv(s) ==
  /\ s \in Sampler
  /\ s.seq = SamplesBefore(s.index) + s.samples
  /\ s.index = NUM_SAMPLE_INTERVALS => s.samples = 0
  /\ s.index # NUM_SAMPLE_INTERVALS =>
       s.samples < get_num_samples(s.index) /\ s.frequency = s.index

InItsInterval(message) ==
  SamplesBefore(message.hz) <= message.seq /\ message.seq < SamplesBefore(message.hz + 1)

\* Each sample is in one message at most, on its way or filed.
Sent == network \union filed
MessageInv ==
  /\ Sent \subseteq Messages
  /\ \A m \in Sent : m.seq < sampler[m.host].seq /\ InItsInterval(m)
  /\ \A m, n \in Sent : m.host = n.host /\ m.seq = n.seq => m = n
  /\ network \intersect filed = {}

\* What is filed, as pairs of a host and a number of the experiment's.
Slots(messages) == {<<m.host, m.seq>> : m \in messages}
BookInv ==
  /\ known \subseteq Hosts /\ IsFiniteSet(known)
  /\ \A m \in filed : m.host \in known
  /\ known # {} => expected = get_total_num_samples * Cardinality(known)
  /\ IsFiniteSet(Slots(filed)) /\ numSamples = Cardinality(Slots(filed))
  /\ outcome # "none" => known # {} /\ numSamples = expected

ExperimentInv ==
  /\ DOMAIN sampler = Hosts /\ \A h \in Hosts : SamplerInv(sampler[h])
  /\ sampler = [h \in Hosts |-> sampler[h]]
  /\ MessageInv
  /\ BookInv

\* The intervals follow each other and make up the total.
LEMMA IntervalsAddUp ==
  /\ \A i \in Intervals :
       /\ SamplesBefore(i) \in Nat /\ SamplesBefore(i + 1) \in Nat
       /\ get_num_samples(i) \in Nat /\ get_num_samples(i) > 0
       /\ SamplesBefore(i + 1) = SamplesBefore(i) + get_num_samples(i)
       /\ SamplesBefore(i + 1) <= get_total_num_samples
  /\ SamplesBefore(0) = 0
  /\ SamplesBefore(NUM_SAMPLE_INTERVALS) = get_total_num_samples
<1>1. \A i \in Int : 0 <= i /\ i <= 9 =>
        /\ SamplesBefore(i) \in Int /\ SamplesBefore(i) >= 0
        /\ SamplesBefore(i + 1) \in Int /\ SamplesBefore(i + 1) >= 0
        /\ get_num_samples(i) \in Int /\ get_num_samples(i) > 0
        /\ SamplesBefore(i + 1) = SamplesBefore(i) + get_num_samples(i)
        /\ SamplesBefore(i + 1) <= 1260
  BY DEF SamplesBefore, get_num_samples
<1>2. \A i \in Intervals : i \in Int /\ 0 <= i /\ i <= 9
  BY DEF Intervals, NUM_SAMPLE_INTERVALS
<1>3. SamplesBefore(0) = 0 /\ SamplesBefore(10) = 1260
  BY DEF SamplesBefore
<1> QED
  BY <1>1, <1>2, <1>3 DEF get_total_num_samples, NUM_SAMPLE_INTERVALS

\* A sample of a Controller that stands right leaves it standing right, and is
\* in the interval that its message names.
LEMMA SampleInItsInterval ==
  ASSUME NEW s, SamplerInv(s), s.index # NUM_SAMPLE_INTERVALS
  PROVE  LET t == [AfterSample(s) EXCEPT !.seq = s.seq + 1]
         IN  /\ SamplerInv(t) /\ t.seq = s.seq + 1
             /\ s.frequency \in Intervals /\ s.seq \in Nat
             /\ SamplesBefore(s.frequency) <= s.seq /\ s.seq < SamplesBefore(s.frequency + 1)
<1> DEFINE t == [AfterSample(s) EXCEPT !.seq = s.seq + 1]
           i == s.index
           n == s.samples
<1>1. /\ i \in Intervals /\ i \in Int /\ 0 <= i /\ i <= 9 /\ i + 1 \in 0..NUM_SAMPLE_INTERVALS
      /\ n \in Nat /\ s.seq \in Nat /\ s.frequency = i /\ s.state \in {"sampling", "exited"}
  BY DEF SamplerInv, Sampler, Intervals, NUM_SAMPLE_INTERVALS
<1>2. /\ SamplesBefore(i) \in Nat /\ SamplesBefore(i + 1) \in Nat
      /\ get_num_samples(i) \in Nat /\ get_num_samples(i) > 0
      /\ SamplesBefore(i + 1) = SamplesBefore(i) + get_num_samples(i)
  BY <1>1, IntervalsAddUp
<1>3. s.seq = SamplesBefore(i) + n /\ n < get_num_samples(i)
  BY DEF SamplerInv
<1>4. CASE n + 1 # get_num_samples(i)
  <2>1. t = [s EXCEPT !.samples = n + 1, !.seq = s.seq + 1]
    BY <1>4 DEF AfterSample, SamplerInv, Sampler
  <2>2. /\ t \in Sampler /\ t.index = i /\ t.samples = n + 1 /\ t.seq = s.seq + 1
        /\ t.frequency = s.frequency
    <3>1. s \in Sampler /\ n + 1 \in Nat /\ s.seq + 1 \in Nat
      BY <1>1 DEF SamplerInv
    <3> HIDE DEF t, n
    <3> QED
      BY <2>1, <3>1 DEF Sampler
  <2> HIDE DEF t, i, n
  <2>3. n + 1 < get_num_samples(i) /\ s.seq + 1 = SamplesBefore(i) + (n + 1)
    BY <1>1, <1>2, <1>3, <1>4
  <2>4. i # NUM_SAMPLE_INTERVALS
    BY DEF i
  <2>5. SamplerInv(t)
    BY <1>1, <2>2, <2>3, <2>4 DEF SamplerInv
  <2>6. s.seq < SamplesBefore(i + 1) /\ SamplesBefore(i) <= s.seq
    BY <1>1, <1>2, <1>3
  <2> QED
    BY <1>1, <2>2, <2>5, <2>6 DEF t
<1>5. CASE n + 1 = get_num_samples(i)
  <2> DEFINE f == IF i + 1 # NUM_SAMPLE_INTERVALS THEN i + 1 ELSE s.frequency
  <2>1. t = [s EXCEPT !.index = i + 1, !.samples = 0, !.frequency = f, !.seq = s.seq + 1]
    BY <1>5 DEF AfterSample, SamplerInv, Sampler
  <2>2. f \in Intervals
    BY <1>1 DEF Intervals, NUM_SAMPLE_INTERVALS
  <2> HIDE DEF f
  <2>3. /\ t \in Sampler /\ t.index = i + 1 /\ t.samples = 0 /\ t.seq = s.seq + 1
        /\ t.frequency = f
    <3>1. /\ s \in Sampler /\ i + 1 \in 0..NUM_SAMPLE_INTERVALS /\ 0 \in Nat
          /\ s.seq + 1 \in Nat
      BY <1>1 DEF SamplerInv
    <3> DEFINE j == i + 1
               k == s.seq + 1
    <3> HIDE DEF t, j, k
    <3>2. t = [s EXCEPT !.index = j, !.samples = 0, !.frequency = f, !.seq = k]
      BY <2>1 DEF j, k
    <3>3. s \in Sampler /\ j \in 0..NUM_SAMPLE_INTERVALS /\ k \in Nat
      BY <3>1 DEF j, k
    <3>4. t \in Sampler /\ t.index = j /\ t.samples = 0 /\ t.seq = k /\ t.frequency = f
      BY <2>2, <3>2, <3>3 DEF Sampler
    <3> QED
      BY <3>4 DEF j, k
  <2>4. i + 1 # NUM_SAMPLE_INTERVALS => f = i + 1 /\ i + 1 \in Intervals
    BY <1>1 DEF f, Intervals, NUM_SAMPLE_INTERVALS
  <2>5. i + 1 # NUM_SAMPLE_INTERVALS => get_num_samples(i + 1) > 0
    BY <2>4, IntervalsAddUp
  <2> HIDE DEF t, i, n
  <2>6. s.seq + 1 = SamplesBefore(i + 1) + 0
    BY <1>1, <1>2, <1>3, <1>5
  <2>7. SamplerInv(t)
    BY <1>1, <2>3, <2>4, <2>5, <2>6 DEF SamplerInv
  <2>8. s.seq < SamplesBefore(i + 1) /\ SamplesBefore(i) <= s.seq
    BY <1>1, <1>2, <1>3
  <2> QED
    BY <1>1, <2>3, <2>7, <2>8 DEF t
<1> QED
  BY <1>4, <1>5

LEMMA ExperimentInit == Init => ExperimentInv
<1> SUFFICES ASSUME Init
             PROVE  ExperimentInv
  OBVIOUS
<1> DEFINE s0 == [index |-> 0, samples |-> 0, frequency |-> 0, seq |-> 0, state |-> "sampling"]
<1>1. SamplerInv(s0)
  <2>1. SamplesBefore(0) = 0 /\ get_num_samples(0) > 0 /\ 0 \in Intervals
    BY DEF SamplesBefore, get_num_samples, Intervals, NUM_SAMPLE_INTERVALS
  <2>2. s0 \in Sampler
    BY <2>1 DEF Sampler, NUM_SAMPLE_INTERVALS
  <2> QED
    BY <2>1, <2>2 DEF SamplerInv, NUM_SAMPLE_INTERVALS
<1>2. sampler = [h \in Hosts |-> s0]
  BY DEF Init
<1> HIDE DEF s0
<1>3. DOMAIN sampler = Hosts /\ \A h \in Hosts : SamplerInv(sampler[h])
  BY <1>1, <1>2
<1>4. MessageInv
  BY DEF Init, MessageInv, Sent
<1>5. Slots(filed) = {}
  BY DEF Init, Slots
<1>6. BookInv
  BY <1>5, FS_EmptySet DEF Init, BookInv
<1> QED
  BY <1>2, <1>3, <1>4, <1>6 DEF ExperimentInv

LEMMA ExperimentNext == ExperimentInv /\ [Next]_vars => ExperimentInv'
<1> SUFFICES ASSUME ExperimentInv, [Next]_vars
             PROVE  ExperimentInv'
  OBVIOUS
<1> USE DEF ExperimentInv
<1>1. ASSUME NEW h \in Hosts, Sample(h)
      PROVE  ExperimentInv'
  <2> DEFINE s == sampler[h]
             t == [AfterSample(s) EXCEPT !.seq = s.seq + 1]
  <2>1. PICK processes \in SUBSET Targets :
          network' = network \union {[host |-> h, seq |-> s.seq, hz |-> s.frequency,
                                      processes |-> processes]}
    BY <1>1 DEF Sample
  <2> DEFINE new == [host |-> h, seq |-> s.seq, hz |-> s.frequency, processes |-> processes]
  <2>2. /\ sampler' = [sampler EXCEPT ![h] = t] /\ s.index # NUM_SAMPLE_INTERVALS
        /\ UNCHANGED <<known, expected, numSamples, filed, series, outcome>>
    BY <1>1 DEF Sample
  <2>3. /\ SamplerInv(t) /\ t.seq = s.seq + 1 /\ s.frequency \in Intervals /\ s.seq \in Nat
        /\ SamplesBefore(s.frequency) <= s.seq /\ s.seq < SamplesBefore(s.frequency + 1)
    BY <2>2, SampleInItsInterval
  <2>4. network' = network \union {new}
    BY <2>1
  <2>5. new \in Messages /\ InItsInterval(new) /\ new.host = h /\ new.seq = s.seq
    BY <2>3 DEF Messages, InItsInterval
  <2> HIDE DEF t, new
  <2>6. /\ DOMAIN sampler' = Hosts
        /\ \A g \in Hosts : sampler'[g] = IF g = h THEN t ELSE sampler[g]
        /\ sampler' = [g \in Hosts |-> sampler'[g]]
    BY <2>2
  <2>7. \A g \in Hosts : SamplerInv(sampler'[g])
    BY <2>3, <2>6
  <2>8. Sent' = Sent \union {new}
    BY <2>2, <2>4 DEF Sent
  <2>9. \A m \in Sent : /\ m.host \in Hosts /\ m.seq \in Nat /\ m.seq < sampler[m.host].seq
                        /\ sampler[m.host].seq \in Nat
    <3>1. \A m \in Sent : m.host \in Hosts /\ m.seq \in Nat /\ m.seq < sampler[m.host].seq
      BY DEF MessageInv, Messages
    <3>2. \A g \in Hosts : sampler[g].seq \in Nat
      BY DEF SamplerInv, Sampler
    <3> QED
      BY <3>1, <3>2
  <2>10. \A m \in Sent : m.host = h => m.seq # s.seq
    BY <2>9
  <2>11. \A m \in Sent' : m.seq < sampler'[m.host].seq
    <3>1. new.seq < sampler'[new.host].seq
      BY <2>3, <2>5, <2>6
    <3>2. \A m \in Sent : m.seq < sampler'[m.host].seq
      BY <2>3, <2>6, <2>9
    <3> QED
      BY <2>8, <3>1, <3>2
  <2>12. MessageInv'
    <3>1. Sent' \subseteq Messages /\ \A m \in Sent' : InItsInterval(m)
      BY <2>5, <2>8 DEF MessageInv
    <3>2. \A m, n \in Sent' : m.host = n.host /\ m.seq = n.seq => m = n
      BY <2>5, <2>8, <2>10 DEF MessageInv
    <3>3. network' \intersect filed' = {}
      BY <2>2, <2>4, <2>5, <2>10 DEF MessageInv, Sent
    <3> QED
      BY <2>11, <3>1, <3>2, <3>3 DEF MessageInv, InItsInterval
  <2>13. BookInv'
    BY <2>2 DEF BookInv, Slots
  <2> QED
    BY <2>6, <2>7, <2>12, <2>13
<1>2. ASSUME NEW h \in Hosts, Exit(h)
      PROVE  ExperimentInv'
  <2> DEFINE t == [sampler[h] EXCEPT !.state = "exited"]
  <2>1. /\ sampler' = [sampler EXCEPT ![h] = t]
        /\ UNCHANGED <<network, known, expected, numSamples, filed, series, outcome>>
    BY <1>2 DEF Exit
  <2>2. SamplerInv(t) /\ t.seq = sampler[h].seq
    BY DEF SamplerInv, Sampler
  <2> HIDE DEF t
  <2>3. /\ DOMAIN sampler' = Hosts
        /\ \A g \in Hosts : sampler'[g] = IF g = h THEN t ELSE sampler[g]
        /\ sampler' = [g \in Hosts |-> sampler'[g]]
    BY <2>1
  <2>4. \A g \in Hosts : SamplerInv(sampler'[g]) /\ sampler'[g].seq = sampler[g].seq
    BY <2>2, <2>3
  <2>5. MessageInv'
    <3>1. Sent' = Sent /\ Sent \subseteq Messages
      BY <2>1 DEF Sent, MessageInv
    <3>2. \A m \in Sent : sampler'[m.host].seq = sampler[m.host].seq
      BY <2>4, <3>1 DEF Messages
    <3> QED
      BY <2>1, <3>1, <3>2 DEF MessageInv, InItsInterval
  <2>6. BookInv'
    BY <2>1 DEF BookInv, Slots
  <2> QED
    BY <2>3, <2>4, <2>5, <2>6
<1>3. ASSUME NEW message \in network, Lose(message)
      PROVE  ExperimentInv'
  <2>1. /\ network' = network \ {message}
        /\ UNCHANGED <<sampler, known, expected, numSamples, filed, series, outcome>>
    BY <1>3 DEF Lose
  <2>2. MessageInv'
    BY <2>1 DEF MessageInv, Sent, InItsInterval
  <2>3. BookInv'
    BY <2>1 DEF BookInv, Slots
  <2> QED
    BY <2>1, <2>2, <2>3
<1>4. ASSUME NEW message \in network, Handle(message)
      PROVE  ExperimentInv'
  <2> DEFINE slot == <<message.host, message.seq>>
  <2>1. /\ network' = network \ {message} /\ filed' = filed \union {message}
        /\ known' = known \union {message.host}
        /\ expected' = IF message.host \in known THEN expected
                       ELSE get_total_num_samples * Cardinality(known')
        /\ numSamples' = numSamples + 1
        /\ sampler' = sampler /\ outcome = "none"
    BY <1>4 DEF Handle, Register
  <2>2. outcome' # "none" => numSamples' = expected'
    BY <1>4, <2>1 DEF Handle
  <2>3. Sent' = Sent
    BY <2>1 DEF Sent
  <2>4. MessageInv'
    BY <2>1, <2>3 DEF MessageInv, Sent, InItsInterval
  <2>5. message \in Sent /\ message \in Messages /\ message \notin filed
    BY DEF MessageInv, Sent
  <2>6. Slots(filed') = Slots(filed) \union {slot}
    BY <2>1 DEF Slots
  <2>7. slot \notin Slots(filed)
    <3>1. ASSUME NEW m \in filed, <<m.host, m.seq>> = slot
          PROVE  FALSE
      <4>1. m.host = message.host /\ m.seq = message.seq /\ m \in Sent
        BY <3>1 DEF Sent
      <4> QED
        BY <2>5, <4>1 DEF MessageInv
    <3> QED
      BY <3>1 DEF Slots
  <2>8. IsFiniteSet(Slots(filed')) /\ numSamples' = Cardinality(Slots(filed'))
    <3>1. IsFiniteSet(Slots(filed)) /\ numSamples = Cardinality(Slots(filed))
      BY DEF BookInv
    <3> DEFINE S == Slots(filed)
    <3> HIDE DEF slot, S
    <3>2. slot \notin S /\ IsFiniteSet(S) /\ numSamples = Cardinality(S)
      BY <2>7, <3>1 DEF S
    <3>3. IsFiniteSet(S \union {slot}) /\ Cardinality(S \union {slot}) = Cardinality(S) + 1
      BY <3>2, FS_AddElement
    <3>4. Slots(filed') = S \union {slot}
      BY <2>6 DEF S
    <3> QED
      BY <2>1, <3>2, <3>3, <3>4
  <2>9. known' \subseteq Hosts /\ IsFiniteSet(known') /\ known' # {}
    <3>1. message.host \in Hosts
      BY <2>5 DEF Messages
    <3>2. IsFiniteSet(known)
      BY DEF BookInv
    <3> QED
      BY <2>1, <3>1, <3>2, FS_AddElement DEF BookInv
  <2>10. expected' = get_total_num_samples * Cardinality(known')
    <3>1. CASE message.host \in known
      <4>1. known' = known /\ known # {}
        BY <2>1, <3>1
      <4> QED
        BY <2>1, <3>1, <4>1 DEF BookInv
    <3>2. CASE message.host \notin known
      BY <2>1, <3>2
    <3> QED
      BY <3>1, <3>2
  <2>11. \A m \in filed' : m.host \in known'
    BY <2>1 DEF BookInv
  <2>12. BookInv'
    BY <2>2, <2>8, <2>9, <2>10, <2>11 DEF BookInv
  <2> QED
    BY <2>1, <2>4, <2>12
<1>5. CASE UNCHANGED vars
  BY <1>5 DEF vars, MessageInv, Sent, InItsInterval, BookInv, Slots
<1> QED
  BY <1>1, <1>2, <1>3, <1>4, <1>5 DEF Next

LEMMA ExperimentAlways == Spec => []ExperimentInv
BY ExperimentInit, ExperimentNext, PTL DEF Spec

\* Scheduler.cpp and Controller::AfterSample: the sample that changes the
\* frequency is filed under the one that it was taken at.
THEOREM EachUnderItsFrequency == Spec => []FiledByItsFrequency
<1>1. ExperimentInv => FiledByItsFrequency
  BY DEF ExperimentInv, MessageInv, Sent, InItsInterval, FiledByItsFrequency
<1> QED
  BY <1>1, ExperimentAlways, PTL

\* GnuplotHandler::Handle counts messages, not which ones they are; but as each
\* host it knows of sends no more than its share, in as many hosts as there may
\* be and whatever is lost, the count is full only when nothing is missing.
THEOREM CompleteWhenSaved == Spec => []AllSamplesReceived
<1>1. ExperimentInv => AllSamplesReceived
  <2> SUFFICES ASSUME ExperimentInv, outcome # "none"
               PROVE  \A h \in known, n \in 0..(get_total_num_samples - 1) :
                        \E message \in filed : message.host = h /\ message.seq = n
    BY DEF AllSamplesReceived
  <2> DEFINE numbers == 0..(get_total_num_samples - 1)
             all == known \X numbers
             got == Slots(filed)
  <2>1. /\ IsFiniteSet(known) /\ IsFiniteSet(got) /\ \A m \in filed : m.host \in known
        /\ Cardinality(got) = get_total_num_samples * Cardinality(known)
    BY DEF ExperimentInv, BookInv
  <2>2. IsFiniteSet(numbers) /\ Cardinality(numbers) = get_total_num_samples
    <3>1. get_total_num_samples \in Int /\ get_total_num_samples > 0
      BY DEF get_total_num_samples
    <3>2. get_total_num_samples - 1 \in Int /\ 0 \in Int /\ ~(0 > get_total_num_samples - 1)
          /\ (get_total_num_samples - 1) - 0 + 1 = get_total_num_samples
      BY <3>1
    <3> QED
      BY <3>2, FS_Interval
  <2> HIDE DEF numbers
  <2>3. IsFiniteSet(all) /\ Cardinality(all) = Cardinality(known) * get_total_num_samples
    BY <2>1, <2>2, FS_Product
  <2>4. got \subseteq all
    <3>1. ASSUME NEW m \in filed
          PROVE  <<m.host, m.seq>> \in all
      <4>1. m \in Messages /\ InItsInterval(m)
        BY DEF ExperimentInv, MessageInv, Sent
      <4>2. m.hz \in Intervals /\ m.seq \in Nat
        BY <4>1 DEF Messages
      <4>3. m.seq < SamplesBefore(m.hz + 1) /\ SamplesBefore(m.hz + 1) <= get_total_num_samples
            /\ SamplesBefore(m.hz + 1) \in Nat
        BY <4>1, <4>2, IntervalsAddUp DEF InItsInterval
      <4>4. m.seq \in numbers
        <5>1. get_total_num_samples \in Int
          BY DEF get_total_num_samples
        <5> QED
          BY <4>2, <4>3, <5>1 DEF numbers
      <4> QED
        BY <2>1, <4>4
    <3> QED
      BY <3>1 DEF Slots
  <2>5. Cardinality(got) = Cardinality(all)
    <3>1. Cardinality(known) \in Nat /\ get_total_num_samples \in Nat
      BY <2>1, FS_CardinalityType DEF get_total_num_samples
    <3> QED
      BY <2>1, <2>3, <3>1
  <2> HIDE DEF all, got
  <2>6. got = all
    BY <2>3, <2>4, <2>5, FS_Subset
  <2>7. \A h \in known, n \in numbers : <<h, n>> \in Slots(filed)
    BY <2>6 DEF all, got
  <2>8. ASSUME NEW h \in known, NEW n \in numbers
        PROVE  \E message \in filed : message.host = h /\ message.seq = n
    <3>1. PICK m \in filed : <<h, n>> = <<m.host, m.seq>>
      BY <2>7 DEF Slots
    <3> QED
      BY <3>1
  <2> QED
    BY <2>8 DEF numbers
<1> QED
  BY <1>1, ExperimentAlways, PTL

-----------------------------------------------------------------------------
(* The older monitor.                                                      *)

(* LinuxProcessMonitor::update: once all three files have been read, an    *)
(* update after the process has gone finds the text of io in the buffer,   *)
(* changes nothing and reports no use.                                     *)
LEMMA GoneBetweenUpdates ==
  ASSUME NEW W \in Nat, W > 0, NEW m \in OldMonitors(W), NEW n \in OldMonitors(W),
         m.buffer = "io", NEW kernel \in [AllFields -> Words(W)], NEW time \in Nat,
         OldUpdate(m, n, kernel, Files, time)
  PROVE  n.now = m.now /\ OldIoInBytes(n, W) = 0 /\ OldIoOutBytes(n, W) = 0
<1>1. \A file \in Files : Kept(m, n, FieldsOf(file))
  BY DEF OldUpdate, Misread, BufferAt, Holds, Files
<1>2. \A f \in AllFields : n.now[f] = m.now[f]
  BY <1>1 DEF Kept, AllFields, FieldsOf, Files
<1>3. m.now \in [AllFields -> Words(W)] /\ n.now \in [AllFields -> Words(W)]
  BY DEF OldMonitors
<1>4. n.now = m.now
  BY <1>2, <1>3
<1>5. "rchar" \in Remembered /\ "wchar" \in Remembered /\ Remembered \subseteq AllFields
  BY DEF Remembered, AllFields, StatFields, IoFields
<1>6. ASSUME NEW f \in Remembered
      PROVE  n.prev[f] = m.now[f] /\ n.now[f] = m.now[f] /\ m.now[f] \in Words(W)
  BY <1>3, <1>4, <1>5 DEF OldUpdate
<1>7. ASSUME NEW w \in Words(W) PROVE Since(w, w, W) = 0
  <2>1. 0 = 0 * W + 0 /\ 0 < W
    OBVIOUS
  <2>2. 0 % W = 0
    BY <2>1, RemainderUnique
  <2>3. w - w = 0
    BY DEF Words
  <2> QED BY <2>2, <2>3 DEF Since
<1> QED
  BY <1>4, <1>5, <1>6, <1>7 DEF OldIoInBytes, OldIoOutBytes

(* LinuxProcessMonitor::update: if the process goes after statm has been   *)
(* read and before io, the size of its resident set is taken for all that  *)
(* it has read so far.                                                     *)
LEMMA GoneBetweenReads ==
  ASSUME NEW W \in Nat, W > 0, NEW m \in OldMonitors(W), NEW n \in OldMonitors(W),
         m.files = Files, NEW kernel \in [AllFields -> Words(W)], NEW time \in Nat,
         OldUpdate(m, n, kernel, {"io"}, time)
  PROVE  OldIoInBytes(n, W) = Since(kernel["resident"], m.now["rchar"], W)
<1>1. n.now["resident"] = kernel["resident"]
  BY DEF OldUpdate, Files, FieldsOf, StatmFields
<1>2. n.now["rchar"] = n.now["resident"]
  BY DEF OldUpdate, Misread, BufferAt, Holds, Files
<1>3. n.prev["rchar"] = m.now["rchar"]
  BY DEF OldUpdate, Remembered
<1> QED BY <1>1, <1>2, <1>3 DEF OldIoInBytes

-----------------------------------------------------------------------------
(* The bar chart.                                                          *)

(* BarChart::_DrawBar: a bar and the value above it are drawn within their *)
(* window, whatever part of the total load the bar stands for, also where  *)
(* what is left for "others" has fallen below zero.                        *)
LEMMA BarStaysInWindow ==
  ASSUME NEW total \in Nat, total > 0, NEW user \in Int, NEW system \in Int,
         user <= total, system <= total, user + system <= total,
         NEW barIndex \in 0..(NUM_PROCESSES_TO_DISPLAY - 1)
  PROVE  LET bar == [label |-> "others", user |-> PercentOf(user), system |-> PercentOf(system)]
             window == Window(NUM_PROCESSES_TO_DISPLAY)
         IN  /\ \A box \in DrawnBars(barIndex, GetValues(bar)) :
                  /\ window.left <= box.left /\ box.right <= window.right
                  /\ window.bottom <= box.low /\ box.low <= box.high
                  /\ box.high <= window.top * total
             /\ ValueLabelAt(GetValues(bar), total) < window.top * total
<1> DEFINE bar == [label |-> "others", user |-> PercentOf(user), system |-> PercentOf(system)]
           window == Window(NUM_PROCESSES_TO_DISPLAY)
<1>1. PICK u \in Nat, s \in Nat :
        /\ u = NotBelowZero(PercentOf(user)) /\ s = NotBelowZero(PercentOf(system))
        /\ u <= 100 * total /\ s <= 100 * total /\ u + s <= 100 * total
  BY DEF NotBelowZero, PercentOf
<1>2. GetValues(bar) = <<s, u>>
  BY <1>1 DEF GetValues
<1>3. window.left = 0 /\ window.right = 8 /\ window.bottom = 0 /\ window.top = 105
  BY DEF Window, NUM_PROCESSES_TO_DISPLAY
<1>4. barIndex \in Int /\ 0 <= barIndex /\ barIndex + 1 <= 8
  BY DEF NUM_PROCESSES_TO_DISPLAY
<1>5. /\ \A box \in DrawnBars(barIndex, <<s, u>>) :
           /\ 0 <= box.left /\ box.right <= 8
           /\ 0 <= box.low /\ box.low <= box.high /\ box.high <= 105 * total
      /\ ValueLabelAt(<<s, u>>, total) < 105 * total
  BY <1>1, <1>4 DEF DrawnBars, ValueLabelAt
<1> HIDE DEF window, bar
<1>6. /\ \A box \in DrawnBars(barIndex, GetValues(bar)) :
           /\ window.left <= box.left /\ box.right <= window.right
           /\ window.bottom <= box.low /\ box.low <= box.high
           /\ box.high <= window.top * total
      /\ ValueLabelAt(GetValues(bar), total) < window.top * total
  BY <1>2, <1>3, <1>5
<1> QED BY <1>6 DEF window, bar

-----------------------------------------------------------------------------
(* Messages, rows and keys.                                                *)

\* Every field that a handler of the boids or of the bar chart reads whether
\* it is there or not is one its collector asks for, whatever the servers:
\* the collectors and the handlers are written in different files.
LEMMA FiltersCoverReads ==
  /\ \A hosts : ReadByBoids \subseteq BoidsCollector(hosts).filter
  /\ \A hosts : ReadByChart \subseteq ChartCollector(hosts).filter
BY DEF ReadByBoids, ReadByChart, BoidsCollector, ChartCollector, CommonFilter

\* The toggles of the legend do not hide what they are named for: the one
\* for the memory hides the boids of the network, the one for the storage
\* hides those of the memory, and the one for the network hides none.
LEMMA LegendHidesAnother ==
  /\ ~IsShapeShown(ShapeOf["network"], Toggle(AllShown, "memory"))
  /\ IsShapeShown(ShapeOf["memory"], Toggle(AllShown, "memory"))
  /\ ~IsShapeShown(ShapeOf["memory"], Toggle(AllShown, "storage"))
  /\ \A m \in Metrics : IsShapeShown(ShapeOf[m], Toggle(AllShown, "network"))
<1> DEFINE ButOf(metric) == Toggle(AllShown, metric)
<1>1. \A m, off \in Metrics : ButOf(off)[m] = (m # off)
  BY DEF Toggle, AllShown
<1>2. /\ ShapeOf["cpu"] = "QUAD" /\ ShapeOf["memory"] = "TRIANGLE_UP"
      /\ ShapeOf["network"] = "DIAMOND" /\ ShapeOf["storage"] = "POLYGON"
  BY DEF ShapeOf
<1> HIDE DEF ButOf
<1>3. \A off \in Metrics : IsShapeShown(ShapeOf["network"], ButOf(off)) = (off # "memory")
  BY <1>1, <1>2 DEF IsShapeShown, Metrics
<1>4. \A off \in Metrics : IsShapeShown(ShapeOf["memory"], ButOf(off)) = (off # "storage")
  BY <1>1, <1>2 DEF IsShapeShown, Metrics
<1>5. \A off \in Metrics : IsShapeShown(ShapeOf["storage"], ButOf(off)) 
  BY <1>2 DEF IsShapeShown
<1>6. \A off \in Metrics : IsShapeShown(ShapeOf["cpu"], ButOf(off)) = (off # "cpu")
  BY <1>1, <1>2 DEF IsShapeShown, Metrics
<1>7. /\ ~IsShapeShown(ShapeOf["network"], ButOf("memory"))
      /\ IsShapeShown(ShapeOf["memory"], ButOf("memory"))
      /\ ~IsShapeShown(ShapeOf["memory"], ButOf("storage"))
      /\ \A m \in Metrics : IsShapeShown(ShapeOf[m], ButOf("network"))
  BY <1>3, <1>4, <1>5, <1>6 DEF Metrics
<1> QED BY <1>7 DEF ButOf

\* The keys of processes on hosts with names of one length are different,
\* as the keys of the numbers of one host are.
THEOREM KeysApart ==
  ASSUME NEW Char, NEW h1 \in Seq(Char), NEW h2 \in Seq(Char), Len(h1) = Len(h2),
         NEW d1 \in Seq(Char), NEW d2 \in Seq(Char),
         CreateProcKey(h1, d1) = CreateProcKey(h2, d2)
  PROVE  h1 = h2 /\ d1 = d2
<1> DEFINE k1 == CreateProcKey(h1, d1)
           k2 == CreateProcKey(h2, d2)
<1>1. h1 = h2
  <2>1. \A i \in 1..Len(h1) : k1[i] = h1[i] /\ k2[i] = h2[i]
    BY DEF CreateProcKey
  <2> QED BY <2>1
<1>2. \A h, d \in Seq(Char) :
        /\ Len(h \o d) = Len(h) + Len(d)
        /\ \A i \in 1..Len(d) : (h \o d)[Len(h) + i] = d[i]
  OBVIOUS
<1>3. h1 \o d1 = h1 \o d2
  BY <1>1 DEF CreateProcKey
<1>4. Len(d1) = Len(d2)
  BY <1>2, <1>3
<1>5. \A i \in 1..Len(d1) : d1[i] = d2[i]
  BY <1>2, <1>3, <1>4
<1>6. d1 = d2
  BY <1>4, <1>5
<1> QED BY <1>1, <1>6

\* Names of different lengths may collide: process 23 of "a1" and process 3
\* of "a12" share a row, and the end of one removes the other.
LEMMA KeysCollide ==
  CreateProcKey(<<"a", "1">>, <<"2", "3">>) = CreateProcKey(<<"a", "1", "2">>, <<"3">>)
BY DEF CreateProcKey

\* No colour is darker than 20 of 255 in any part, nor beyond 255.
LEMMA NoNameIsDark ==
  \A hash \in Nat : \A i \in 1..3 : NameToRgbColor(hash)[i] \in 20..255
BY DEF NameToRgbColor, Lightened

MessagesOfProcess ==
  {Terminated} \union UNION {[F -> Values] : F \in SUBSET BoidsCollector(<<>>).filter}
TellingInv ==
  /\ samples \in Seq(Nat \ {0})
  /\ sent \in [Servers -> Seq(MessagesOfProcess)]
  /\ row = [s \in Servers |-> row[s]]

\* What a monitor sends tells the user and the start of the process only when
\* it is its first message (ProcessCollector.cpp, IsFirstTime).
LEMMA SentOnce ==
  ASSUME TellingInv, NEW m \in DOMAIN samples, Monitor(m)
  PROVE  \E message \in MessagesOfProcess :
           /\ sent' = [s \in Servers |-> Append(sent[s], message)]
           /\ samples[m] > 1 => \A f \in Once : ~Tells(message, f)
<1> DEFINE filter == BoidsCollector(<<>>).filter
<1>1. PICK read \in [filter -> Values] :
        LET message == [f \in FieldsOfMessage(DOMAIN read, samples'[m]) |-> read[f]]
        IN  sent' = [s \in Servers |-> Append(sent[s], message)]
  BY DEF Monitor
<1> DEFINE fields == FieldsOfMessage(DOMAIN read, samples'[m])
           message == [f \in fields |-> read[f]]
<1>2. fields \subseteq filter
  BY DEF FieldsOfMessage
<1> HIDE DEF filter
<1>3. message \in [fields -> Values]
  BY <1>1, <1>2
<1>4. message \in MessagesOfProcess
  BY <1>2, <1>3 DEF MessagesOfProcess, filter
<1>5. ASSUME samples[m] > 1, NEW f \in Once
      PROVE  f \notin fields
  <2>1. samples'[m] = samples[m] + 1 /\ samples[m] \in Nat
    BY DEF Monitor, Sampled, TellingInv
  <2> QED BY <1>5, <2>1 DEF FieldsOfMessage
<1>6. samples[m] > 1 => \A f \in Once : ~Tells(message, f)
  BY <1>5 DEF Tells
<1> QED BY <1>1, <1>4, <1>6

\* The end of a process tells neither.
LEMMA EndTellsNothing == Terminated \in MessagesOfProcess /\ \A f \in Once : ~Tells(Terminated, f)
BY DEF Terminated, MessagesOfProcess, Tells, Once

\* A monitor's update counts, and the others' counts stay.
LEMMA OneSampled ==
  ASSUME TellingInv, NEW m \in DOMAIN samples, Sampled(m)
  PROVE  /\ samples' \in Seq(Nat \ {0}) /\ Len(samples') = Len(samples)
         /\ \A k \in DOMAIN samples' : k \in DOMAIN samples /\ samples'[k] >= samples[k]
<1>1. /\ samples \in Seq(Nat \ {0}) /\ DOMAIN samples = 1..Len(samples) /\ Len(samples) \in Nat
      /\ samples \in [1..Len(samples) -> Nat \ {0}]
  BY DEF TellingInv
<1> DEFINE n == Len(samples)
<1>2. n \in Nat /\ m \in 1..n /\ samples \in [1..n -> Nat \ {0}]
  BY <1>1
<1> HIDE DEF n
<1>3. /\ samples' \in [1..n -> Nat \ {0}]
      /\ \A k \in 1..n : samples'[k] >= samples[k]
  BY <1>2 DEF Sampled
<1>4. samples' \in Seq(Nat \ {0}) /\ DOMAIN samples' = 1..n /\ Len(samples') = n
  BY <1>2, <1>3
<1> QED BY <1>1, <1>3, <1>4 DEF n

LEMMA TellingStep == TellingInv /\ [RowsNext]_rowVars => TellingInv'
<1> SUFFICES ASSUME TellingInv, [RowsNext]_rowVars PROVE TellingInv'
  OBVIOUS
<1> USE DEF TellingInv
<1>1. ASSUME NEW m \in DOMAIN samples, Sampled(m), NEW message \in MessagesOfProcess,
             sent' = [s \in Servers |-> Append(sent[s], message)], UNCHANGED row
      PROVE  TellingInv'
  <2>1. sent' \in [Servers -> Seq(MessagesOfProcess)]
    BY <1>1
  <2> QED BY <1>1, <2>1, OneSampled
<1>2. ASSUME NEW s \in Servers, sent[s] # <<>>, UNCHANGED samples,
             row' = [t \in Servers |-> row'[t]],
             sent' = [sent EXCEPT ![s] = Tail(sent[s])]
      PROVE  TellingInv'
  BY <1>2
<1>3. ASSUME NEW m \in DOMAIN samples, Monitor(m)
      PROVE  TellingInv'
  <2>1. Sampled(m) /\ UNCHANGED row
    BY <1>3 DEF Monitor
  <2>2. PICK message \in MessagesOfProcess : sent' = [s \in Servers |-> Append(sent[s], message)]
    BY <1>3, SentOnce
  <2> QED BY <1>1, <2>1, <2>2
<1>4. ASSUME NEW m \in DOMAIN samples, Terminate(m)
      PROVE  TellingInv'
  BY <1>1, <1>4, EndTellsNothing DEF Terminate
<1>5. ASSUME NEW s \in Servers, (\E host \in Values : HandleAt(s, host)) \/ NoHandlerAt(s)
      PROVE  TellingInv'
  BY <1>2, <1>5 DEF HandleAt, NoHandlerAt
<1>6. ASSUME NEW s \in Servers, Restart(s)
      PROVE  TellingInv'
  <2> DEFINE Queues == Seq(MessagesOfProcess)
  <2>1. <<>> \in Queues
    OBVIOUS
  <2> HIDE DEF Queues
  <2>2. sent \in [Servers -> Queues]
    BY DEF Queues
  <2>3. sent' \in [Servers -> Queues]
    BY <2>1, <2>2, <1>6 DEF Restart
  <2>4. row' = [t \in Servers |-> row'[t]] /\ samples' = samples
    BY <1>6 DEF Restart
  <2> QED BY <2>3, <2>4 DEF Queues
<1>7. CASE Reopen
  <2>1. samples' \in Seq(Nat \ {0})
    BY <1>7 DEF Reopen
  <2> QED BY <1>7, <2>1 DEF Reopen
<1>8. CASE UNCHANGED rowVars
  BY <1>8 DEF rowVars
<1> QED BY <1>3, <1>4, <1>5, <1>6, <1>7, <1>8 DEF RowsNext

LEMMA MonitorsStay ==
  ASSUME TellingInv, [RowsNext]_rowVars
  PROVE  /\ Len(samples) \in Nat
         /\ Len(samples') = Len(samples) \/ Len(samples') = Len(samples) + 1
<1>1. Len(samples) \in Nat
  BY DEF TellingInv
<1>2. ASSUME NEW m \in DOMAIN samples, Sampled(m)
      PROVE  Len(samples') = Len(samples)
  BY <1>2, OneSampled
<1>3. CASE Reopen
  BY <1>3 DEF Reopen, TellingInv
<1>4. samples' = samples \/ Reopen \/ \E m \in DOMAIN samples : Sampled(m)
  BY Zenon DEF RowsNext, rowVars, Monitor, Terminate, HandleAt, NoHandlerAt, Restart
<1> QED BY <1>1, <1>2, <1>3, <1>4

\* A server that has missed the first message of every monitor of a process,
\* because its handler was not registered yet or because it was started again,
\* shows no user and no start for it until the daemon makes one more monitor of
\* the process, whatever messages and samples follow.
THEOREM MissedUntilReopened ==
  ASSUME NEW s \in Servers, NEW f \in Once, NEW n \in Nat
  PROVE  RowsSpec => [](Missed(s, f) /\ Len(samples) = n
                          => [](Len(samples) = n => Missed(s, f)))
<1>1. ASSUME TellingInv, [RowsNext]_rowVars, Missed(s, f), Len(samples') = Len(samples)
      PROVE  Missed(s, f)'
  <2> USE <1>1 DEF TellingInv, Missed
  <2>1. ASSUME NEW m \in DOMAIN samples, Sampled(m), NEW message \in MessagesOfProcess,
               sent' = [t \in Servers |-> Append(sent[t], message)],
               ~Tells(message, f), UNCHANGED row
        PROVE  Missed(s, f)'
    <3>1. sent'[s] = Append(sent[s], message) /\ sent[s] \in Seq(MessagesOfProcess)
      BY <2>1
    <3>2. \A i \in DOMAIN sent'[s] : ~Tells(sent'[s][i], f)
      BY <2>1, <3>1
    <3>3. \A k \in DOMAIN samples' : samples'[k] > 1
      <4>1. \A k \in DOMAIN samples' : /\ k \in DOMAIN samples /\ samples'[k] >= samples[k]
                                       /\ samples'[k] \in Nat /\ samples[k] \in Nat
        BY <2>1, OneSampled
      <4> QED BY <4>1
    <3> QED BY <2>1, <3>2, <3>3
  <2>2. ASSUME NEW t \in Servers, sent[t] # <<>>, UNCHANGED samples,
               sent' = [sent EXCEPT ![t] = Tail(sent[t])],
               row'[s][f] = Blank
        PROVE  Missed(s, f)'
    <3>1. \A i \in DOMAIN sent'[s] : \E j \in DOMAIN sent[s] : sent'[s][i] = sent[s][j]
      <4>1. CASE t # s
        BY <2>2, <4>1
      <4>2. CASE t = s
        <5>1. sent'[s] = Tail(sent[s]) /\ sent[s] \in Seq(MessagesOfProcess)
          BY <2>2, <4>2
        <5>2. ASSUME NEW i \in DOMAIN Tail(sent[s])
              PROVE  i + 1 \in DOMAIN sent[s] /\ Tail(sent[s])[i] = sent[s][i + 1]
          BY <2>2, <4>2, <5>1
        <5> QED BY <5>1, <5>2
      <4> QED BY <4>1, <4>2
    <3> QED BY <2>2, <3>1
  <2>3. ASSUME NEW m \in DOMAIN samples, Monitor(m)
        PROVE  Missed(s, f)'
    <3>1. Sampled(m) /\ UNCHANGED row /\ samples[m] > 1
      BY <2>3 DEF Monitor
    <3>2. PICK message \in MessagesOfProcess :
            /\ sent' = [t \in Servers |-> Append(sent[t], message)]
            /\ samples[m] > 1 => \A g \in Once : ~Tells(message, g)
      BY <2>3, SentOnce
    <3> QED BY <2>1, <3>1, <3>2
  <2>4. ASSUME NEW m \in DOMAIN samples, Terminate(m)
        PROVE  Missed(s, f)'
    BY <2>1, <2>4, EndTellsNothing DEF Terminate
  <2>5. ASSUME NEW t \in Servers, NEW host \in Values, HandleAt(t, host)
        PROVE  Missed(s, f)'
    <3>1. row'[s][f] = Blank
      <4>1. CASE t # s
        BY <2>5, <4>1 DEF HandleAt
      <4>2. CASE t = s
        <5>1. f \in ItemFields /\ f # "hostname"
          BY DEF ItemFields, Once
        <5>2. ~Tells(Head(sent[s]), f)
          BY <2>5, <4>2 DEF HandleAt
        <5> DEFINE new == WithHost(Head(sent[s]), BoidsCollector(<<>>).context, host)
        <5>3. f \notin DOMAIN new
          BY <5>1, <5>2 DEF WithHost, Tells
        <5>4. SetItem(row[s], new)[f] = row[s][f]
          BY <5>1, <5>3 DEF SetItem
        <5>5. TableItem[f] = Blank
          BY <5>1 DEF TableItem
        <5>6. row'[s] = TableItem \/ row'[s] = SetItem(row[s], new)
          BY <2>5, <4>2 DEF HandleAt
        <5> QED BY <5>4, <5>5, <5>6
      <4> QED BY <4>1, <4>2
    <3> QED BY <2>2, <2>5, <3>1 DEF HandleAt
  <2>6. ASSUME NEW t \in Servers, NoHandlerAt(t)
        PROVE  Missed(s, f)'
    BY <2>2, <2>6 DEF NoHandlerAt
  <2>7. ASSUME NEW t \in Servers, Restart(t)
        PROVE  Missed(s, f)'
    BY <2>7 DEF Restart, TableItem, ItemFields, Once
  <2>8. CASE UNCHANGED rowVars
    BY <2>8 DEF rowVars
  <2>9. ~Reopen
    BY DEF Reopen
  <2> QED BY <2>3, <2>4, <2>5, <2>6, <2>7, <2>8, <2>9 DEF RowsNext
<1> DEFINE Now == Missed(s, f) /\ Len(samples) = n
           Later == Len(samples) \in Nat /\ Len(samples) > n
<1>2. RowsInit => TellingInv
  BY DEF RowsInit, TellingInv
<1>3. TellingInv /\ [RowsNext]_rowVars /\ (Now \/ Later) => (Now \/ Later)'
  <2> SUFFICES ASSUME TellingInv, [RowsNext]_rowVars, Now \/ Later PROVE (Now \/ Later)'
    OBVIOUS
  <2>1. CASE Later
    BY <2>1, MonitorsStay
  <2>2. CASE Now /\ Len(samples') = Len(samples)
    BY <1>1, <2>2
  <2>3. CASE Now /\ Len(samples') = Len(samples) + 1
    BY <2>3, MonitorsStay
  <2> QED BY <2>1, <2>2, <2>3, MonitorsStay
<1>4. Now \/ Later => (Len(samples) = n => Missed(s, f))
  OBVIOUS
<1> HIDE DEF Now, Later
<1>5. Missed(s, f) /\ Len(samples) = n <=> Now
  BY DEF Now
<1> QED BY <1>2, <1>3, <1>4, <1>5, TellingStep, PTL DEF RowsSpec
=============================================================================
