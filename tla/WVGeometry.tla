----------------------------- MODULE WVGeometry -----------------------------
(***************************************************************************)
(* lib/touchmanager/WVGeometry: the points, rectangles and circles that    *)
(* touches come as, and STouchManager::maxDistanceBetweenTouches.  Places  *)
(* are whole numbers; of distances only the square is a whole number, so   *)
(* that circles are told apart by what distance() gives, as a parameter.   *)
(* The intersection of lines is a function of the shout library.           *)
(***************************************************************************)
EXTENDS Integers, Sequences

Points2d == [x : Int, y : Int]
Points3d == [x : Int, y : Int, z : Int]

\* The operators of both kinds of point, with a point and with a value.  A
\* quotient of two places is no whole number and is left out.
Applied(op, a, b) ==
  CASE op = "+" -> a + b
    [] op = "-" -> a - b
    [] op = "*" -> a * b
PerAxis(op, p, q) == [axis \in DOMAIN p |-> Applied(op, p[axis], q[axis])]
WithValue(op, p, value) == [axis \in DOMAIN p |-> Applied(op, p[axis], value)]
Translate(p, by) == [axis \in DOMAIN p |-> p[axis] + by[axis]]

DistanceSquared(p, q) == (q.x - p.x) * (q.x - p.x) + (q.y - p.y) * (q.y - p.y)

Limited(value, lim) == IF value < -lim THEN -lim ELSE IF value > lim THEN lim ELSE value
Limit(p, lim) == [axis \in DOMAIN p |-> Limited(p[axis], lim)]

\* Twice in a row: what was brought up from below may have to come down.
WrappedUp(value, min, max) == IF value < min THEN value + (max - min) ELSE value
WrappedDown(value, min, max) == IF value > max THEN value - (max - min) ELSE value
wrap(p, min, max) ==
  [axis \in DOMAIN p |-> WrappedDown(WrappedUp(p[axis], min, max), min, max)]

-----------------------------------------------------------------------------
(* Rectangles: an origin and a size.                                       *)

Rects == [x : Int, y : Int, w : Int, h : Int]

Contains(r, p) == /\ r.x <= p.x /\ p.x < r.x + r.w
                  /\ r.y <= p.y /\ p.y < r.y + r.h
Empty(r) == r.w * r.h <= 0

\* One axis of the intersection of two spans, each from .at for .len.
Overlap(a, b) ==
  IF a.at <= b.at /\ a.at + a.len >= b.at
  THEN [at |-> b.at, len |-> IF a.at + a.len > b.at + b.len THEN b.len ELSE a.at + a.len - b.at]
  ELSE IF b.at < a.at /\ b.at + b.len > a.at
  THEN [at |-> a.at, len |-> IF b.at + b.len > a.at + a.len THEN a.len ELSE b.at + b.len - a.at]
  ELSE [at |-> -1, len |-> 0]
Intersect(a, b) ==
  LET across == Overlap([at |-> a.x, len |-> a.w], [at |-> b.x, len |-> b.w])
      along == Overlap([at |-> a.y, len |-> a.h], [at |-> b.y, len |-> b.h])
  IN  [x |-> across.at, y |-> along.at, w |-> across.len, h |-> along.len]
Intersects(a, b) == ~Empty(Intersect(a, b))

Lesser(a, b) == IF b < a THEN b ELSE a
Greater(a, b) == IF a < b THEN b ELSE a
RectUnion(a, b) ==
  LET x == Lesser(a.x, b.x)
      y == Lesser(a.y, b.y)
  IN  [x |-> x, y |-> y, w |-> Greater(a.x + a.w - x, b.x + b.w - x),
       h |-> Greater(a.y + a.h - y, b.y + b.h - y)]

\* The four coordinates on an axis, and the eight fields around the middle
\* one.  All eight are written to the array, the empty ones too.
Coordinates(a, alen, b, blen) ==
  <<Lesser(a, b), Greater(a, b), Lesser(a + alen, b + blen), Greater(a + alen, b + blen)>>
Fields == {f \in (1..3) \X (1..3) : f # <<2, 2>>}
Field(a, b, f) ==
  LET x == Coordinates(a.x, a.w, b.x, b.w)
      y == Coordinates(a.y, a.h, b.y, b.h)
  IN  [x |-> x[f[1]], y |-> y[f[2]], w |-> x[f[1] + 1] - x[f[1]], h |-> y[f[2] + 1] - y[f[2]]]
Subtract(a, b) == [f \in Fields |-> Field(a, b, f)]

-----------------------------------------------------------------------------
(* Circles, at a distance d from each other.                               *)

CircleHolds(radius, other, d) == d + other < radius
CirclesIntersect(radius, other, d) == d < radius + other
CircleRect(c, radius) ==
  [x |-> c.x - radius, y |-> c.y - radius, w |-> 2 * radius, h |-> 2 * radius]

\* The union, in halves: how far its centre is from that of each circle, and
\* its radius.
CircleUnion(radius, other, d) ==
  IF CircleHolds(radius, other, d) THEN [from |-> 0, fromOther |-> 2 * d, r |-> 2 * radius]
  ELSE IF CircleHolds(other, radius, d) THEN [from |-> 2 * d, fromOther |-> 0, r |-> 2 * other]
  ELSE [from |-> d, fromOther |-> d, r |-> 2 * d + radius + other]

-----------------------------------------------------------------------------
(* STouchManager.                                                          *)

\* The first of the pairs that are farthest apart; the indices are left as
\* they were if no two touches are apart.
maxDistanceBetweenTouches(locs, was) ==
  LET Pairs == {p \in (1..Len(locs)) \X (1..Len(locs)) : p[1] < p[2]}
      Apart(p) == DistanceSquared(locs[p[1]], locs[p[2]])
      Farthest == {p \in Pairs : Apart(p) > 0 /\ \A q \in Pairs : Apart(q) <= Apart(p)}
  IN  IF Farthest = {} THEN was
      ELSE CHOOSE p \in Farthest :
             \A q \in Farthest : p[1] < q[1] \/ (p[1] = q[1] /\ p[2] <= q[2])

=============================================================================
