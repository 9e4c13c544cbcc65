--------------------------- MODULE TableGeometry ---------------------------
(***************************************************************************)
(* modules/boids2d/Table.cpp: where on the screen a table draws its rows   *)
(* and which row a tap means, and how far the list can be scrolled.        *)
(*                                                                         *)
(* Positions and heights are whole numbers of a unit as small as one       *)
(* likes.  pixel is _currentPixelIndex, negative when the list has been    *)
(* pulled down below the table's top; h is _itemHeight.  Rows count from   *)
(* 0, as in the code.                                                      *)
(***************************************************************************)
EXTENDS Integers

\* Conversion of a quotient to int, and fmod: both round towards 0.
Quotient(a, b) == IF a >= 0 THEN a \div b ELSE -((-a) \div b)
Fmod(a, b) == a - b * Quotient(a, b)

CurrentPixelToItemIndex(pixel, h) == Quotient(pixel, h)

ItemNumberToPixel(pixel, h, top, number) == (top + Fmod(pixel, h)) - h * number

RelativePixelToItemIndex(pixel, h, top, y) ==
  Quotient((top - y) + Fmod(pixel, h), h) + CurrentPixelToItemIndex(pixel, h)

\* The loops of the two draw functions: the first row that they draw, and the
\* upper edge of a row, with its lower edge h below.
FirstDrawn(pixel, h) ==
  LET start == CurrentPixelToItemIndex(pixel, h) IN IF start > 0 THEN start ELSE 0
UpperEdge(pixel, h, top, row) ==
  ItemNumberToPixel(pixel, h, top, row - CurrentPixelToItemIndex(pixel, h))
Covers(pixel, h, top, row, y) ==
  LET upper == UpperEdge(pixel, h, top, row) IN upper - h < y /\ y <= upper

\* The position that a scroll synchronizes, for a list of n rows.
MaxPixelIndex(n, h) == Quotient(((IF n > 2 THEN n ELSE 2) * (2 * h)) - 3 * h, 2)
ScrollDown(pixel, h, n, speed) ==
  LET far == pixel + speed IN IF far < MaxPixelIndex(n, h) THEN far ELSE MaxPixelIndex(n, h)
ScrollUp(pixel, lowest, speed) ==
  LET far == pixel - speed IN IF far > lowest THEN far ELSE lowest

=============================================================================
