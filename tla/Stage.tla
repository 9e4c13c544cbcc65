------------------------------- MODULE Stage -------------------------------
(***************************************************************************)
(* modules/boids2d: how the picture is put together and what a touch of it *)
(* hits.  BoidsApp.cpp divides the picture of a whole grid of tiles into   *)
(* scenes, each with a square of its own of 100 by 100 in which its        *)
(* entities have their places (Scene.cpp, Entity.cpp); every tile shows    *)
(* its part of the same picture.  Also what the axes (BoidAxis.cpp) and    *)
(* the tables (Table.cpp) draw outside the square's field.                 *)
(*                                                                         *)
(* Places on the picture are whole numbers of a 200th of a pixel, so that  *)
(* half a percent of n pixels is n.                                        *)
(***************************************************************************)
EXTENDS TableGeometry, WallView, Sequences

GetTotalPixelWidth(view) == TILE_SCREEN_WIDTH * view.w
GetTotalPixelHeight(view) == TILE_SCREEN_HEIGHT * view.h

SceneNames == {"table", "boids", "panel"}
Places == [x : Int, y : Int]
Areas == [x : Int, y : Int, w : Nat, h : Nat]
Scenes(view) ==
  LET w == GetTotalPixelWidth(view)
      h == GetTotalPixelHeight(view)
  IN  [table |-> [x |-> 0, y |-> 0, w |-> 100 * w, h |-> 200 * h],
       boids |-> [x |-> 110 * w, y |-> 26 * h, w |-> 80 * w, h |-> 161 * h],
       panel |-> [x |-> 0, y |-> 0, w |-> 200 * w, h |-> 200 * h]]

\* A hundred times _scale: the side of the scene's square.
Side(scene) == Least(scene.w, scene.h)

\* The place of the square's (x, y), in hundredths.
LoadVirtual(scene, x, y) ==
  [x |-> 100 * scene.x + Side(scene) * x, y |-> 100 * scene.y + Side(scene) * y]

\* The inverse, in a unit of which Side(scene) make one percent of the square.
RealToVirtualCoords(scene, place) ==
  [x |-> 100 * (place.x - scene.x), y |-> 100 * (place.y - scene.y)]

\* IsHit of a scene, and of an entity's box of percents.
IsWithin(area, place) ==
  /\ area.x <= place.x /\ place.x <= area.x + area.w
  /\ area.y <= place.y /\ place.y <= area.y + area.h
IsHit(box, scene, virt) ==
  IsWithin([x |-> Side(scene) * box.x, y |-> Side(scene) * box.y,
            w |-> Side(scene) * box.w, h |-> Side(scene) * box.h], virt)

\* The control panel never sets its box: Entity() gives it a height of 0 and
\* leaves the rest, and the other boxes come from Table and BoidAxis::OnInit.
TABLE_TOP == 85
TABLE_BOTTOM == 15
PanelBoxes == {box \in Areas : box.h = 0}
Boxes(panelBox) ==
  [axis |-> [x |-> 0, y |-> 0, w |-> 100, h |-> 100],
   table |-> [x |-> 0, y |-> TABLE_BOTTOM, w |-> 50, h |-> TABLE_TOP],
   subTable |-> [x |-> 50, y |-> 0, w |-> 50, h |-> 100],
   panel |-> panelBox]
EntityList == [table |-> {"table", "subTable"}, boids |-> {"axis"}, panel |-> {"panel"}]

\* EntityHit: an entity, and where in the square it is hit.
GetEntityHits(name, scene, virt, panelBox) ==
  {[entity |-> e, virt |-> virt] :
     e \in {f \in EntityList[name] : IsHit(Boxes(panelBox)[f], scene, virt)}}
GetAllEntityHits(view, place, panelBox) ==
  UNION {GetEntityHits(name, Scenes(view)[name],
                       RealToVirtualCoords(Scenes(view)[name], place), panelBox)
           : name \in {n \in SceneNames : IsWithin(Scenes(view)[n], place)}}

\* SetDisplayArea, and the projection that shows a tile's part: whether it
\* shows a pixel of the picture.
Shows(view, tile, x, y) ==
  LET area == GetDisplayArea(view, tile)
  IN  /\ area.x <= x /\ x < area.x + TILE_SCREEN_WIDTH
      /\ area.y <= y /\ y < area.y + TILE_SCREEN_HEIGHT

-----------------------------------------------------------------------------
(* Rows and what hides them.                                               *)

TopItemHeight == 6
SubItemHeight == 15

\* The rows that the loops of the draw functions reach, at a scale of unit to
\* a percent: from FirstDrawn to the last one that begins on the picture.
Drawn(pixel, unit, height, row) ==
  /\ row >= FirstDrawn(pixel, unit * height)
  /\ UpperEdge(pixel, unit * height, unit * TABLE_TOP, row) >= 0

\* Where the lines of text of a row begin below its upper edge, in tenths of
\* a percent: the name, and the details in the table of one name's processes.
TopItemLines == {45}
SubItemLines == {25, 50, 75, 100, 125}

\* _DrawBlackBorders.
BorderAbove == [low |-> TABLE_TOP, high |-> 120]
BorderBelow == [low |-> -20, high |-> TABLE_BOTTOM]
Hides(border, unit, y) == unit * border.low <= y /\ y <= unit * border.high

-----------------------------------------------------------------------------
(* Texts.                                                                  *)

\* What k rounds of the loop leave of a text of which the characters after the
\* first n + 1 are to stay: k go, and the one before those becomes a dot.  If
\* all may go, the first round finds nothing to erase.
Cut(text, n, k) ==
  LET gone == IF n = Len(text) THEN k - 1 ELSE k
  IN  [i \in 1..(Len(text) - gone) |->
         IF i <= n - k THEN text[i] ELSE IF i = n - k + 1 THEN "." ELSE text[i + k]]

\* Texts whose width is at most the limit after k rounds, for the k in fits.
\* Beyond the beginning of the string, erase and replace throw out_of_range.
TrimHorizontal(text, n, fits) ==
  IF 0 \in fits THEN {text}
  ELSE {Cut(text, n, k) : k \in {j \in fits \cap 1..n : \A i \in fits : j <= i}}

\* The text of a row: a name, and the number of its processes in brackets.
StaysOfRow(text, digits) == Len(text) - (4 + digits)

-----------------------------------------------------------------------------
(* The axes' ticks, in eighths of a percent, and the numbers at them.      *)

TickSize == 25
LinearTicks == {[at |-> 8 * TickSize * i, label |-> TickSize * i] : i \in 0..(100 \div TickSize)}

\* On the logarithmic axis 2^n is at (n + 1) * 12.5 percent.  The last eight
\* numbers are powers of two; the first is a 0.
LinearToLogarithmicAxisValue(exponent) == 100 * (exponent + 1)
LogarithmicTicks == {[at |-> 100 * i, exponent |-> i - 1] : i \in 1..8}

\* Where the lowest and the leftmost text begins: what the axes measure, the
\* second one turned by 90 degrees.
LabelsBelow == -15
LabelsLeft == -15

=============================================================================
