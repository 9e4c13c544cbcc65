------------------------------ MODULE WallView -----------------------------
(***************************************************************************)
(* lib/WallView.cpp: a grid of tiles on the display wall.  Its members     *)
(* decide which tiles show the application, what part of the picture each  *)
(* of them shows, and where on the picture a touch of the wall is.         *)
(*                                                                         *)
(* A tile is its column and its row: HOSTNAMES lists tile-<column>-<row>   *)
(* row by row, from the bottom left.  A view is a record of the four       *)
(* arguments of the constructor; lengths are pixels.                       *)
(***************************************************************************)
EXTENDS Integers

WALL_WIDTH == 7
WALL_HEIGHT == 4
TILE_SCREEN_WIDTH == 1024
TILE_SCREEN_HEIGHT == 768

Tiles == [column : 0..(WALL_WIDTH - 1), row : 0..(WALL_HEIGHT - 1)]

\* Where the grid begins and how many tiles it is to have.
Views == [x : 0..(WALL_WIDTH - 1), y : 0..(WALL_HEIGHT - 1),
          w : Nat \ {0}, h : Nat \ {0}]
FitsOnWall(view) == view.x + view.w <= WALL_WIDTH /\ view.y + view.h <= WALL_HEIGHT

\* _grid: the constructor's loops stop at the wall's edge.
Least(m, n) == IF m < n THEN m ELSE n
Columns(view) == Least(view.w, WALL_WIDTH - view.x)
Rows(view) == Least(view.h, WALL_HEIGHT - view.y)
Grid(view) ==
  [k \in 0..(Columns(view) * Rows(view) - 1) |->
     [column |-> view.x + (k % Columns(view)), row |-> view.y + (k \div Columns(view))]]

\* The first place of a tile's name in _grid, or -1.  Names differ.
GetIndex(view, tile) ==
  IF \E k \in DOMAIN Grid(view) : Grid(view)[k] = tile
    THEN CHOOSE k \in DOMAIN Grid(view) : Grid(view)[k] = tile
    ELSE -1
IsTileWithin(view, tile) == GetIndex(view, tile) # -1
IsLowerLeft(view, tile) == GetIndex(view, tile) = 0

\* Asked of the tiles within the grid.
IndexToCoordinates(view, index) == [x |-> index % view.w, y |-> index \div view.w]

\* The lower left corner of the part of the picture that a tile shows.
GetDisplayArea(view, tile) ==
  LET pos == IndexToCoordinates(view, GetIndex(view, tile))
  IN  [x |-> TILE_SCREEN_WIDTH * pos.x, y |-> TILE_SCREEN_HEIGHT * pos.y]

\* Touches, in pixels of the whole wall.
IsCordsWithin(view, x, y) ==
  /\ view.x * TILE_SCREEN_WIDTH <= x /\ x <= (view.x + view.w) * TILE_SCREEN_WIDTH
  /\ view.y * TILE_SCREEN_HEIGHT <= y /\ y <= (view.y + view.h) * TILE_SCREEN_HEIGHT
GlobalToGridCoords(view, x, y) ==
  [x |-> x - TILE_SCREEN_WIDTH * view.x, y |-> y - TILE_SCREEN_HEIGHT * view.y]

\* Whether a pixel of the wall is on a tile's screen.
IsOn(tile, x, y) ==
  /\ tile.column * TILE_SCREEN_WIDTH <= x /\ x < (tile.column + 1) * TILE_SCREEN_WIDTH
  /\ tile.row * TILE_SCREEN_HEIGHT <= y /\ y < (tile.row + 1) * TILE_SCREEN_HEIGHT

=============================================================================
