-------------------------------- MODULE Maze --------------------------------
(***************************************************************************)
(* The maze as an array and the computations on it (src/src/maze.c,        *)
(* src/include/maze.h), for one caller at a time.  Module MazeThreads has  *)
(* the same operations access by access, with several callers.             *)
(*                                                                         *)
(* Objects are EMPTY, avatars and solid objects; which letter an avatar    *)
(* has and which sign a solid object is make no difference here.  Module   *)
(* MazeViews checks the computations against each other.                   *)
(***************************************************************************)
EXTENDS Integers, FiniteSets

CONSTANTS Rows, Cols,    \* the_row and the_col
          VIEW_DEPTH,    \* the maximum depth of a view
          Avatar, Solid, \* objects that are not EMPTY
          EMPTY

ASSUME SizeAssumption == Rows \in Nat \ {0} /\ Cols \in Nat \ {0}
ASSUME DepthAssumption == VIEW_DEPTH \in Nat \ {0}
ASSUME ObjectAssumption == /\ EMPTY \notin Avatar \cup Solid
                           /\ Avatar \cap Solid = {}

OBJECT == Avatar \cup Solid \cup {EMPTY}
Cell == (0 .. Rows - 1) \X (0 .. Cols - 1)

IS_AVATAR(o) == o \in Avatar

-----------------------------------------------------------------------------
(* Directions                                                              *)

NORTH == 0
WEST == 1
SOUTH == 2
EAST == 3
DIRECTION == {NORTH, WEST, SOUTH, EAST}

TURN_LEFT(d) == IF d = EAST THEN NORTH ELSE d + 1
TURN_RIGHT(d) == IF d = NORTH THEN EAST ELSE d - 1
REVERSE(d) == IF d < 2 THEN d + 2 ELSE d - 2

\* The cell k units from cell c in direction d, as the comment on DIRECTION
\* defines the directions.
Delta == [d \in DIRECTION |-> CASE d = NORTH -> <<-1, 0>> [] d = WEST -> <<0, -1>>
                                [] d = SOUTH -> <<1, 0>> [] d = EAST -> <<0, 1>>]
Ahead(c, d, k) == <<c[1] + k * Delta[d][1], c[2] + k * Delta[d][2]>>

-----------------------------------------------------------------------------
(* maze_find_target                                                        *)

\* Mutant: the search starts at the shooter's own cell.
DistancesFromSelf(row, col, dir) ==
  CASE dir = NORTH -> 0 .. row
    [] dir = WEST  -> 0 .. col
    [] dir = SOUTH -> 0 .. Rows - 1 - row
    [] dir = EAST  -> 0 .. Cols - 1 - col

\* The distances the loop of each direction runs through.
Distances(row, col, dir) ==
  CASE dir = NORTH -> 1 .. row
    [] dir = WEST  -> 1 .. col
    [] dir = SOUTH -> 1 .. Rows - 1 - row
    [] dir = EAST  -> 1 .. Cols - 1 - col

\* The first cell of the search that is not empty decides: an avatar is the
\* target, a solid object ends the search.
FindTarget(maze, row, col, dir) ==
  LET at(k) == maze[Ahead(<<row, col>>, dir, k)]
      hit == {k \in Distances(row, col, dir) : at(k) # EMPTY}
  IN  IF hit = {} THEN EMPTY
      ELSE LET first == CHOOSE k \in hit : \A j \in hit : k <= j
           IN  IF IS_AVATAR(at(first)) THEN at(first) ELSE EMPTY

-----------------------------------------------------------------------------
(* maze_get_view                                                           *)

MinOf(a, b) == IF a <= b THEN a ELSE b

\* The depth that is returned.
ViewEnd(row, col, gaze, depth) ==
  LET d == MinOf(depth, VIEW_DEPTH)
  IN  CASE gaze = NORTH -> IF row - d < 0 THEN row + 1 ELSE d
        [] gaze = WEST  -> IF col - d < 0 THEN col + 1 ELSE d
        [] gaze = SOUTH -> IF row + d > Rows THEN Rows - row ELSE d
        [] gaze = EAST  -> IF col + d > Cols THEN Cols - col ELSE d

\* Mutant: the two walls change places in one of the directions.
ViewCellsSwapped(row, col, gaze, i) ==
  CASE gaze = NORTH -> << <<row - i, col - 1>>, <<row - i, col>>, <<row - i, col + 1>> >>
    [] gaze = WEST  -> << <<row - 1, col - i>>, <<row, col - i>>, <<row + 1, col - i>> >>
    [] gaze = SOUTH -> << <<row + i, col + 1>>, <<row + i, col>>, <<row + i, col - 1>> >>
    [] gaze = EAST  -> << <<row - 1, col + i>>, <<row, col + i>>, <<row + 1, col + i>> >>

\* The cells copied to entry i of the view: LEFT_WALL, CORRIDOR, RIGHT_WALL.
ViewCells(row, col, gaze, i) ==
  CASE gaze = NORTH -> << <<row - i, col - 1>>, <<row - i, col>>, <<row - i, col + 1>> >>
    [] gaze = WEST  -> << <<row + 1, col - i>>, <<row, col - i>>, <<row - 1, col - i>> >>
    [] gaze = SOUTH -> << <<row + i, col + 1>>, <<row + i, col>>, <<row + i, col - 1>> >>
    [] gaze = EAST  -> << <<row - 1, col + i>>, <<row, col + i>>, <<row + 1, col + i>> >>

LEFT_WALL == 1
CORRIDOR == 2
RIGHT_WALL == 3

GetView(maze, row, col, gaze, depth) ==
  [i \in 0 .. ViewEnd(row, col, gaze, depth) - 1 |->
     [k \in LEFT_WALL .. RIGHT_WALL |-> maze[ViewCells(row, col, gaze, i)[k]]]]
=============================================================================
