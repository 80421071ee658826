--------------------------- MODULE MazeViewsProofs --------------------------
(***************************************************************************)
(* maze_find_target and maze_get_view agree, for any size of the maze, any *)
(* depth of a view and whatever stands in the maze: the invariants of      *)
(* module MazeViews are facts about the two functions, of which no step of *)
(* the environment is needed.  The four branches of each function are      *)
(* reduced to one by what lies Ahead.                                      *)
(***************************************************************************)
EXTENDS MazeViews, WellFoundedInduction, TLAPS

-----------------------------------------------------------------------------
(* Rays                                                                    *)

LEMMA LeastNat ==
  ASSUME NEW S \in SUBSET Nat, S # {}
  PROVE  \E m \in S : \A k \in S : m <= k
<1>1. PICK m \in S : \A k \in S : <<k, m>> \notin OpToRel(<, Nat)
  BY NatLessThanWellFounded, WFMin
<1>2. ASSUME NEW k \in S PROVE m <= k
  <2>1. k \in Nat /\ m \in Nat /\ <<k, m>> \in Nat \X Nat
    OBVIOUS
  <2>2. ~(k < m)
    BY <1>1, <2>1 DEF OpToRel
  <2>. QED
    BY <2>1, <2>2
<1>. QED
  BY <1>2

LEMMA AheadIs ==
  ASSUME NEW r \in Int, NEW q \in Int, NEW k \in Int
  PROVE  /\ Ahead(<<r, q>>, NORTH, k) = <<r - k, q>>
         /\ Ahead(<<r, q>>, WEST, k) = <<r, q - k>>
         /\ Ahead(<<r, q>>, SOUTH, k) = <<r + k, q>>
         /\ Ahead(<<r, q>>, EAST, k) = <<r, q + k>>
  BY DEF Ahead, Delta, DIRECTION, NORTH, WEST, SOUTH, EAST

LEMMA CellIs ==
  ASSUME NEW c \in Cell
  PROVE  /\ c = <<c[1], c[2]>>
         /\ c[1] \in Int /\ c[1] >= 0 /\ c[1] < Rows
         /\ c[2] \in Int /\ c[2] >= 0 /\ c[2] < Cols
  BY SizeAssumption DEF Cell

LEMMA InCell ==
  ASSUME NEW r \in Int, NEW q \in Int
  PROVE  <<r, q>> \in Cell <=> 0 <= r /\ r < Rows /\ 0 <= q /\ q < Cols
  BY SizeAssumption DEF Cell

\* The loop of each direction runs to the end of the maze in that direction.
LEMMA DistancesAre ==
  ASSUME NEW r, NEW q
  PROVE  /\ Distances(r, q, NORTH) = 1 .. r
         /\ Distances(r, q, WEST) = 1 .. q
         /\ Distances(r, q, SOUTH) = 1 .. Rows - 1 - r
         /\ Distances(r, q, EAST) = 1 .. Cols - 1 - q
  BY DEF Distances, NORTH, WEST, SOUTH, EAST

LEMMA ReachIs ==
  ASSUME NEW c \in Cell, NEW d \in DIRECTION
  PROVE  \E m \in Nat :
           /\ m <= Rows + Cols
           /\ Distances(c[1], c[2], d) = 1 .. m
           /\ \A k \in Nat : Ahead(c, d, k) \in Cell <=> k <= m
<1> USE SizeAssumption, CellIs
<1>1. CASE d = NORTH
  <2>1. Distances(c[1], c[2], d) = 1 .. c[1]
    BY <1>1, DistancesAre
  <2>2. ASSUME NEW k \in Nat PROVE Ahead(c, d, k) \in Cell <=> k <= c[1]
    <3>1. Ahead(c, d, k) = <<c[1] - k, c[2]>> /\ c[1] - k \in Int
      BY <1>1, AheadIs
    <3>. QED
      BY <3>1, InCell
  <2>3. c[1] \in Nat /\ c[1] <= Rows + Cols
    OBVIOUS
  <2>. QED
    BY <2>1, <2>2, <2>3
<1>2. CASE d = WEST
  <2>1. Distances(c[1], c[2], d) = 1 .. c[2]
    BY <1>2, DistancesAre
  <2>2. ASSUME NEW k \in Nat PROVE Ahead(c, d, k) \in Cell <=> k <= c[2]
    <3>1. Ahead(c, d, k) = <<c[1], c[2] - k>> /\ c[2] - k \in Int
      BY <1>2, AheadIs
    <3>. QED
      BY <3>1, InCell
  <2>3. c[2] \in Nat /\ c[2] <= Rows + Cols
    OBVIOUS
  <2>. QED
    BY <2>1, <2>2, <2>3
<1>3. CASE d = SOUTH
  <2> DEFINE m == Rows - 1 - c[1]
  <2>1. Distances(c[1], c[2], d) = 1 .. m
    BY <1>3, DistancesAre
  <2>2. ASSUME NEW k \in Nat PROVE Ahead(c, d, k) \in Cell <=> k <= m
    <3>1. Ahead(c, d, k) = <<c[1] + k, c[2]>> /\ c[1] + k \in Int
      BY <1>3, AheadIs
    <3>. QED
      BY <3>1, InCell
  <2>3. m \in Nat /\ m <= Rows + Cols
    OBVIOUS
  <2> HIDE DEF m
  <2>. QED
    BY <2>1, <2>2, <2>3
<1>4. CASE d = EAST
  <2> DEFINE m == Cols - 1 - c[2]
  <2>1. Distances(c[1], c[2], d) = 1 .. m
    BY <1>4, DistancesAre
  <2>2. ASSUME NEW k \in Nat PROVE Ahead(c, d, k) \in Cell <=> k <= m
    <3>1. Ahead(c, d, k) = <<c[1], c[2] + k>> /\ c[2] + k \in Int
      BY <1>4, AheadIs
    <3>. QED
      BY <3>1, InCell
  <2>3. m \in Nat /\ m <= Rows + Cols
    OBVIOUS
  <2> HIDE DEF m
  <2>. QED
    BY <2>1, <2>2, <2>3
<1>. QED
  BY <1>1, <1>2, <1>3, <1>4 DEF DIRECTION

\* Looking back along a ray.
LEMMA BackOnRay ==
  ASSUME NEW c \in Cell, NEW d \in DIRECTION, NEW k \in Nat, NEW j \in Nat
  PROVE  /\ REVERSE(d) \in DIRECTION
         /\ Ahead(c, d, 0) = c
         /\ Ahead(Ahead(c, d, k), REVERSE(d), j) = Ahead(c, d, k - j)
<1> USE CellIs
<1>1. k - j \in Int
  OBVIOUS
<1>2. CASE d = NORTH
  <2>1. REVERSE(d) = SOUTH
    BY <1>2 DEF REVERSE, NORTH, SOUTH
  <2>2. /\ Ahead(c, d, k) = <<c[1] - k, c[2]>> /\ c[1] - k \in Int
        /\ Ahead(c, d, k - j) = <<c[1] - (k - j), c[2]>>
        /\ Ahead(c, d, 0) = <<c[1] - 0, c[2]>>
    BY <1>1, <1>2, AheadIs
  <2>3. Ahead(<<c[1] - k, c[2]>>, SOUTH, j) = <<c[1] - k + j, c[2]>>
    BY <2>2, AheadIs
  <2>. QED
    BY <2>1, <2>2, <2>3 DEF DIRECTION
<1>3. CASE d = WEST
  <2>1. REVERSE(d) = EAST
    BY <1>3 DEF REVERSE, WEST, EAST
  <2>2. /\ Ahead(c, d, k) = <<c[1], c[2] - k>> /\ c[2] - k \in Int
        /\ Ahead(c, d, k - j) = <<c[1], c[2] - (k - j)>>
        /\ Ahead(c, d, 0) = <<c[1], c[2] - 0>>
    BY <1>1, <1>3, AheadIs
  <2>3. Ahead(<<c[1], c[2] - k>>, EAST, j) = <<c[1], c[2] - k + j>>
    BY <2>2, AheadIs
  <2>. QED
    BY <2>1, <2>2, <2>3 DEF DIRECTION
<1>4. CASE d = SOUTH
  <2>1. REVERSE(d) = NORTH
    BY <1>4 DEF REVERSE, SOUTH, NORTH
  <2>2. /\ Ahead(c, d, k) = <<c[1] + k, c[2]>> /\ c[1] + k \in Int
        /\ Ahead(c, d, k - j) = <<c[1] + (k - j), c[2]>>
        /\ Ahead(c, d, 0) = <<c[1] + 0, c[2]>>
    BY <1>1, <1>4, AheadIs
  <2>3. Ahead(<<c[1] + k, c[2]>>, NORTH, j) = <<c[1] + k - j, c[2]>>
    BY <2>2, AheadIs
  <2>. QED
    BY <2>1, <2>2, <2>3 DEF DIRECTION
<1>5. CASE d = EAST
  <2>1. REVERSE(d) = WEST
    BY <1>5 DEF REVERSE, EAST, WEST
  <2>2. /\ Ahead(c, d, k) = <<c[1], c[2] + k>> /\ c[2] + k \in Int
        /\ Ahead(c, d, k - j) = <<c[1], c[2] + (k - j)>>
        /\ Ahead(c, d, 0) = <<c[1], c[2] + 0>>
    BY <1>1, <1>5, AheadIs
  <2>3. Ahead(<<c[1], c[2] + k>>, WEST, j) = <<c[1], c[2] + k - j>>
    BY <2>2, AheadIs
  <2>. QED
    BY <2>1, <2>2, <2>3 DEF DIRECTION
<1>. QED
  BY <1>2, <1>3, <1>4, <1>5 DEF DIRECTION

-----------------------------------------------------------------------------
(* The laser                                                               *)

\* The cell k ahead of c is the first one that is not empty.
FirstAhead(c, d, k) ==
  /\ Ahead(c, d, k) \in Cell
  /\ the_maze[Ahead(c, d, k)] # EMPTY
  /\ \A j \in 1 .. k - 1 : the_maze[Ahead(c, d, j)] = EMPTY

\* What stands in the first cell that is not empty is what is found.
LEMMA TargetIsFirst ==
  ASSUME NEW c \in Cell, NEW d \in DIRECTION, NEW k \in Nat \ {0},
         FirstAhead(c, d, k)
  PROVE  FindTarget(the_maze, c[1], c[2], d) =
           IF IS_AVATAR(the_maze[Ahead(c, d, k)]) THEN the_maze[Ahead(c, d, k)]
           ELSE EMPTY
<1>1. PICK m \in Nat :
        /\ Distances(c[1], c[2], d) = 1 .. m
        /\ \A j \in Nat : Ahead(c, d, j) \in Cell <=> j <= m
  BY ReachIs
<1> DEFINE hit == {j \in Distances(c[1], c[2], d) : the_maze[Ahead(c, d, j)] # EMPTY}
           first == CHOOSE j \in hit : \A l \in hit : j <= l
<1>2. k \in hit /\ \A j \in hit : k <= j /\ j \in Nat
  BY <1>1 DEF FirstAhead
<1>3. first \in hit /\ \A l \in hit : first <= l
  BY <1>2
<1>4. first = k
  <2>1. first \in Nat /\ k <= first /\ first <= k
    BY <1>2, <1>3
  <2> HIDE DEF first
  <2>. QED
    BY <2>1
<1>5. c = <<c[1], c[2]>>
  BY CellIs
<1>. QED
  BY <1>2, <1>4, <1>5 DEF FindTarget

\* If something is found, it is an avatar, and the first thing on the ray.
LEMMA FoundAhead ==
  ASSUME NEW c \in Cell, NEW d \in DIRECTION,
         FindTarget(the_maze, c[1], c[2], d) # EMPTY
  PROVE  \E k \in 1 .. Rows + Cols :
           /\ FirstAhead(c, d, k)
           /\ the_maze[Ahead(c, d, k)] = FindTarget(the_maze, c[1], c[2], d)
<1> USE SizeAssumption
<1>1. PICK m \in Nat :
        /\ m <= Rows + Cols
        /\ Distances(c[1], c[2], d) = 1 .. m
        /\ \A j \in Nat : Ahead(c, d, j) \in Cell <=> j <= m
  BY ReachIs
<1>2. c = <<c[1], c[2]>>
  BY CellIs
<1> DEFINE hit == {j \in Distances(c[1], c[2], d) : the_maze[Ahead(c, d, j)] # EMPTY}
<1>3. hit # {}
  BY <1>2 DEF FindTarget
<1>4. PICK k \in hit : \A l \in hit : k <= l
  <2>1. hit \in SUBSET Nat
    BY <1>1
  <2> HIDE DEF hit
  <2>. QED
    BY <1>3, <2>1, LeastNat
<1>5. k \in 1 .. m /\ FirstAhead(c, d, k)
  BY <1>1, <1>4 DEF FirstAhead
<1>6. the_maze[Ahead(c, d, k)] = FindTarget(the_maze, c[1], c[2], d)
  BY <1>5, TargetIsFirst
<1>. QED
  BY <1>1, <1>5, <1>6

LEMMA FireBack ==
  ASSUME NEW c \in Cell, NEW d \in DIRECTION, IS_AVATAR(the_maze[c]),
         NEW k \in Nat \ {0}, FirstAhead(c, d, k)
  PROVE  FindTarget(the_maze, Ahead(c, d, k)[1], Ahead(c, d, k)[2], REVERSE(d))
           = the_maze[c]
<1> DEFINE e == Ahead(c, d, k)
<1>1. e \in Cell /\ REVERSE(d) \in DIRECTION /\ Ahead(e, REVERSE(d), k) = c
  <2>1. Ahead(e, REVERSE(d), k) = Ahead(c, d, k - k) /\ k - k = 0
    BY BackOnRay
  <2>. QED
    BY <2>1, BackOnRay DEF FirstAhead
<1>2. \A j \in 1 .. k - 1 : the_maze[Ahead(e, REVERSE(d), j)] = EMPTY
  <2>1. \A j \in 1 .. k - 1 : Ahead(e, REVERSE(d), j) = Ahead(c, d, k - j)
    BY BackOnRay
  <2>2. \A j \in 1 .. k - 1 : k - j \in 1 .. k - 1
    OBVIOUS
  <2>. QED
    BY <2>1, <2>2 DEF FirstAhead
<1>3. the_maze[c] # EMPTY
  BY ObjectAssumption DEF IS_AVATAR
<1> HIDE DEF e
<1>4. FirstAhead(e, REVERSE(d), k)
  BY <1>1, <1>2, <1>3 DEF FirstAhead
<1>5. FindTarget(the_maze, e[1], e[2], REVERSE(d)) = the_maze[c]
  BY <1>1, <1>4, TargetIsFirst
<1>. QED
  BY <1>5 DEF e

\* If an avatar hits another one, the other one hits it when it fires back:
\* maze_find_target's loops for opposite directions agree.
THEOREM FireGoesBothWays == Spec => []FireIsSymmetric
<1>1. FireIsSymmetric
  <2> SUFFICES ASSUME NEW c \in Inner, NEW d \in DIRECTION, IS_AVATAR(the_maze[c]),
                      FindTarget(the_maze, c[1], c[2], d) # EMPTY
               PROVE  \E k \in 1 .. Rows + Cols :
                        /\ Ahead(c, d, k) \in Cell
                        /\ the_maze[Ahead(c, d, k)] = FindTarget(the_maze, c[1], c[2], d)
                        /\ FindTarget(the_maze, Ahead(c, d, k)[1], Ahead(c, d, k)[2],
                                      REVERSE(d)) = the_maze[c]
    BY DEF FireIsSymmetric
  <2>1. c \in Cell
    BY SizeAssumption DEF Inner, Cell
  <2>2. PICK k \in 1 .. Rows + Cols :
          /\ FirstAhead(c, d, k)
          /\ the_maze[Ahead(c, d, k)] = FindTarget(the_maze, c[1], c[2], d)
    BY <2>1, FoundAhead
  <2>. QED
    BY <2>1, <2>2, FireBack DEF FirstAhead
<1>. QED
  BY <1>1, PTL

-----------------------------------------------------------------------------
(* The view                                                                *)

LEMMA ViewEndBranches ==
  ASSUME NEW r, NEW q, NEW depth
  PROVE  LET m == MinOf(depth, VIEW_DEPTH)
         IN  /\ ViewEnd(r, q, NORTH, depth) = IF r - m < 0 THEN r + 1 ELSE m
             /\ ViewEnd(r, q, WEST, depth) = IF q - m < 0 THEN q + 1 ELSE m
             /\ ViewEnd(r, q, SOUTH, depth) = IF r + m > Rows THEN Rows - r ELSE m
             /\ ViewEnd(r, q, EAST, depth) = IF q + m > Cols THEN Cols - q ELSE m
  BY DEF ViewEnd, NORTH, WEST, SOUTH, EAST

\* The view ends where the bound says or where the maze ends.
LEMMA ViewEndIs ==
  ASSUME NEW c \in Cell, NEW d \in DIRECTION, NEW depth \in Nat
  PROVE  \E b \in Nat :
           /\ ViewEnd(c[1], c[2], d, depth) = MinOf(MinOf(depth, VIEW_DEPTH), b)
           /\ \A k \in Nat : Ahead(c, d, k) \in Cell <=> k < b
<1> DEFINE m == MinOf(depth, VIEW_DEPTH)
<1> USE SizeAssumption, CellIs
<1>0. m \in Nat
  BY DepthAssumption DEF MinOf
<1> HIDE DEF m
<1>1. CASE d = NORTH
  <2> DEFINE b == c[1] + 1
  <2>1. ViewEnd(c[1], c[2], d, depth) = IF c[1] - m < 0 THEN b ELSE m
    BY <1>1, ViewEndBranches DEF m
  <2>2. ASSUME NEW k \in Nat PROVE Ahead(c, d, k) \in Cell <=> k < b
    <3>1. Ahead(c, d, k) = <<c[1] - k, c[2]>> /\ c[1] - k \in Int
      BY <1>1, AheadIs
    <3>. QED
      BY <3>1, InCell
  <2>3. b \in Nat /\ (IF c[1] - m < 0 THEN b ELSE m) = MinOf(m, b)
    BY <1>0 DEF MinOf
  <2> HIDE DEF b
  <2>. QED
    BY <2>1, <2>2, <2>3 DEF m
<1>2. CASE d = WEST
  <2> DEFINE b == c[2] + 1
  <2>1. ViewEnd(c[1], c[2], d, depth) = IF c[2] - m < 0 THEN b ELSE m
    BY <1>2, ViewEndBranches DEF m
  <2>2. ASSUME NEW k \in Nat PROVE Ahead(c, d, k) \in Cell <=> k < b
    <3>1. Ahead(c, d, k) = <<c[1], c[2] - k>> /\ c[2] - k \in Int
      BY <1>2, AheadIs
    <3>. QED
      BY <3>1, InCell
  <2>3. b \in Nat /\ (IF c[2] - m < 0 THEN b ELSE m) = MinOf(m, b)
    BY <1>0 DEF MinOf
  <2> HIDE DEF b
  <2>. QED
    BY <2>1, <2>2, <2>3 DEF m
<1>3. CASE d = SOUTH
  <2> DEFINE b == Rows - c[1]
  <2>1. ViewEnd(c[1], c[2], d, depth) = IF c[1] + m > Rows THEN b ELSE m
    BY <1>3, ViewEndBranches DEF m
  <2>2. ASSUME NEW k \in Nat PROVE Ahead(c, d, k) \in Cell <=> k < b
    <3>1. Ahead(c, d, k) = <<c[1] + k, c[2]>> /\ c[1] + k \in Int
      BY <1>3, AheadIs
    <3>. QED
      BY <3>1, InCell
  <2>3. b \in Nat /\ (IF c[1] + m > Rows THEN b ELSE m) = MinOf(m, b)
    BY <1>0 DEF MinOf
  <2> HIDE DEF b
  <2>. QED
    BY <2>1, <2>2, <2>3 DEF m
<1>4. CASE d = EAST
  <2> DEFINE b == Cols - c[2]
  <2>1. ViewEnd(c[1], c[2], d, depth) = IF c[2] + m > Cols THEN b ELSE m
    BY <1>4, ViewEndBranches DEF m
  <2>2. ASSUME NEW k \in Nat PROVE Ahead(c, d, k) \in Cell <=> k < b
    <3>1. Ahead(c, d, k) = <<c[1], c[2] + k>> /\ c[2] + k \in Int
      BY <1>4, AheadIs
    <3>. QED
      BY <3>1, InCell
  <2>3. b \in Nat /\ (IF c[2] + m > Cols THEN b ELSE m) = MinOf(m, b)
    BY <1>0 DEF MinOf
  <2> HIDE DEF b
  <2>. QED
    BY <2>1, <2>2, <2>3 DEF m
<1>. QED
  BY <1>1, <1>2, <1>3, <1>4 DEF DIRECTION

LEMMA Turns ==
  /\ TURN_LEFT(NORTH) = WEST /\ TURN_RIGHT(NORTH) = EAST
  /\ TURN_LEFT(WEST) = SOUTH /\ TURN_RIGHT(WEST) = NORTH
  /\ TURN_LEFT(SOUTH) = EAST /\ TURN_RIGHT(SOUTH) = WEST
  /\ TURN_LEFT(EAST) = NORTH /\ TURN_RIGHT(EAST) = SOUTH
  BY DEF TURN_LEFT, TURN_RIGHT, NORTH, WEST, SOUTH, EAST

LEMMA ViewCellsBranches ==
  ASSUME NEW r, NEW q, NEW i
  PROVE  /\ ViewCells(r, q, NORTH, i) = <<<<r - i, q - 1>>, <<r - i, q>>, <<r - i, q + 1>>>>
         /\ ViewCells(r, q, WEST, i) = <<<<r + 1, q - i>>, <<r, q - i>>, <<r - 1, q - i>>>>
         /\ ViewCells(r, q, SOUTH, i) = <<<<r + i, q + 1>>, <<r + i, q>>, <<r + i, q - 1>>>>
         /\ ViewCells(r, q, EAST, i) = <<<<r - 1, q + i>>, <<r, q + i>>, <<r + 1, q + i>>>>
  BY DEF ViewCells, NORTH, WEST, SOUTH, EAST

LEMMA OneAhead ==
  ASSUME NEW r \in Int, NEW q \in Int
  PROVE  /\ Ahead(<<r, q>>, NORTH, 1) = <<r - 1, q>>
         /\ Ahead(<<r, q>>, WEST, 1) = <<r, q - 1>>
         /\ Ahead(<<r, q>>, SOUTH, 1) = <<r + 1, q>>
         /\ Ahead(<<r, q>>, EAST, 1) = <<r, q + 1>>
  BY DEF Ahead, Delta, DIRECTION, NORTH, WEST, SOUTH, EAST

\* The three cells of a row of the view, by the directions of maze.h.
LEMMA ViewCellsAre ==
  ASSUME NEW c \in Cell, NEW d \in DIRECTION, NEW i \in Nat
  PROVE  ViewCells(c[1], c[2], d, i) =
           << Ahead(Ahead(c, d, i), TURN_LEFT(d), 1), Ahead(c, d, i),
              Ahead(Ahead(c, d, i), TURN_RIGHT(d), 1) >>
<1> USE CellIs
<1>1. CASE d = NORTH
  <2>1. Ahead(c, d, i) = <<c[1] - i, c[2]>> /\ c[1] - i \in Int
    BY <1>1, AheadIs
  <2>2. /\ Ahead(<<c[1] - i, c[2]>>, WEST, 1) = <<c[1] - i, c[2] - 1>>
        /\ Ahead(<<c[1] - i, c[2]>>, EAST, 1) = <<c[1] - i, c[2] + 1>>
    BY <2>1, OneAhead
  <2>. QED
    BY <1>1, <2>1, <2>2, Turns, ViewCellsBranches
<1>2. CASE d = WEST
  <2>1. Ahead(c, d, i) = <<c[1], c[2] - i>> /\ c[2] - i \in Int
    BY <1>2, AheadIs
  <2>2. /\ Ahead(<<c[1], c[2] - i>>, SOUTH, 1) = <<c[1] + 1, c[2] - i>>
        /\ Ahead(<<c[1], c[2] - i>>, NORTH, 1) = <<c[1] - 1, c[2] - i>>
    BY <2>1, OneAhead
  <2>. QED
    BY <1>2, <2>1, <2>2, Turns, ViewCellsBranches
<1>3. CASE d = SOUTH
  <2>1. Ahead(c, d, i) = <<c[1] + i, c[2]>> /\ c[1] + i \in Int
    BY <1>3, AheadIs
  <2>2. /\ Ahead(<<c[1] + i, c[2]>>, EAST, 1) = <<c[1] + i, c[2] + 1>>
        /\ Ahead(<<c[1] + i, c[2]>>, WEST, 1) = <<c[1] + i, c[2] - 1>>
    BY <2>1, OneAhead
  <2>. QED
    BY <1>3, <2>1, <2>2, Turns, ViewCellsBranches
<1>4. CASE d = EAST
  <2>1. Ahead(c, d, i) = <<c[1], c[2] + i>> /\ c[2] + i \in Int
    BY <1>4, AheadIs
  <2>2. /\ Ahead(<<c[1], c[2] + i>>, NORTH, 1) = <<c[1] - 1, c[2] + i>>
        /\ Ahead(<<c[1], c[2] + i>>, SOUTH, 1) = <<c[1] + 1, c[2] + i>>
    BY <2>1, OneAhead
  <2>. QED
    BY <1>4, <2>1, <2>2, Turns, ViewCellsBranches
<1>. QED
  BY <1>1, <1>2, <1>3, <1>4 DEF DIRECTION

LEMMA ViewIs ==
  ASSUME NEW c \in Cell, NEW d \in DIRECTION, NEW depth \in Nat,
         NEW i \in 0 .. ViewEnd(c[1], c[2], d, depth) - 1
  PROVE  GetView(the_maze, c[1], c[2], d, depth)[i] =
           << the_maze[Ahead(Ahead(c, d, i), TURN_LEFT(d), 1)], the_maze[Ahead(c, d, i)],
              the_maze[Ahead(Ahead(c, d, i), TURN_RIGHT(d), 1)] >>
<1>1. i \in Nat
  BY ViewEndIs, DepthAssumption DEF MinOf
<1> DEFINE cells == ViewCells(c[1], c[2], d, i)
<1>2. GetView(the_maze, c[1], c[2], d, depth)[i] = [k \in 1 .. 3 |-> the_maze[cells[k]]]
  BY DEF GetView, LEFT_WALL, RIGHT_WALL
<1>3. cells = << Ahead(Ahead(c, d, i), TURN_LEFT(d), 1), Ahead(c, d, i),
                 Ahead(Ahead(c, d, i), TURN_RIGHT(d), 1) >>
  BY <1>1, ViewCellsAre
<1> HIDE DEF cells
<1>4. [k \in 1 .. 3 |-> the_maze[cells[k]]] =
        << the_maze[cells[1]], the_maze[cells[2]], the_maze[cells[3]] >>
  OBVIOUS
<1>. QED
  BY <1>2, <1>3, <1>4

\* What is first in the corridor of a view is what the laser hits if it is an
\* avatar, and what it hits when the corridor is empty is further away than the
\* view is deep: maze_get_view and maze_find_target agree about what lies ahead.
THEOREM TargetSeenIsTargetHit == Spec => []TargetIsInView
<1>1. TargetIsInView
  <2> SUFFICES ASSUME NEW c \in Inner, NEW d \in DIRECTION, NEW depth \in 1 .. VIEW_DEPTH
               PROVE  LET view == GetView(the_maze, c[1], c[2], d, depth)
                          seen == {j \in DOMAIN view \ {0} : view[j][CORRIDOR] # EMPTY}
                          target == FindTarget(the_maze, c[1], c[2], d)
                      IN  /\ \A i \in seen : (\A j \in seen : i <= j) =>
                               target = (IF IS_AVATAR(view[i][CORRIDOR])
                                         THEN view[i][CORRIDOR] ELSE EMPTY)
                          /\ seen = {} /\ target # EMPTY =>
                               \E k \in ViewEnd(c[1], c[2], d, depth) .. Rows + Cols :
                                 /\ Ahead(c, d, k) \in Cell
                                 /\ the_maze[Ahead(c, d, k)] = target
    BY DEF TargetIsInView
  <2> DEFINE end == ViewEnd(c[1], c[2], d, depth)
             view == GetView(the_maze, c[1], c[2], d, depth)
             seen == {j \in DOMAIN view \ {0} : view[j][CORRIDOR] # EMPTY}
  <2>1. c \in Cell /\ depth \in Nat
    BY SizeAssumption, DepthAssumption DEF Inner, Cell
  <2>2. PICK b \in Nat : /\ end = MinOf(MinOf(depth, VIEW_DEPTH), b)
                         /\ \A k \in Nat : Ahead(c, d, k) \in Cell <=> k < b
    BY <2>1, ViewEndIs
  <2>3. end \in Nat /\ end <= b
    BY <2>1, <2>2, DepthAssumption DEF MinOf
  <2>4. DOMAIN view = 0 .. end - 1
    BY DEF GetView
  <2>5. \A i \in 0 .. end - 1 : view[i][CORRIDOR] = the_maze[Ahead(c, d, i)]
    <3> SUFFICES ASSUME NEW i \in 0 .. end - 1
                 PROVE  view[i][CORRIDOR] = the_maze[Ahead(c, d, i)]
      OBVIOUS
    <3>1. view[i] =
            << the_maze[Ahead(Ahead(c, d, i), TURN_LEFT(d), 1)], the_maze[Ahead(c, d, i)],
               the_maze[Ahead(Ahead(c, d, i), TURN_RIGHT(d), 1)] >>
      BY <2>1, ViewIs
    <3> HIDE DEF view
    <3>. QED
      BY <3>1 DEF CORRIDOR
  <2> DEFINE target == FindTarget(the_maze, c[1], c[2], d)
  <2> HIDE DEF end, view, target
  <2>6. ASSUME NEW i \in seen, \A j \in seen : i <= j
        PROVE  target = (IF IS_AVATAR(view[i][CORRIDOR]) THEN view[i][CORRIDOR]
                         ELSE EMPTY)
    <3>1. i \in Nat \ {0} /\ i < end
      BY <2>3, <2>4
    <3>2. FirstAhead(c, d, i)
      <4>1. Ahead(c, d, i) \in Cell
        BY <2>2, <2>3, <3>1
      <4>2. the_maze[Ahead(c, d, i)] # EMPTY
        BY <2>4, <2>5
      <4>3. ASSUME NEW j \in 1 .. i - 1 PROVE the_maze[Ahead(c, d, j)] = EMPTY
        <5>1. j \in DOMAIN view \ {0} /\ j < i /\ j \in 0 .. end - 1
          BY <2>3, <2>4, <3>1
        <5>2. j \notin seen
          BY <2>6, <3>1, <5>1
        <5>. QED
          BY <2>5, <5>1, <5>2
      <4>. QED
        BY <4>1, <4>2, <4>3 DEF FirstAhead
    <3>. QED
      BY <2>1, <2>4, <2>5, <3>1, <3>2, TargetIsFirst DEF target
  <2>7. ASSUME seen = {}, target # EMPTY
        PROVE  \E k \in end .. Rows + Cols :
                 Ahead(c, d, k) \in Cell /\ the_maze[Ahead(c, d, k)] = target
    <3>1. PICK k \in 1 .. Rows + Cols :
            FirstAhead(c, d, k) /\ the_maze[Ahead(c, d, k)] = target
      BY <2>1, <2>7, FoundAhead DEF target
    <3>2. Ahead(c, d, k) \in Cell /\ the_maze[Ahead(c, d, k)] # EMPTY
      BY <3>1 DEF FirstAhead
    <3>3. ~(k < end)
      <4> SUFFICES ASSUME k < end PROVE FALSE
        OBVIOUS
      <4>1. k \in DOMAIN view \ {0} /\ k \in 0 .. end - 1
        BY <2>3, <2>4
      <4>. QED
        BY <2>5, <2>7, <3>2, <4>1
    <3>. QED
      BY <2>3, <3>1, <3>2, <3>3, SizeAssumption
  <2>. QED
    BY <2>6, <2>7 DEF end, view, target
<1>. QED
  BY <1>1, PTL

\* The view is the patch of the maze ahead of the player, no deeper than asked
\* for, ending early only at the edge of the maze, left and right as turning
\* says: the four branches of maze_get_view are one, turned.
THEOREM ViewIsThePatch == Spec => []ViewIsPatch
<1>1. ViewIsPatch
  <2> SUFFICES ASSUME NEW c \in Inner, NEW d \in DIRECTION, NEW depth \in 1 .. VIEW_DEPTH + 1
               PROVE  LET end == ViewEnd(c[1], c[2], d, depth)
                          view == GetView(the_maze, c[1], c[2], d, depth)
                      IN  /\ end <= VIEW_DEPTH /\ end <= depth
                          /\ end < MinOf(depth, VIEW_DEPTH) => Ahead(c, d, end) \notin Cell
                          /\ \A i \in 0 .. end - 1 :
                               view[i] = << the_maze[Ahead(Ahead(c, d, i), TURN_LEFT(d), 1)],
                                            the_maze[Ahead(c, d, i)],
                                            the_maze[Ahead(Ahead(c, d, i), TURN_RIGHT(d), 1)] >>
    BY DEF ViewIsPatch
  <2> DEFINE end == ViewEnd(c[1], c[2], d, depth)
             view == GetView(the_maze, c[1], c[2], d, depth)
  <2>1. c \in Cell /\ depth \in Nat
    BY SizeAssumption, DepthAssumption DEF Inner, Cell
  <2>2. PICK b \in Nat : /\ end = MinOf(MinOf(depth, VIEW_DEPTH), b)
                         /\ \A k \in Nat : Ahead(c, d, k) \in Cell <=> k < b
    BY <2>1, ViewEndIs
  <2>3. \A i \in 0 .. end - 1 :
          view[i] = << the_maze[Ahead(Ahead(c, d, i), TURN_LEFT(d), 1)],
                       the_maze[Ahead(c, d, i)],
                       the_maze[Ahead(Ahead(c, d, i), TURN_RIGHT(d), 1)] >>
    BY <2>1, ViewIs
  <2> HIDE DEF end, view
  <2>4. /\ end \in Nat /\ end <= VIEW_DEPTH /\ end <= depth
        /\ end < MinOf(depth, VIEW_DEPTH) => ~(end < b)
    BY <2>1, <2>2, DepthAssumption DEF MinOf
  <2>5. end < MinOf(depth, VIEW_DEPTH) => Ahead(c, d, end) \notin Cell
    BY <2>2, <2>4
  <2>. QED
    BY <2>3, <2>4, <2>5 DEF end, view
<1>. QED
  BY <1>1, PTL
=============================================================================
