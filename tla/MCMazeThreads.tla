--------------------------- MODULE MCMazeThreads ---------------------------
(***************************************************************************)
(* Small mazes for several players.                                        *)
(***************************************************************************)
EXTENDS MazeThreads

Wall == CHOOSE s \in Solid : TRUE

\* A solid border around a row of empty cells.
Room == [c \in Cell |-> IF c[1] \in 1 .. Rows - 2 /\ c[2] \in 1 .. Cols - 2
                        THEN EMPTY ELSE Wall]

\* The same with a way out of the array at one end of the row.
Open == [Room EXCEPT ![<<1, 0>>] = EMPTY]

\* One empty cell: full as soon as a player is in it.
Closet == [c \in Cell |-> IF c = <<1, 1>> THEN EMPTY ELSE Wall]

Mazes == {Room, Open, Closet}
OneCell == {Closet}
=============================================================================
