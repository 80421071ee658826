----------------------------- MODULE MazeViews -----------------------------
(***************************************************************************)
(* What maze_find_target and maze_get_view compute, in every maze of a     *)
(* given size: the two functions, and the four branches of each, agree     *)
(* with each other and with the definitions of src/include/maze.h.         *)
(***************************************************************************)
EXTENDS Maze

VARIABLE the_maze

(* Every maze of the given size with a solid border, one cell edited at a  *)
(* time: the environment of the functions above.                           *)

\* The cells from which maze_get_view stays inside the array on both sides:
\* where players are in a maze whose border is solid.
Inner == (1 .. Rows - 2) \X (1 .. Cols - 2)

Init == \E s \in Solid :
  the_maze = [c \in Cell |-> IF c \in Inner THEN EMPTY ELSE s]

\* An avatar is in one cell at most.
Put(c, o) ==
  /\ the_maze[c] # o
  /\ IS_AVATAR(o) => \A e \in Cell : the_maze[e] # o
  /\ the_maze' = [the_maze EXCEPT ![c] = o]

Next == \E c \in Inner, o \in OBJECT : Put(c, o)
Spec == Init /\ [][Next]_the_maze

\* If one avatar has another one in its line of fire then the other one has
\* it in the opposite line of fire: maze_find_target in two directions agrees.
FireIsSymmetric ==
  \A c \in Inner, d \in DIRECTION : IS_AVATAR(the_maze[c]) =>
    LET target == FindTarget(the_maze, c[1], c[2], d)
    IN  target # EMPTY =>
          \E k \in 1 .. Rows + Cols :
            LET e == Ahead(c, d, k)
            IN  /\ e \in Cell /\ the_maze[e] = target
                /\ FindTarget(the_maze, e[1], e[2], REVERSE(d)) = the_maze[c]

\* What a player sees is what a player hits: the first object in the corridor
\* of the view is the target of the laser if it is an avatar, and with no object
\* in sight a target, if there is one, stands beyond the depth of the view.
TargetIsInView ==
  \A c \in Inner, d \in DIRECTION, depth \in 1 .. VIEW_DEPTH :
    LET view == GetView(the_maze, c[1], c[2], d, depth)
        seen == {i \in DOMAIN view \ {0} : view[i][CORRIDOR] # EMPTY}
        target == FindTarget(the_maze, c[1], c[2], d)
    IN  /\ \A i \in seen : (\A j \in seen : i <= j) =>
             target = (IF IS_AVATAR(view[i][CORRIDOR]) THEN view[i][CORRIDOR]
                       ELSE EMPTY)
        /\ seen = {} /\ target # EMPTY =>
             \E k \in ViewEnd(c[1], c[2], d, depth) .. Rows + Cols :
               Ahead(c, d, k) \in Cell /\ the_maze[Ahead(c, d, k)] = target

\* The view is the patch of the maze in the direction of gaze: as deep as the
\* maze and the bounds allow, left and right as TURN_LEFT and TURN_RIGHT say.
ViewIsPatch ==
  \A c \in Inner, d \in DIRECTION, depth \in 1 .. VIEW_DEPTH + 1 :
    LET end == ViewEnd(c[1], c[2], d, depth)
        view == GetView(the_maze, c[1], c[2], d, depth)
        ahead(i) == Ahead(c, d, i)
    IN  /\ end <= VIEW_DEPTH /\ end <= depth
        /\ end < MinOf(depth, VIEW_DEPTH) => ahead(end) \notin Cell
        /\ \A i \in 0 .. end - 1 :
             view[i] = << the_maze[Ahead(ahead(i), TURN_LEFT(d), 1)],
                          the_maze[ahead(i)],
                          the_maze[Ahead(ahead(i), TURN_RIGHT(d), 1)] >>
=============================================================================
