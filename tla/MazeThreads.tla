---------------------------- MODULE MazeThreads ----------------------------
(***************************************************************************)
(* The maze with several callers (src/src/maze.c): every service thread    *)
(* places, moves, removes and fires for its own player, one shared access  *)
(* per step.  maze_remove_player and maze_find_target hold the semaphore;  *)
(* maze_set_player and maze_move do not, so that the two threads that find *)
(* the same cell empty both write to it.                                   *)
(*                                                                         *)
(* The caller is the player module, which is not part of src/.  It keeps   *)
(* the location of a player and calls one operation at a time for it (the  *)
(* player's own lock); it updates the location before it calls maze_move   *)
(* and takes it back when the move fails (src/include/player.h:189-193).   *)
(* An access outside the array sets fault and ends the behaviour.          *)
(***************************************************************************)
EXTENDS Maze

CONSTANT Templates   \* the mazes that maze_init may be given

ASSUME TemplateAssumption == Templates \subseteq [Cell -> Solid \cup {EMPTY}]

VARIABLES
  the_maze,
  mutex,          \* the semaphore of maze.c
  pc,             \* each avatar's thread: the next access of its operation
  placed, loc,    \* the player module: placed, row and col
  here, there,    \* the cells an operation works on
  object,         \* the value a thread has read from the_maze
  fault,          \* an access outside of the array
  template,       \* the maze that maze_init has copied
  overlap         \* FALSE: an operation starts when no other one runs

scenario == <<template, overlap>>
vars == <<the_maze, mutex, pc, placed, loc, here, there, object, fault, scenario>>
locals == <<here, there, object>>

SetPC == {"set_try", "set_write"}
MovePC == {"move_test", "move_dest", "move_read", "move_write", "move_clear"}
RemovePC == {"remove_P", "remove_clear", "remove_V"}
FindPC == {"find_P", "find_scan", "find_test", "find_V", "find_reread"}
LockedPC == {"remove_clear", "remove_V", "find_scan", "find_test", "find_V"}

\* The cells and those one step outside of the array.
Near == (-1 .. Rows) \X (-1 .. Cols)

TypeOK ==
  /\ the_maze \in [Cell -> OBJECT]
  /\ mutex \in {0, 1}
  /\ pc \in [Avatar -> {"none"} \cup SetPC \cup MovePC \cup RemovePC \cup FindPC]
  /\ placed \in [Avatar -> BOOLEAN]
  /\ loc \in [Avatar -> Near]
  /\ here \in [Avatar -> Cell]
  /\ there \in [Avatar -> Near]
  /\ object \in [Avatar -> OBJECT]
  /\ fault \in BOOLEAN
  /\ template \in Templates /\ overlap \in BOOLEAN

\* maze_init: EMPTY cells and solid objects are copied, no player is placed.
Init ==
  /\ template \in Templates
  /\ the_maze = template
  /\ mutex = 1
  /\ pc = [a \in Avatar |-> "none"]
  /\ placed = [a \in Avatar |-> FALSE]
  /\ loc = [a \in Avatar |-> <<0, 0>>]
  /\ here = [a \in Avatar |-> <<0, 0>>]
  /\ there = [a \in Avatar |-> <<0, 0>>]
  /\ object = [a \in Avatar |-> EMPTY]
  /\ fault = FALSE
  /\ overlap \in BOOLEAN

Goto(a, from, to) == /\ ~fault /\ pc[a] = from
                     /\ pc' = [pc EXCEPT ![a] = to]
                     /\ UNCHANGED scenario
Write(c, o) == the_maze' = [the_maze EXCEPT ![c] = o]
Origin == <<0, 0>>

\* A location that is no longer of use is set to the origin.
Forget(a) == /\ here' = [here EXCEPT ![a] = Origin]
             /\ there' = [there EXCEPT ![a] = Origin]
             /\ object' = [object EXCEPT ![a] = EMPTY]

\* Mutants: the P() is missing; the V() is missing.
PForgotten == mutex' = mutex
VForgotten == mutex' = mutex

P == mutex > 0 /\ mutex' = mutex - 1
V == mutex' = mutex + 1

MayStart == overlap \/ \A b \in Avatar : pc[b] = "none"

-----------------------------------------------------------------------------
(* maze_set_player_random, from player_reset                               *)

SetStart(a) ==
  /\ MayStart /\ ~placed[a]
  /\ Goto(a, "none", "set_try")
  /\ UNCHANGED <<the_maze, mutex, placed, loc, locals, fault>>

\* One turn of the loop, which chooses x and y (here) and has no other way out
\* than an empty cell: its counter is never incremented.
SetTry(a) ==
  \E c \in Cell :
    /\ here' = [here EXCEPT ![a] = c]
    /\ \/ the_maze[c] = EMPTY /\ Goto(a, "set_try", "set_write")
       \/ the_maze[c] # EMPTY /\ Goto(a, "set_try", "set_try")
    /\ UNCHANGED <<the_maze, mutex, placed, loc, there, object, fault>>

SetWrite(a) ==
  /\ Goto(a, "set_write", "none")
  /\ Write(here[a], a)
  /\ placed' = [placed EXCEPT ![a] = TRUE]
  /\ loc' = [loc EXCEPT ![a] = here[a]]
  /\ Forget(a)
  /\ UNCHANGED <<mutex, fault>>

-----------------------------------------------------------------------------
(* maze_move, from player_move                                             *)

MoveStart(a) ==
  /\ MayStart /\ placed[a]
  /\ \E d \in DIRECTION :
        /\ here' = [here EXCEPT ![a] = loc[a]]
        /\ there' = [there EXCEPT ![a] = Ahead(loc[a], d, 1)]
  /\ loc' = [loc EXCEPT ![a] = there'[a]]
  /\ Goto(a, "none", "move_test")
  /\ UNCHANGED <<the_maze, mutex, placed, object, fault>>

\* maze_move fails and the player's location is taken back.
TakeBack(a) == loc' = [loc EXCEPT ![a] = here[a]] /\ Forget(a)

MoveTest(a) ==
  /\ \/ the_maze[here[a]] # EMPTY /\ Goto(a, "move_test", "move_dest")
        /\ UNCHANGED <<loc, locals>>
     \/ the_maze[here[a]] = EMPTY /\ Goto(a, "move_test", "none")
        /\ TakeBack(a)
  /\ UNCHANGED <<the_maze, mutex, placed, fault>>

\* Mutant: the destination is not tested.
FreeForAll(c) == TRUE

IsFree(c) == the_maze[c] = EMPTY

MoveDest(a) ==
  /\ there[a] \in Cell
  /\ \/ IsFree(there[a]) /\ Goto(a, "move_dest", "move_read")
        /\ UNCHANGED <<loc, locals>>
     \/ ~IsFree(there[a]) /\ Goto(a, "move_dest", "none")
        /\ TakeBack(a)
  /\ UNCHANGED <<the_maze, mutex, placed, fault>>

\* There is no test of the bounds.
MoveOutside(a) ==
  /\ Goto(a, "move_dest", "move_dest")
  /\ there[a] \notin Cell
  /\ fault' = TRUE
  /\ UNCHANGED <<the_maze, mutex, placed, loc, locals>>

MoveRead(a) ==
  /\ Goto(a, "move_read", "move_write")
  /\ object' = [object EXCEPT ![a] = the_maze[here[a]]]
  /\ UNCHANGED <<the_maze, mutex, placed, loc, here, there, fault>>

MoveWrite(a) ==
  /\ Goto(a, "move_write", "move_clear")
  /\ Write(there[a], object[a])
  /\ UNCHANGED <<mutex, placed, loc, locals, fault>>

\* Mutant: the avatar stays where it was as well.
MoveLeavesNothing(a) == UNCHANGED the_maze

MoveLeaves(a) == Write(here[a], EMPTY)

\* The old cell is cleared.
MoveClear(a) ==
  /\ Goto(a, "move_clear", "none")
  /\ MoveLeaves(a)
  /\ Forget(a)
  /\ UNCHANGED <<mutex, placed, loc, fault>>

-----------------------------------------------------------------------------
(* maze_remove_player, from player_reset, player_logout and a laser hit    *)

RemoveStart(a) ==
  /\ MayStart /\ placed[a]
  /\ Goto(a, "none", "remove_P")
  /\ UNCHANGED <<the_maze, mutex, placed, loc, locals, fault>>

RemoveP(a) ==
  /\ Goto(a, "remove_P", "remove_clear")
  /\ P
  /\ UNCHANGED <<the_maze, placed, loc, locals, fault>>

\* Mutant: the avatar stays.
RemoveErasesNothing(a) == UNCHANGED the_maze

RemoveErases(a) == Write(loc[a], EMPTY)

\* Whatever object is in the cell is removed; the avatar is not looked at.
RemoveClear(a) ==
  /\ Goto(a, "remove_clear", "remove_V")
  /\ RemoveErases(a)
  /\ UNCHANGED <<mutex, placed, loc, locals, fault>>

RemoveV(a) ==
  /\ Goto(a, "remove_V", "none")
  /\ V
  /\ placed' = [placed EXCEPT ![a] = FALSE]
  /\ loc' = [loc EXCEPT ![a] = Origin]
  /\ UNCHANGED <<the_maze, locals, fault>>

-----------------------------------------------------------------------------
(* maze_find_target, from player_fire_laser                                *)

\* here is the cell next to be read, there minus here the direction.
FindStart(a) ==
  /\ MayStart /\ placed[a]
  /\ \E d \in DIRECTION :
        /\ here' = [here EXCEPT ![a] = loc[a]]
        /\ there' = [there EXCEPT ![a] = Ahead(loc[a], d, 1)]
  /\ Goto(a, "none", "find_P")
  /\ UNCHANGED <<the_maze, mutex, placed, loc, object, fault>>

FindP(a) ==
  /\ Goto(a, "find_P", "find_scan")
  /\ P
  /\ UNCHANGED <<the_maze, placed, loc, locals, fault>>

Further(from, to) == <<2 * to[1] - from[1], 2 * to[2] - from[2]>>

\* One turn of the loop: the border, an empty cell or the end of the search.
FindScan(a) ==
  /\ \/ there[a] \notin Cell /\ Goto(a, "find_scan", "find_V")
        /\ UNCHANGED <<here, there>>
     \/ there[a] \in Cell /\ the_maze[there[a]] = EMPTY
        /\ Goto(a, "find_scan", "find_scan")
        /\ here' = [here EXCEPT ![a] = there[a]]
        /\ there' = [there EXCEPT ![a] = Further(here[a], there[a])]
     \/ there[a] \in Cell /\ the_maze[there[a]] # EMPTY
        /\ Goto(a, "find_scan", "find_test")
        /\ UNCHANGED <<here, there>>
  /\ UNCHANGED <<the_maze, mutex, placed, loc, object, fault>>

\* Mutant: everything that stands in the way is a target.
AnyTarget(o) == TRUE

Target(o) == IS_AVATAR(o)

\* IS_AVATAR reads the cell again; object is what says that it was one.
FindTest(a) ==
  /\ Goto(a, "find_test", "find_V")
  /\ object' = [object EXCEPT ![a] =
                  IF Target(the_maze[there[a]]) THEN the_maze[there[a]] ELSE EMPTY]
  /\ UNCHANGED <<the_maze, mutex, placed, loc, here, there, fault>>

FindV(a) ==
  /\ \/ object[a] # EMPTY /\ Goto(a, "find_V", "find_reread")
        /\ UNCHANGED locals
     \/ object[a] = EMPTY /\ Goto(a, "find_V", "none")
        /\ Forget(a)
  /\ V
  /\ UNCHANGED <<the_maze, placed, loc, fault>>

\* The value returned is read once more, after V().
Returned(a) == the_maze[there[a]]

FindReread(a) ==
  /\ Goto(a, "find_reread", "none")
  /\ Forget(a)
  /\ UNCHANGED <<the_maze, mutex, placed, loc, fault>>

-----------------------------------------------------------------------------
Set(a) == SetStart(a) \/ SetTry(a) \/ SetWrite(a)
Move(a) == \/ MoveStart(a) \/ MoveTest(a) \/ MoveDest(a) \/ MoveOutside(a)
           \/ MoveRead(a) \/ MoveWrite(a) \/ MoveClear(a)
Remove(a) == RemoveStart(a) \/ RemoveP(a) \/ RemoveClear(a) \/ RemoveV(a)
Find(a) == \/ FindStart(a) \/ FindP(a) \/ FindScan(a) \/ FindTest(a)
           \/ FindV(a) \/ FindReread(a)

Next == \E a \in Avatar : Set(a) \/ Move(a) \/ Remove(a) \/ Find(a)

Spec == Init /\ [][Next]_vars

\* A thread inside an operation is scheduled, and rand_r() finds an empty cell
\* again and again if there is one again and again.
Fairness == \A a \in Avatar :
  /\ WF_vars(pc[a] # "none" /\ (Set(a) \/ Move(a) \/ Remove(a) \/ Find(a)))
  /\ SF_vars(SetTry(a) /\ pc'[a] = "set_write")
FairSpec == Spec /\ Fairness

-----------------------------------------------------------------------------
(* Properties of whole operations, one at a time                           *)

AllIdle == \A a \in Avatar : pc[a] = "none"

\* The array is the template with each placed player's avatar at the location
\* the player module has for it: every operation keeps the two in step.
MazeMatchesPlayers == ~overlap /\ AllIdle =>
  \A c \in Cell :
    LET at == {a \in Avatar : placed[a] /\ loc[a] = c}
    IN  IF at = {} THEN the_maze[c] = template[c] ELSE at = {the_maze[c]}

\* The target that maze_find_target returns is a placed player in that cell.
TargetIsThere == \A a \in Avatar : ~overlap /\ pc[a] = "find_reread" =>
  Returned(a) \in {b \in Avatar \ {a} : placed[b] /\ loc[b] = there[a]}

-----------------------------------------------------------------------------
(* Properties that survive overlapping operations                          *)

\* No race of unlocked operations makes or removes a solid object.
SolidStays ==
  \A c \in Cell : the_maze[c] \in Solid <=> template[c] \in Solid

\* Every avatar in the maze stands where some placed player is or is moving
\* to: a race may hide or disguise a player but leaves no abandoned avatar.
At(a) == IF pc[a] \in MovePC THEN here[a] ELSE loc[a]
NoGhost ==
  \A c \in Cell : the_maze[c] \in Avatar =>
    \E a \in Avatar :
      \/ placed[a] /\ At(a) = c
      \/ pc[a] = "move_clear" /\ there[a] = c

\* The search never takes a solid object for a target, though it reads the
\* cell up to three times while others write to it.
TargetNeverSolid == \A a \in Avatar : pc[a] = "find_reread" =>
  object[a] \notin Solid /\ Returned(a) \notin Solid

\* In a maze whose border is solid no operation reads or writes outside the
\* array, whatever operations overlap: maze_move has no test of its own.
Border == Cell \ ((1 .. Rows - 2) \X (1 .. Cols - 2))
InBounds == (\A c \in Border : template[c] \in Solid) => ~fault

\* Every path through the two locked functions releases the semaphore.
MazeReleased == mutex = 0 ~> mutex = 1 \/ fault

PlacementEnds(a) == pc[a] = "set_try" ~> pc[a] # "set_try" \/ fault

\* A player that is placed while there is a cell for every player comes to be
\* placed in the end: the cells that moves and removals leave become free, and
\* no avatar is left behind to fill the maze.
RoomForAll == Cardinality({c \in Cell : template[c] = EMPTY}) >= Cardinality(Avatar)
PlacementFindsRoom == RoomForAll => \A a \in Avatar : PlacementEnds(a)

\* maze.h:160-161: "The placement can fail if after a large number of attempts
\* an unoccupied location has not been found": it ends, in a full maze too.
PlacementReturns == \A a \in Avatar : PlacementEnds(a)
=============================================================================
