------------------------- MODULE MazeThreadsProofs -------------------------
(***************************************************************************)
(* What survives the missing locks of maze.c, for any number of players,   *)
(* any size and any maze: module MazeThreads' properties of overlapping    *)
(* operations, from one inductive invariant; and, from a second one on top *)
(* of it, what operations do that come one at a time.                      *)
(***************************************************************************)
EXTENDS MazeThreads, TLAPS

\* A cell of the array that is not solid in the template.
Soft(c) == c \in Cell /\ template[c] \notin Solid

Adjacent(a) == \E d \in DIRECTION : there[a] = Ahead(here[a], d, 1)

\* The semaphore excludes the locked operations from each other, though not
\* from the unlocked ones.
MutexInv ==
  /\ \A a, b \in Avatar : pc[a] \in LockedPC /\ pc[b] \in LockedPC => a = b
  /\ mutex = 0 <=> \E a \in Avatar : pc[a] \in LockedPC

\* What a thread knows of the cells it works on: only facts about the template
\* and its own player, since every other thread may write to the maze.
PlayerInv(a) ==
  /\ placed[a] => Soft(At(a))
  /\ pc[a] \in SetPC => ~placed[a]
  /\ pc[a] \in MovePC \cup RemovePC \cup FindPC => placed[a]

CellsInv(a) ==
  /\ pc[a] = "set_write" => Soft(here[a])
  /\ pc[a] \in MovePC => loc[a] = there[a]
  /\ pc[a] \in MovePC \cup FindPC => Adjacent(a)
  /\ pc[a] \in {"move_read", "move_write", "move_clear"} => Soft(there[a])
  /\ pc[a] = "find_test" => there[a] \in Cell

ObjectInv(a) ==
  /\ pc[a] = "move_write" => object[a] \notin Solid
  /\ pc[a] = "find_reread" => object[a] # EMPTY
  /\ object[a] # EMPTY =>
       pc[a] \in {"move_write", "move_clear", "find_V", "find_reread"}
  /\ pc[a] \in {"find_V", "find_reread"} /\ object[a] # EMPTY =>
       object[a] \in Avatar /\ Soft(there[a])

ThreadInv(a) == PlayerInv(a) /\ CellsInv(a) /\ ObjectInv(a)

\* NoGhost with the player whose cell was just cleared left out: what is in
\* that cell now was put there by somebody else.
Stands(a, c) == \/ placed[a] /\ At(a) = c /\ pc[a] # "remove_V"
                \/ pc[a] = "move_clear" /\ there[a] = c
Accounted ==
  \A c \in Cell : the_maze[c] \in Avatar => \E a \in Avatar : Stands(a, c)

MazeInv == /\ TypeOK /\ MutexInv
           /\ \A a \in Avatar : ThreadInv(a)
           /\ SolidStays /\ Accounted /\ InBounds

-----------------------------------------------------------------------------
(* The geometry of the array                                               *)

LEMMA CellsAreNear == Cell \subseteq Near /\ <<0, 0>> \in Cell /\ <<0, 0>> \in Near
  BY SizeAssumption DEF Cell, Near

LEMMA AheadNeighbour ==
  ASSUME NEW c \in Cell, NEW d \in DIRECTION
  PROVE  Ahead(c, d, 1) \in Near
  BY SizeAssumption DEF Near, Cell, DIRECTION, Ahead, Delta, NORTH, WEST, SOUTH, EAST

LEMMA AheadOfInterior ==
  ASSUME NEW c \in Cell \ Border, NEW d \in DIRECTION
  PROVE  Ahead(c, d, 1) \in Cell
  BY SizeAssumption
     DEF Cell, Border, DIRECTION, Ahead, Delta, NORTH, WEST, SOUTH, EAST

LEMMA FurtherIsAhead ==
  ASSUME NEW c \in Cell, NEW d \in DIRECTION
  PROVE  Further(c, Ahead(c, d, 1)) = Ahead(Ahead(c, d, 1), d, 1)
  BY SizeAssumption
     DEF Cell, DIRECTION, Further, Ahead, Delta, NORTH, WEST, SOUTH, EAST

LEMMA InitMazeInv == Init => MazeInv
<1> SUFFICES ASSUME Init PROVE MazeInv
  OBVIOUS
<1> USE SizeAssumption, TemplateAssumption, ObjectAssumption DEF Init
<1>1. TypeOK
  <2>1. template \in [Cell -> OBJECT]
    BY DEF OBJECT
  <2>. QED
    BY <2>1, CellsAreNear DEF TypeOK, OBJECT
<1>2. MutexInv
  BY DEF MutexInv, LockedPC
<1>3. ASSUME NEW a \in Avatar PROVE ThreadInv(a)
  BY DEF ThreadInv, PlayerInv, CellsInv, ObjectInv, SetPC, MovePC, RemovePC,
         FindPC, At
<1>4. SolidStays
  BY DEF SolidStays
<1>5. Accounted
  BY DEF Accounted, Cell
<1>6. InBounds
  BY DEF InBounds
<1>. QED
  BY <1>1, <1>2, <1>3, <1>4, <1>5, <1>6 DEF MazeInv

-----------------------------------------------------------------------------
(* What a step of one thread leaves alone                                  *)

\* A step of thread a.
Frame(a) ==
  /\ UNCHANGED template
  /\ \A b \in Avatar \ {a} :
       /\ pc'[b] = pc[b] /\ placed'[b] = placed[b] /\ loc'[b] = loc[b]
       /\ here'[b] = here[b] /\ there'[b] = there[b] /\ object'[b] = object[b]

LEMMA OtherThreads ==
  ASSUME NEW a \in Avatar, Frame(a), \A b \in Avatar : ThreadInv(b),
         ThreadInv(a)'
  PROVE  \A b \in Avatar : ThreadInv(b)'
<1> SUFFICES ASSUME NEW b \in Avatar \ {a} PROVE ThreadInv(b)'
  OBVIOUS
<1>1. ThreadInv(b)
  OBVIOUS
<1>2. PlayerInv(b)'
  BY <1>1 DEF Frame, ThreadInv, PlayerInv, Soft, At, MovePC
<1>3. CellsInv(b)'
  BY <1>1 DEF Frame, ThreadInv, CellsInv, Soft, Adjacent
<1>4. ObjectInv(b)'
  BY <1>1 DEF Frame, ThreadInv, ObjectInv, Soft
<1>. QED
  BY <1>2, <1>3, <1>4 DEF ThreadInv

\* A thread that keeps or does not have the semaphore.
LEMMA SameHolder ==
  ASSUME MutexInv, NEW a \in Avatar, Frame(a), UNCHANGED mutex,
         pc[a] \in LockedPC <=> pc'[a] \in LockedPC
  PROVE  MutexInv'
  BY DEF MutexInv, Frame

\* A step that neither writes to the maze nor moves its player.
Quiet(a) ==
  /\ Frame(a)
  /\ UNCHANGED <<the_maze, mutex, placed, fault>> /\ At(a)' = At(a)
  /\ pc[a] \notin {"move_clear", "remove_V"}
  /\ pc'[a] # "remove_V"
  /\ pc[a] \in LockedPC <=> pc'[a] \in LockedPC

LEMMA QuietStep ==
  ASSUME MazeInv, NEW a \in Avatar, Quiet(a), TypeOK', ThreadInv(a)'
  PROVE  MazeInv'
<1> USE DEF MazeInv, Quiet, At, MovePC
<1>1. \A b \in Avatar : ThreadInv(b)'
  BY OtherThreads
<1>2. MutexInv'
  BY SameHolder
<1>3. SolidStays'
  BY DEF SolidStays, Frame
<1>4. Accounted'
  <2>1. ASSUME NEW b \in Avatar, NEW c \in Cell, Stands(b, c)
        PROVE  Stands(b, c)'
    BY <2>1 DEF Stands, Frame, At, MovePC
  <2>. QED
    BY <2>1 DEF Accounted
<1>5. InBounds'
  BY DEF InBounds, Frame
<1>. QED
  BY <1>1, <1>2, <1>3, <1>4, <1>5

-----------------------------------------------------------------------------
(* maze_set_player_random                                                  *)

LEMMA SetInv ==
  ASSUME MazeInv, NEW a \in Avatar, Set(a)
  PROVE  MazeInv'
<1> USE ObjectAssumption DEF Goto, scenario
<1>1. CASE SetStart(a)
  <2>1. TypeOK' /\ Quiet(a)
    BY <1>1 DEF MazeInv, TypeOK, SetStart, Quiet, Frame, locals, LockedPC, SetPC, At, MovePC
  <2>2. ThreadInv(a)'
    BY <1>1 DEF MazeInv, TypeOK, SetStart, locals, ThreadInv, PlayerInv,
                CellsInv, ObjectInv, SetPC, MovePC, RemovePC, FindPC, At
  <2>. QED
    BY <2>1, <2>2, QuietStep
<1>2. CASE SetTry(a)
  <2>1. TypeOK' /\ Quiet(a)
    BY <1>2 DEF MazeInv, TypeOK, SetTry, Quiet, Frame, LockedPC, SetPC, At, MovePC
  <2>2. ThreadInv(a)'
    BY <1>2 DEF MazeInv, TypeOK, SetTry, SolidStays, ThreadInv, PlayerInv,
                CellsInv, ObjectInv, Soft, SetPC, MovePC, RemovePC, FindPC, At
  <2>. QED
    BY <2>1, <2>2, QuietStep
<1>3. CASE SetWrite(a)
  <2> USE <1>3 DEF SetWrite, Forget, Write, Origin
  <2>1. TypeOK'
    <3>1. loc' \in [Avatar -> Near] /\ here' \in [Avatar -> Cell]
          /\ there' \in [Avatar -> Near]
      BY CellsAreNear DEF MazeInv, TypeOK
    <3>2. the_maze' \in [Cell -> OBJECT] /\ object' \in [Avatar -> OBJECT]
      BY DEF MazeInv, TypeOK, OBJECT
    <3>. QED
      BY <3>1, <3>2 DEF MazeInv, TypeOK
  <2>2. Frame(a)
    BY DEF MazeInv, TypeOK, Frame
  <2>3. ThreadInv(a)'
    BY DEF MazeInv, TypeOK, ThreadInv, PlayerInv, CellsInv, ObjectInv, Soft,
           SetPC, MovePC, RemovePC, FindPC, At
  <2>4. MutexInv'
    BY <2>2, SameHolder DEF MazeInv, TypeOK, LockedPC
  <2>5. SolidStays'
    BY DEF MazeInv, TypeOK, SolidStays, ThreadInv, CellsInv, Soft
  <2>6. Accounted'
    <3>1. ASSUME NEW b \in Avatar, NEW c \in Cell, Stands(b, c)
          PROVE  Stands(b, c)'
      BY <3>1 DEF MazeInv, TypeOK, ThreadInv, PlayerInv, Stands, SetPC, At, MovePC
    <3>2. placed'[a] /\ loc'[a] = here[a] /\ pc'[a] = "none"
      BY DEF MazeInv, TypeOK
    <3>3. ASSUME NEW c \in Cell, the_maze'[c] \in Avatar
          PROVE  \E b \in Avatar : Stands(b, c)'
      <4>1. CASE c = here[a]
        BY <3>2, <4>1 DEF Stands, At, MovePC
      <4>2. CASE c # here[a]
        BY <3>1, <3>3, <4>2 DEF MazeInv, TypeOK, Accounted
      <4>. QED
        BY <4>1, <4>2
    <3>. QED
      BY <3>3 DEF Accounted
  <2>7. InBounds'
    BY DEF MazeInv, InBounds
  <2>. QED
    BY <2>1, <2>2, <2>3, <2>4, <2>5, <2>6, <2>7, OtherThreads DEF MazeInv
<1>. QED
  BY <1>1, <1>2, <1>3 DEF Set

-----------------------------------------------------------------------------
(* maze_move                                                               *)

\* A player is in an interior cell if the border is solid: there is a cell of
\* the array ahead in every direction.
LEMMA MoveStaysInside ==
  ASSUME MazeInv, NEW a \in Avatar, pc[a] \in MovePC,
         \A c \in Border : template[c] \in Solid
  PROVE  there[a] \in Cell
<1>1. here[a] \in Cell \ Border
  BY DEF MazeInv, ThreadInv, PlayerInv, CellsInv, Soft, At, MovePC
<1>2. PICK d \in DIRECTION : there[a] = Ahead(here[a], d, 1)
  BY DEF MazeInv, ThreadInv, CellsInv, Adjacent
<1>. QED
  BY <1>1, <1>2, AheadOfInterior

LEMMA MoveInv ==
  ASSUME MazeInv, NEW a \in Avatar, Move(a)
  PROVE  MazeInv'
<1> USE ObjectAssumption DEF Goto, scenario
<1>0. Cell \subseteq Near /\ <<0, 0>> \in Cell /\ <<0, 0>> \in Near
  BY CellsAreNear
<1>1. CASE MoveStart(a)
  <2>1. PICK d \in DIRECTION :
          /\ here' = [here EXCEPT ![a] = loc[a]]
          /\ there' = [there EXCEPT ![a] = Ahead(loc[a], d, 1)]
    BY <1>1 DEF MoveStart
  <2>2. pc[a] = "none" /\ pc'[a] = "move_test" /\ placed[a] /\ ~fault
        /\ UNCHANGED <<the_maze, mutex, placed, object, fault, scenario>>
    BY <1>1 DEF MazeInv, TypeOK, MoveStart
  <2>3. Soft(loc[a])
    BY <2>2 DEF MazeInv, ThreadInv, PlayerInv, At, MovePC
  <2>4. Ahead(loc[a], d, 1) \in Near
    BY <2>3, AheadNeighbour DEF Soft
  <2>5. here'[a] = loc[a] /\ there'[a] = Ahead(loc[a], d, 1)
        /\ loc'[a] = Ahead(loc[a], d, 1)
    BY <1>1, <2>1 DEF MazeInv, TypeOK, MoveStart
  <2>6. TypeOK'
    <3>1. here' \in [Avatar -> Cell] /\ there' \in [Avatar -> Near]
          /\ loc' \in [Avatar -> Near]
      BY <1>1, <2>1, <2>3, <2>4, <2>5 DEF MazeInv, TypeOK, MoveStart, Soft
    <3>2. pc' \in [Avatar -> {"none"} \cup SetPC \cup MovePC \cup RemovePC
                                 \cup FindPC]
      BY <1>1 DEF MazeInv, TypeOK, MoveStart, MovePC
    <3>. QED
      BY <2>2, <3>1, <3>2 DEF MazeInv, TypeOK
  <2>7. Quiet(a)
    <3>1. Frame(a)
      BY <1>1, <2>1 DEF MazeInv, TypeOK, MoveStart, Frame
    <3>2. At(a)' = At(a)
      BY <2>2, <2>5 DEF At, MovePC
    <3>. QED
      BY <2>2, <3>1, <3>2 DEF Quiet, LockedPC
  <2>8. ThreadInv(a)'
    <3>1. Adjacent(a)'
      BY <2>5 DEF Adjacent, Ahead
    <3>2. PlayerInv(a)'
      BY <2>2, <2>3, <2>5 DEF PlayerInv, At, Soft, SetPC, MovePC
    <3>3. CellsInv(a)' /\ ObjectInv(a)'
      BY <2>2, <2>5, <3>1 DEF CellsInv, MazeInv, ThreadInv, ObjectInv, MovePC, FindPC
    <3>. QED
      BY <3>2, <3>3 DEF ThreadInv
  <2>. QED
    BY <2>6, <2>7, <2>8, QuietStep
<1>2. CASE MoveTest(a)
  <2> USE <1>2 DEF MoveTest, TakeBack, Forget, Origin, locals
  <2>1. TypeOK'
    <3>1. pc' \in [Avatar -> {"none"} \cup SetPC \cup MovePC \cup RemovePC
                                 \cup FindPC]
      BY DEF MazeInv, TypeOK, MovePC
    <3>2. here' \in [Avatar -> Cell]
      BY <1>0 DEF MazeInv, TypeOK
    <3>3. there' \in [Avatar -> Near] /\ loc' \in [Avatar -> Near]
      BY <1>0 DEF MazeInv, TypeOK
    <3>4. object' \in [Avatar -> OBJECT]
      BY DEF MazeInv, TypeOK, OBJECT
    <3>. QED
      BY <3>1, <3>2, <3>3, <3>4 DEF MazeInv, TypeOK
  <2>2. At(a)' = At(a) /\ placed[a] /\ Soft(here[a])
    BY DEF MazeInv, TypeOK, ThreadInv, PlayerInv, At, MovePC
  <2>3. Quiet(a)
    BY <2>2 DEF MazeInv, TypeOK, Quiet, Frame, LockedPC
  <2>4. PlayerInv(a)'
    <3>1. Soft(At(a))'
      BY <2>2 DEF MazeInv, TypeOK, Soft, At, MovePC
    <3>2. pc'[a] \notin SetPC /\ placed'[a]
      BY <2>2 DEF MazeInv, TypeOK, SetPC
    <3>. QED
      BY <3>1, <3>2 DEF PlayerInv
  <2>5. CellsInv(a)' /\ ObjectInv(a)'
    BY DEF MazeInv, TypeOK, SolidStays, ThreadInv, CellsInv, ObjectInv, Soft,
           Adjacent, MovePC, FindPC
  <2>. QED
    BY <2>1, <2>3, <2>4, <2>5, QuietStep DEF ThreadInv
<1>3. CASE MoveDest(a)
  <2> USE <1>3 DEF MoveDest, TakeBack, Forget, Origin, locals, IsFree
  <2>1. TypeOK'
    <3>1. pc' \in [Avatar -> {"none"} \cup SetPC \cup MovePC \cup RemovePC
                                 \cup FindPC]
      BY DEF MazeInv, TypeOK, MovePC
    <3>2. here' \in [Avatar -> Cell]
      BY <1>0 DEF MazeInv, TypeOK
    <3>3. there' \in [Avatar -> Near] /\ loc' \in [Avatar -> Near]
      BY <1>0 DEF MazeInv, TypeOK
    <3>4. object' \in [Avatar -> OBJECT]
      BY DEF MazeInv, TypeOK, OBJECT
    <3>. QED
      BY <3>1, <3>2, <3>3, <3>4 DEF MazeInv, TypeOK
  <2>2. At(a)' = At(a) /\ placed[a] /\ Soft(here[a])
    BY DEF MazeInv, TypeOK, ThreadInv, PlayerInv, At, MovePC
  <2>3. Quiet(a)
    BY <2>2 DEF MazeInv, TypeOK, Quiet, Frame, LockedPC
  <2>4. PlayerInv(a)'
    <3>1. Soft(At(a))'
      BY <2>2 DEF MazeInv, TypeOK, Soft, At, MovePC
    <3>2. pc'[a] \notin SetPC /\ placed'[a]
      BY <2>2 DEF MazeInv, TypeOK, SetPC
    <3>. QED
      BY <3>1, <3>2 DEF PlayerInv
  <2>5. CellsInv(a)' /\ ObjectInv(a)'
    BY DEF MazeInv, TypeOK, SolidStays, ThreadInv, CellsInv, ObjectInv, Soft,
           Adjacent, MovePC, FindPC
  <2>. QED
    BY <2>1, <2>3, <2>4, <2>5, QuietStep DEF ThreadInv
<1>4. CASE MoveOutside(a)
  <2> USE <1>4 DEF MoveOutside, locals
  <2>1. TypeOK' /\ Frame(a)
    BY DEF MazeInv, TypeOK, Frame
  <2>2. ThreadInv(a)'
    BY DEF MazeInv, TypeOK, ThreadInv, PlayerInv, CellsInv, ObjectInv, Soft,
           Adjacent, SetPC, MovePC, RemovePC, FindPC, At
  <2>3. MutexInv'
    BY <2>1, SameHolder DEF MazeInv, TypeOK, LockedPC
  <2>4. SolidStays' /\ Accounted'
    <3>1. ASSUME NEW b \in Avatar, NEW c \in Cell, Stands(b, c)
          PROVE  Stands(b, c)'
      BY <3>1 DEF MazeInv, TypeOK, Stands, At, MovePC
    <3>. QED
      BY <3>1 DEF MazeInv, SolidStays, Accounted
  <2>5. InBounds'
    BY MoveStaysInside DEF InBounds, MovePC
  <2>. QED
    BY <2>1, <2>2, <2>3, <2>4, <2>5, OtherThreads DEF MazeInv
<1>5. CASE MoveRead(a)
  <2> USE <1>5 DEF MoveRead
  <2>1. here[a] \in Cell /\ the_maze[here[a]] \in OBJECT \ Solid
    BY DEF MazeInv, TypeOK, SolidStays, ThreadInv, PlayerInv, CellsInv, Soft,
           MovePC, At
  <2>2. TypeOK' /\ Quiet(a)
    BY <2>1 DEF MazeInv, TypeOK, Quiet, Frame, LockedPC, MovePC, At
  <2>3. ThreadInv(a)'
    BY <2>1 DEF MazeInv, TypeOK, ThreadInv, PlayerInv, CellsInv, ObjectInv,
                Soft, Adjacent, SetPC, MovePC, RemovePC, FindPC, At
  <2>. QED
    BY <2>2, <2>3, QuietStep
<1>6. CASE MoveWrite(a)
  <2> USE <1>6 DEF MoveWrite, Write, locals
  <2>1. Soft(there[a]) /\ object[a] \in OBJECT \ Solid
    BY DEF MazeInv, TypeOK, ThreadInv, CellsInv, ObjectInv
  <2>2. TypeOK' /\ Frame(a)
    BY <2>1 DEF MazeInv, TypeOK, Frame, MovePC
  <2>3. ThreadInv(a)'
    BY <2>1 DEF MazeInv, TypeOK, ThreadInv, PlayerInv, CellsInv, ObjectInv,
                Soft, Adjacent, SetPC, MovePC, RemovePC, FindPC, At
  <2>4. MutexInv'
    BY <2>2, SameHolder DEF MazeInv, TypeOK, LockedPC
  <2>5. SolidStays'
    BY <2>1 DEF MazeInv, TypeOK, SolidStays, Soft
  <2>6. Accounted'
    <3>1. ASSUME NEW b \in Avatar, NEW c \in Cell, Stands(b, c)
          PROVE  Stands(b, c)'
      BY <3>1 DEF MazeInv, TypeOK, Stands, At, MovePC
    <3>2. Stands(a, there[a])'
      BY DEF MazeInv, TypeOK, Stands, At, MovePC
    <3>. QED
      BY <3>1, <3>2 DEF MazeInv, TypeOK, Accounted
  <2>7. InBounds'
    BY DEF MazeInv, InBounds
  <2>. QED
    BY <2>2, <2>3, <2>4, <2>5, <2>6, <2>7, OtherThreads DEF MazeInv
<1>7. CASE MoveClear(a)
  <2> USE <1>7 DEF MoveClear, MoveLeaves, Write, Forget, Origin
  <2>1. Soft(there[a]) /\ Soft(here[a]) /\ loc[a] = there[a] /\ placed[a]
    BY DEF MazeInv, ThreadInv, PlayerInv, CellsInv, MovePC, At
  <2>2. TypeOK' /\ Frame(a)
    BY <1>0, <2>1 DEF MazeInv, TypeOK, Frame, OBJECT, Soft
  <2>3. ThreadInv(a)'
    BY <2>1 DEF MazeInv, TypeOK, ThreadInv, PlayerInv, CellsInv, ObjectInv,
                Soft, SetPC, MovePC, RemovePC, FindPC, At
  <2>4. MutexInv'
    BY <2>2, SameHolder DEF MazeInv, TypeOK, LockedPC
  <2>5. SolidStays'
    BY <2>1 DEF MazeInv, TypeOK, SolidStays, Soft
  <2>6. Accounted'
    <3>1. ASSUME NEW b \in Avatar, NEW c \in Cell \ {here[a]}, Stands(b, c)
          PROVE  Stands(b, c)'
      BY <2>1, <3>1 DEF MazeInv, TypeOK, Stands, At, MovePC
    <3>2. the_maze'[here[a]] = EMPTY
      BY <2>1 DEF MazeInv, TypeOK, Soft
    <3>. QED
      BY <3>1, <3>2 DEF MazeInv, TypeOK, Accounted
  <2>7. InBounds'
    BY DEF MazeInv, InBounds
  <2>. QED
    BY <2>2, <2>3, <2>4, <2>5, <2>6, <2>7, OtherThreads DEF MazeInv
<1>. QED
  BY <1>1, <1>2, <1>3, <1>4, <1>5, <1>6, <1>7 DEF Move

-----------------------------------------------------------------------------
(* The two operations that take the semaphore                              *)

LEMMA TakeMutex ==
  ASSUME TypeOK, MutexInv, NEW a \in Avatar, Frame(a), P,
         pc[a] \notin LockedPC, pc'[a] \in LockedPC
  PROVE  MutexInv' /\ mutex' \in {0, 1}
<1>1. mutex' = 0 /\ \A b \in Avatar : pc[b] \notin LockedPC
  BY DEF TypeOK, MutexInv, P
<1>2. \A b \in Avatar : pc'[b] \in LockedPC <=> b = a
  BY <1>1 DEF Frame
<1>. QED
  BY <1>1, <1>2 DEF MutexInv

LEMMA GiveMutex ==
  ASSUME TypeOK, MutexInv, NEW a \in Avatar, Frame(a), V,
         pc[a] \in LockedPC, pc'[a] \notin LockedPC
  PROVE  MutexInv' /\ mutex' \in {0, 1}
<1>1. mutex' = 1 /\ \A b \in Avatar : pc[b] \in LockedPC <=> b = a
  BY DEF TypeOK, MutexInv, V
<1>2. \A b \in Avatar : pc'[b] \notin LockedPC
  BY <1>1 DEF Frame
<1>. QED
  BY <1>1, <1>2 DEF MutexInv

\* A step that takes or gives the semaphore and writes to nothing else.
LEMMA LockStep ==
  ASSUME MazeInv, NEW a \in Avatar, Frame(a),
         UNCHANGED <<the_maze, placed, fault>>, At(a)' = At(a),
         pc[a] \notin {"move_clear", "remove_V"}, pc'[a] # "remove_V",
         TypeOK', ThreadInv(a)', MutexInv'
  PROVE  MazeInv'
<1> USE DEF MazeInv
<1>1. \A b \in Avatar : ThreadInv(b)'
  BY OtherThreads
<1>2. SolidStays'
  BY DEF SolidStays, Frame
<1>3. Accounted'
  <2>1. ASSUME NEW b \in Avatar, NEW c \in Cell, Stands(b, c)
        PROVE  Stands(b, c)'
    BY <2>1 DEF Stands, Frame, At, MovePC
  <2>. QED
    BY <2>1 DEF Accounted
<1>4. InBounds'
  BY DEF InBounds, Frame
<1>. QED
  BY <1>1, <1>2, <1>3, <1>4

LEMMA RemoveInv ==
  ASSUME MazeInv, NEW a \in Avatar, Remove(a)
  PROVE  MazeInv'
<1> USE ObjectAssumption DEF Goto, scenario
<1>0. <<0, 0>> \in Cell /\ <<0, 0>> \in Near
  BY CellsAreNear
<1>1. CASE RemoveStart(a)
  <2> USE <1>1 DEF RemoveStart, locals
  <2>1. TypeOK' /\ Quiet(a)
    BY DEF MazeInv, TypeOK, Quiet, Frame, LockedPC, RemovePC, At, MovePC
  <2>2. ThreadInv(a)'
    BY DEF MazeInv, TypeOK, ThreadInv, PlayerInv, CellsInv, ObjectInv, Soft,
           SetPC, MovePC, RemovePC, FindPC, At
  <2>. QED
    BY <2>1, <2>2, QuietStep
<1>2. CASE RemoveP(a)
  <2> USE <1>2 DEF RemoveP, locals
  <2>1. Frame(a)
    BY DEF MazeInv, TypeOK, Frame
  <2>2. MutexInv' /\ mutex' \in {0, 1}
    BY <2>1, TakeMutex DEF MazeInv, TypeOK, LockedPC
  <2>3. TypeOK'
    BY <2>2 DEF MazeInv, TypeOK, RemovePC
  <2>4. ThreadInv(a)'
    BY DEF MazeInv, TypeOK, ThreadInv, PlayerInv, CellsInv, ObjectInv, Soft,
           SetPC, MovePC, RemovePC, FindPC, At
  <2>5. UNCHANGED <<the_maze, placed, fault>> /\ At(a)' = At(a)
        /\ pc[a] \notin {"move_clear", "remove_V"} /\ pc'[a] # "remove_V"
    BY DEF MazeInv, TypeOK, At, MovePC
  <2>. QED
    BY <2>1, <2>2, <2>3, <2>4, <2>5, LockStep
<1>3. CASE RemoveClear(a)
  <2> USE <1>3 DEF RemoveClear, RemoveErases, Write, locals
  <2>1. placed[a] /\ Soft(loc[a])
    BY DEF MazeInv, ThreadInv, PlayerInv, RemovePC, At, MovePC
  <2>2. TypeOK' /\ Frame(a)
    BY <2>1 DEF MazeInv, TypeOK, OBJECT, Frame, RemovePC
  <2>3. ThreadInv(a)'
    BY <2>1 DEF MazeInv, TypeOK, ThreadInv, PlayerInv, CellsInv, ObjectInv,
                Soft, SetPC, MovePC, RemovePC, FindPC, At
  <2>4. MutexInv'
    BY <2>2, SameHolder DEF MazeInv, TypeOK, LockedPC
  <2>5. SolidStays'
    BY <2>1 DEF MazeInv, TypeOK, SolidStays, Soft
  <2>6. Accounted'
    <3>1. ASSUME NEW b \in Avatar, NEW c \in Cell \ {loc[a]}, Stands(b, c)
          PROVE  Stands(b, c)'
      BY <3>1 DEF MazeInv, TypeOK, Stands, At, MovePC
    <3>2. the_maze'[loc[a]] = EMPTY
      BY <2>1 DEF MazeInv, TypeOK, Soft
    <3>. QED
      BY <3>1, <3>2 DEF MazeInv, TypeOK, Accounted
  <2>7. InBounds'
    BY DEF MazeInv, InBounds
  <2>. QED
    BY <2>2, <2>3, <2>4, <2>5, <2>6, <2>7, OtherThreads DEF MazeInv
<1>4. CASE RemoveV(a)
  <2> USE <1>4 DEF RemoveV, Origin, locals
  <2>1. Frame(a)
    BY DEF MazeInv, TypeOK, Frame
  <2>2. MutexInv' /\ mutex' \in {0, 1}
    BY <2>1, GiveMutex DEF MazeInv, TypeOK, LockedPC
  <2>3. TypeOK'
    BY <1>0, <2>2 DEF MazeInv, TypeOK
  <2>4. ThreadInv(a)'
    BY DEF MazeInv, TypeOK, ThreadInv, PlayerInv, CellsInv, ObjectInv,
           SetPC, MovePC, RemovePC, FindPC, At
  <2>5. SolidStays'
    BY DEF MazeInv, SolidStays
  <2>6. Accounted'
    <3>1. ASSUME NEW b \in Avatar, NEW c \in Cell, Stands(b, c)
          PROVE  Stands(b, c)'
      BY <3>1 DEF MazeInv, TypeOK, Stands, At, MovePC
    <3>. QED
      BY <3>1 DEF MazeInv, Accounted
  <2>7. InBounds'
    BY DEF MazeInv, InBounds
  <2>. QED
    BY <2>1, <2>2, <2>3, <2>4, <2>5, <2>6, <2>7, OtherThreads DEF MazeInv
<1>. QED
  BY <1>1, <1>2, <1>3, <1>4 DEF Remove

LEMMA FindInv ==
  ASSUME MazeInv, NEW a \in Avatar, Find(a)
  PROVE  MazeInv'
<1> USE ObjectAssumption DEF Goto, scenario
<1>0. Cell \subseteq Near /\ <<0, 0>> \in Cell /\ <<0, 0>> \in Near
  BY CellsAreNear
<1>1. CASE FindStart(a)
  <2>1. PICK d \in DIRECTION :
          /\ here' = [here EXCEPT ![a] = loc[a]]
          /\ there' = [there EXCEPT ![a] = Ahead(loc[a], d, 1)]
    BY <1>1 DEF FindStart
  <2>2. loc[a] \in Cell /\ Ahead(loc[a], d, 1) \in Near
    <3>1. Soft(loc[a])
      BY <1>1 DEF MazeInv, ThreadInv, PlayerInv, FindStart, At, MovePC
    <3>. QED
      BY <3>1, AheadNeighbour DEF Soft
  <2>3. TypeOK' /\ Quiet(a)
    BY <1>1, <2>1, <2>2
       DEF MazeInv, TypeOK, FindStart, Quiet, Frame, LockedPC, FindPC, At, MovePC
  <2>4. Adjacent(a)'
    <3>1. here'[a] = loc[a] /\ there'[a] = Ahead(loc[a], d, 1)
      BY <2>1 DEF MazeInv, TypeOK
    <3>. QED
      BY <3>1 DEF Adjacent, Ahead
  <2>5. ThreadInv(a)'
    BY <1>1, <2>1, <2>2, <2>4
       DEF MazeInv, TypeOK, FindStart, ThreadInv, PlayerInv, CellsInv,
           ObjectInv, Soft, SetPC, MovePC, RemovePC, FindPC, At
  <2>. QED
    BY <2>3, <2>5, QuietStep
<1>2. CASE FindP(a)
  <2> USE <1>2 DEF FindP, locals
  <2>1. Frame(a)
    BY DEF MazeInv, TypeOK, Frame
  <2>2. MutexInv' /\ mutex' \in {0, 1}
    BY <2>1, TakeMutex DEF MazeInv, TypeOK, LockedPC
  <2>3. TypeOK'
    BY <2>2 DEF MazeInv, TypeOK, FindPC
  <2>4. ThreadInv(a)'
    BY DEF MazeInv, TypeOK, ThreadInv, PlayerInv, CellsInv, ObjectInv, Soft,
           Adjacent, SetPC, MovePC, RemovePC, FindPC, At
  <2>5. UNCHANGED <<the_maze, placed, fault>> /\ At(a)' = At(a)
        /\ pc[a] \notin {"move_clear", "remove_V"} /\ pc'[a] # "remove_V"
    BY DEF MazeInv, TypeOK, At, MovePC
  <2>. QED
    BY <2>1, <2>2, <2>3, <2>4, <2>5, LockStep
<1>3. CASE FindScan(a)
  <2> USE <1>3 DEF FindScan
  <2>1. PICK d \in DIRECTION : there[a] = Ahead(here[a], d, 1)
    BY DEF MazeInv, ThreadInv, CellsInv, Adjacent, FindPC
  <2>2. Further(here[a], there[a]) = Ahead(there[a], d, 1)
    BY <2>1, FurtherIsAhead DEF MazeInv, TypeOK
  <2>3. there[a] \in Cell =>
          Further(here[a], there[a]) \in Near
    BY <2>2, AheadNeighbour
  <2>4. TypeOK'
    <3>1. here' \in [Avatar -> Cell]
      BY DEF MazeInv, TypeOK
    <3>2. there' \in [Avatar -> Near]
      BY <2>3 DEF MazeInv, TypeOK
    <3>. QED
      BY <3>1, <3>2 DEF MazeInv, TypeOK, FindPC
  <2>5. Quiet(a)
    BY DEF MazeInv, TypeOK, Quiet, Frame, LockedPC, At, MovePC
  <2>6. Adjacent(a)'
    <3>1. CASE UNCHANGED <<here, there>>
      BY <2>1, <3>1 DEF Adjacent, Ahead
    <3>2. CASE here'[a] = there[a] /\ there'[a] = Further(here[a], there[a])
      BY <2>2, <3>2 DEF Adjacent, Ahead
    <3>. QED
      BY <3>1, <3>2 DEF MazeInv, TypeOK
  <2>7. ThreadInv(a)'
    BY <2>6 DEF MazeInv, TypeOK, ThreadInv, PlayerInv, CellsInv, ObjectInv,
                Soft, SetPC, MovePC, RemovePC, FindPC, At
  <2>. QED
    BY <2>4, <2>5, <2>7, QuietStep
<1>4. CASE FindTest(a)
  <2> USE <1>4 DEF FindTest, Target, IS_AVATAR
  <2>1. there[a] \in Cell
    BY DEF MazeInv, ThreadInv, CellsInv
  <2>2. TypeOK' /\ Quiet(a)
    BY <2>1 DEF MazeInv, TypeOK, OBJECT, Quiet, Frame, LockedPC, FindPC, At, MovePC
  <2>3. the_maze[there[a]] \in Avatar => Soft(there[a])
    BY <2>1 DEF MazeInv, SolidStays, Soft
  <2>4. ThreadInv(a)'
    BY <2>1, <2>3
       DEF MazeInv, TypeOK, ThreadInv, PlayerInv, CellsInv, ObjectInv, Soft,
           Adjacent, SetPC, MovePC, RemovePC, FindPC, At
  <2>. QED
    BY <2>2, <2>4, QuietStep
<1>5. CASE FindV(a)
  <2> USE <1>5 DEF FindV, Forget, Origin, locals
  <2>1. Frame(a)
    BY DEF MazeInv, TypeOK, Frame
  <2>2. MutexInv' /\ mutex' \in {0, 1}
    BY <2>1, GiveMutex DEF MazeInv, TypeOK, LockedPC
  <2>3. TypeOK'
    <3>1. here' \in [Avatar -> Cell] /\ object' \in [Avatar -> OBJECT]
      BY <1>0 DEF MazeInv, TypeOK, OBJECT
    <3>2. there' \in [Avatar -> Near]
      BY <1>0 DEF MazeInv, TypeOK
    <3>. QED
      BY <2>2, <3>1, <3>2 DEF MazeInv, TypeOK, FindPC
  <2>4. ThreadInv(a)'
    BY DEF MazeInv, TypeOK, ThreadInv, PlayerInv, CellsInv, ObjectInv, Soft,
           Adjacent, SetPC, MovePC, RemovePC, FindPC, At
  <2>5. UNCHANGED <<the_maze, placed, fault>> /\ At(a)' = At(a)
        /\ pc[a] \notin {"move_clear", "remove_V"} /\ pc'[a] # "remove_V"
    BY DEF MazeInv, TypeOK, At, MovePC
  <2>. QED
    BY <2>1, <2>2, <2>3, <2>4, <2>5, LockStep
<1>6. CASE FindReread(a)
  <2> USE <1>6 DEF FindReread, Forget, Origin
  <2>1. TypeOK' /\ Quiet(a)
    BY <1>0 DEF MazeInv, TypeOK, OBJECT, Quiet, Frame, LockedPC, At, MovePC
  <2>2. ThreadInv(a)'
    BY DEF MazeInv, TypeOK, ThreadInv, PlayerInv, CellsInv, ObjectInv, Soft,
           SetPC, MovePC, RemovePC, FindPC, At
  <2>. QED
    BY <2>1, <2>2, QuietStep
<1>. QED
  BY <1>1, <1>2, <1>3, <1>4, <1>5, <1>6 DEF Find

-----------------------------------------------------------------------------
LEMMA NextMazeInv == MazeInv /\ [Next]_vars => MazeInv'
<1> SUFFICES ASSUME MazeInv, [Next]_vars PROVE MazeInv'
  OBVIOUS
<1>1. CASE Next
  BY <1>1, SetInv, MoveInv, RemoveInv, FindInv DEF Next
<1>2. CASE UNCHANGED vars
  <2> USE <1>2 DEF vars, scenario, locals, MazeInv
  <2>1. TypeOK' /\ MutexInv'
    BY DEF TypeOK, MutexInv
  <2>2. ASSUME NEW a \in Avatar PROVE ThreadInv(a)'
    BY DEF ThreadInv, PlayerInv, CellsInv, ObjectInv, Soft, Adjacent, At, MovePC
  <2>3. SolidStays' /\ Accounted' /\ InBounds'
    BY DEF SolidStays, Accounted, Stands, InBounds, At, MovePC
  <2>. QED
    BY <2>1, <2>2, <2>3
<1>. QED
  BY <1>1, <1>2

LEMMA MazeInvariant == Spec => []MazeInv
<1>. QED
  BY InitMazeInv, NextMazeInv, PTL DEF Spec

\* The array, the semaphore and what the threads hold of them keep their types
\* for any number of players: a thread's cells stay next to each other and the
\* mutex of maze.c stays a binary semaphore.
THEOREM MazeTypeCorrect == Spec => []TypeOK
<1>1. MazeInv => TypeOK
  BY DEF MazeInv
<1>. QED
  BY <1>1, MazeInvariant, PTL

\* In every maze and for any number of players, no race of the unlocked
\* operations makes or removes a solid object.
THEOREM WallsStay == Spec => []SolidStays
<1>1. MazeInv => SolidStays
  BY DEF MazeInv
<1>. QED
  BY <1>1, MazeInvariant, PTL

\* However the operations of any number of players overlap, every avatar in
\* the array is at the location of some placed player, or a move in progress
\* has just written it.
THEOREM NoAvatarAbandoned == Spec => []NoGhost
<1>1. MazeInv => NoGhost
  BY DEF MazeInv, Accounted, Stands, NoGhost, At, MovePC
<1>. QED
  BY <1>1, MazeInvariant, PTL

\* maze_find_target never returns a solid object, though it reads the cell a
\* last time after it has released the semaphore.
THEOREM TargetsAreSoft == Spec => []TargetNeverSolid
<1>1. MazeInv => TargetNeverSolid
  <2> SUFFICES ASSUME MazeInv, NEW a \in Avatar, pc[a] = "find_reread"
               PROVE  object[a] \notin Solid /\ Returned(a) \notin Solid
    BY DEF TargetNeverSolid
  <2>1. object[a] \in Avatar /\ Soft(there[a])
    BY DEF MazeInv, ThreadInv, ObjectInv
  <2>. QED
    BY <2>1, ObjectAssumption DEF MazeInv, SolidStays, Soft, Returned
<1>. QED
  BY <1>1, MazeInvariant, PTL

\* maze_move, which does not test the bounds of the array, stays inside of it
\* in every maze whose border is solid.
THEOREM SolidBorderSuffices == Spec => []InBounds
<1>1. MazeInv => InBounds
  BY DEF MazeInv
<1>. QED
  BY <1>1, MazeInvariant, PTL

-----------------------------------------------------------------------------
(* One operation at a time                                                 *)

Along(a, d, k) == here[a] = Ahead(loc[a], d, k - 1) /\ there[a] = Ahead(loc[a], d, k)
OnRay(a) == \E d \in DIRECTION, k \in Nat \ {0} : Along(a, d, k)

OneBusy == \A a, b \in Avatar : pc[a] # "none" /\ pc[b] # "none" => a = b

\* The array is the template and the avatars of those who stand in it.
InPlace == \A c \in Cell :
  /\ \A a \in Avatar : Stands(a, c) => the_maze[c] = a
  /\ (\A a \in Avatar : ~Stands(a, c)) => the_maze[c] = template[c]

\* What a thread has read is still there.
Undisturbed(a) ==
  /\ pc[a] = "set_write" => the_maze[here[a]] = EMPTY
  /\ pc[a] \in {"move_read", "move_write"} => the_maze[there[a]] = EMPTY
  /\ pc[a] = "move_write" => object[a] = a
  /\ pc[a] \in FindPC => OnRay(a)
  /\ pc[a] \in {"find_V", "find_reread"} /\ object[a] # EMPTY =>
       the_maze[there[a]] = object[a]

SoloInv == ~overlap => OneBusy /\ InPlace /\ \A a \in Avatar : Undisturbed(a)

LEMMA InitSoloInv == Init => SoloInv
  BY DEF Init, SoloInv, OneBusy, InPlace, Stands, Undisturbed, FindPC, At, MovePC

Step(a) == Set(a) \/ Move(a) \/ Remove(a) \/ Find(a)

LEMMA StepFrame ==
  ASSUME TypeOK, NEW a \in Avatar, Step(a)
  PROVE  Frame(a) /\ UNCHANGED overlap
<1> USE DEF TypeOK, Frame, Goto, scenario, Forget, locals
<1>1. CASE Set(a)
  BY <1>1 DEF Set, SetStart, SetTry, SetWrite
<1>2. CASE Move(a)
  BY <1>2 DEF Move, MoveStart, MoveTest, MoveDest, MoveOutside, MoveRead,
              MoveWrite, MoveClear, TakeBack
<1>3. CASE Remove(a)
  BY <1>3 DEF Remove, RemoveStart, RemoveP, RemoveClear, RemoveV
<1>4. CASE Find(a)
  BY <1>4 DEF Find, FindStart, FindP, FindScan, FindTest, FindV, FindReread
<1>. QED
  BY <1>1, <1>2, <1>3, <1>4 DEF Step

\* Nobody else is inside an operation.
LEMMA StepAlone ==
  ASSUME SoloInv, ~overlap, NEW a \in Avatar, Step(a)
  PROVE  \A b \in Avatar \ {a} : pc[b] = "none"
<1>1. CASE pc[a] # "none"
  BY <1>1 DEF SoloInv, OneBusy
<1>2. CASE pc[a] = "none"
  BY <1>2 DEF Step, Set, SetStart, SetTry, SetWrite, Move, MoveStart, MoveTest,
              MoveDest, MoveOutside, MoveRead, MoveWrite, MoveClear, Remove,
              RemoveStart, RemoveP, RemoveClear, RemoveV, Find, FindStart, FindP,
              FindScan, FindTest, FindV, FindReread, Goto, MayStart
<1>. QED
  BY <1>1, <1>2

\* What is left to show of a step of thread a.
LEMMA SoloStep ==
  ASSUME MazeInv, SoloInv, NEW a \in Avatar, Step(a),
         ~overlap => InPlace' /\ Undisturbed(a)'
  PROVE  SoloInv'
<1>1. Frame(a) /\ UNCHANGED overlap
  BY StepFrame DEF MazeInv
<1> SUFFICES ASSUME ~overlap PROVE SoloInv'
  BY <1>1 DEF SoloInv
<1>2. \A b \in Avatar \ {a} : pc[b] = "none"
  BY StepAlone
<1>3. ASSUME NEW b \in Avatar \ {a} PROVE pc'[b] = "none" /\ Undisturbed(b)'
  BY <1>1, <1>2 DEF Frame, Undisturbed, FindPC
<1>4. OneBusy'
  BY <1>3 DEF OneBusy
<1>. QED
  BY <1>3, <1>4 DEF SoloInv

\* A step that writes nothing and moves nobody.
LEMMA StillStep ==
  ASSUME MazeInv, SoloInv, NEW a \in Avatar, Step(a),
         UNCHANGED <<the_maze, placed>>, At(a)' = At(a),
         pc[a] \notin {"move_clear", "remove_V"},
         pc'[a] \notin {"move_clear", "remove_V"},
         ~overlap => Undisturbed(a)'
  PROVE  SoloInv'
<1>1. Frame(a)
  BY StepFrame DEF MazeInv
<1>2. \A b \in Avatar, c \in Cell : Stands(b, c)' <=> Stands(b, c)
  BY <1>1 DEF Frame, Stands, At, MovePC
<1>3. ~overlap => InPlace'
  BY <1>1, <1>2 DEF SoloInv, InPlace, Frame
<1>. QED
  BY <1>3, SoloStep

-----------------------------------------------------------------------------
LEMMA AheadIs ==
  ASSUME NEW c \in Cell, NEW k \in Int
  PROVE  /\ Ahead(c, NORTH, k) = <<c[1] - k, c[2]>>
         /\ Ahead(c, WEST, k) = <<c[1], c[2] - k>>
         /\ Ahead(c, SOUTH, k) = <<c[1] + k, c[2]>>
         /\ Ahead(c, EAST, k) = <<c[1], c[2] + k>>
<1>1. c[1] \in Int /\ c[2] \in Int
  BY SizeAssumption DEF Cell
<1>. QED
  BY <1>1 DEF Ahead, Delta, DIRECTION, NORTH, WEST, SOUTH, EAST

LEMMA AheadIsElsewhere ==
  ASSUME NEW c \in Cell, NEW d \in DIRECTION, NEW k \in Nat \ {0}
  PROVE  Ahead(c, d, k) # c
<1>1. c[1] \in Int /\ c[2] \in Int /\ c = <<c[1], c[2]>>
  BY SizeAssumption DEF Cell
<1>. QED
  BY <1>1, AheadIs DEF DIRECTION

LEMMA FurtherOnRay ==
  ASSUME NEW c \in Cell, NEW d \in DIRECTION, NEW k \in Nat \ {0}
  PROVE  Further(Ahead(c, d, k - 1), Ahead(c, d, k)) = Ahead(c, d, k + 1)
<1>1. c[1] \in Int /\ c[2] \in Int
  BY SizeAssumption DEF Cell
<1>2. k - 1 \in Int /\ k \in Int /\ k + 1 \in Int
  OBVIOUS
<1>3. CASE d = NORTH
  <2>1. /\ Ahead(c, d, k - 1) = <<c[1] - (k - 1), c[2]>>
        /\ Ahead(c, d, k) = <<c[1] - k, c[2]>>
        /\ Ahead(c, d, k + 1) = <<c[1] - (k + 1), c[2]>>
    BY <1>2, <1>3, AheadIs
  <2>. QED
    BY <1>1, <2>1 DEF Further
<1>4. CASE d = WEST
  <2>1. /\ Ahead(c, d, k - 1) = <<c[1], c[2] - (k - 1)>>
        /\ Ahead(c, d, k) = <<c[1], c[2] - k>>
        /\ Ahead(c, d, k + 1) = <<c[1], c[2] - (k + 1)>>
    BY <1>2, <1>4, AheadIs
  <2>. QED
    BY <1>1, <2>1 DEF Further
<1>5. CASE d = SOUTH
  <2>1. /\ Ahead(c, d, k - 1) = <<c[1] + (k - 1), c[2]>>
        /\ Ahead(c, d, k) = <<c[1] + k, c[2]>>
        /\ Ahead(c, d, k + 1) = <<c[1] + (k + 1), c[2]>>
    BY <1>2, <1>5, AheadIs
  <2>. QED
    BY <1>1, <2>1 DEF Further
<1>6. CASE d = EAST
  <2>1. /\ Ahead(c, d, k - 1) = <<c[1], c[2] + (k - 1)>>
        /\ Ahead(c, d, k) = <<c[1], c[2] + k>>
        /\ Ahead(c, d, k + 1) = <<c[1], c[2] + (k + 1)>>
    BY <1>2, <1>6, AheadIs
  <2>. QED
    BY <1>1, <2>1 DEF Further
<1>. QED
  BY <1>3, <1>4, <1>5, <1>6 DEF DIRECTION

LEMMA AheadByNone ==
  ASSUME NEW c \in Cell, NEW d \in DIRECTION
  PROVE  Ahead(c, d, 1 - 1) = c
<1>1. c[1] \in Int /\ c[2] \in Int /\ c = <<c[1], c[2]>>
  BY SizeAssumption DEF Cell
<1>2. Ahead(c, d, 0) \in {<<c[1] - 0, c[2]>>, <<c[1] + 0, c[2]>>,
                         <<c[1], c[2] - 0>>, <<c[1], c[2] + 0>>}
  BY AheadIs DEF DIRECTION
<1>. QED
  BY <1>1, <1>2

-----------------------------------------------------------------------------
LEMMA SetSolo ==
  ASSUME MazeInv, SoloInv, NEW a \in Avatar, Set(a)
  PROVE  SoloInv'
<1>0. Step(a)
  BY DEF Step
<1>1. CASE SetStart(a)
  <2>1. Undisturbed(a)'
    BY <1>1 DEF MazeInv, TypeOK, SetStart, Goto, Undisturbed, FindPC
  <2>2. UNCHANGED <<the_maze, placed>> /\ At(a)' = At(a)
        /\ {pc[a], pc'[a]} \cap {"move_clear", "remove_V"} = {}
    BY <1>1 DEF MazeInv, TypeOK, SetStart, Goto, At, MovePC, locals
  <2>. QED
    BY <1>0, <2>1, <2>2, StillStep
<1>2. CASE SetTry(a)
  <2>1. Undisturbed(a)'
    BY <1>2 DEF MazeInv, TypeOK, SetTry, Goto, Undisturbed, FindPC
  <2>2. UNCHANGED <<the_maze, placed>> /\ At(a)' = At(a)
        /\ {pc[a], pc'[a]} \cap {"move_clear", "remove_V"} = {}
    BY <1>2 DEF MazeInv, TypeOK, SetTry, Goto, At, MovePC, locals
  <2>. QED
    BY <1>0, <2>1, <2>2, StillStep
<1>3. CASE SetWrite(a)
  <2>1. /\ pc[a] = "set_write" /\ pc'[a] = "none" /\ ~placed[a]
        /\ placed'[a] /\ loc'[a] = here[a] /\ here[a] \in Cell
    BY <1>3 DEF SetWrite, Goto, MazeInv, TypeOK, ThreadInv, PlayerInv, SetPC, At, MovePC
  <2>2. Undisturbed(a)'
    BY <2>1 DEF Undisturbed, FindPC
  <2>3. Frame(a)
    BY <1>0, StepFrame DEF MazeInv
  <2>4. \A b \in Avatar \ {a}, c \in Cell : Stands(b, c)' <=> Stands(b, c)
    BY <2>3 DEF Frame, Stands, At, MovePC
  <2>5. \A c \in Cell : ~Stands(a, c) /\ (Stands(a, c)' <=> c = here[a])
    BY <2>1 DEF Stands, At, MovePC
  <2>6. the_maze' = [the_maze EXCEPT ![here[a]] = a]
    BY <1>3 DEF SetWrite, Write
  <2>7. ASSUME ~overlap PROVE InPlace'
    <3>1. InPlace /\ the_maze[here[a]] = EMPTY
      BY <2>1, <2>7 DEF SoloInv, Undisturbed
    <3>2. \A b \in Avatar : ~Stands(b, here[a])
      BY <2>1, <3>1, ObjectAssumption DEF InPlace
    <3>3. the_maze'[here[a]] = a
      BY <2>1, <2>6 DEF MazeInv, TypeOK
    <3>4. \A c \in Cell \ {here[a]} : the_maze'[c] = the_maze[c]
      BY <2>6 DEF MazeInv, TypeOK
    <3>5. \A b \in Avatar, c \in Cell :
            Stands(b, c)' => (IF c = here[a] THEN b = a ELSE Stands(b, c))
      BY <2>4, <2>5, <3>2
    <3>6. \A c \in Cell : (\A b \in Avatar : ~Stands(b, c)') =>
            c # here[a] /\ \A b \in Avatar : ~Stands(b, c)
      BY <2>4, <2>5
    <3>. QED
      BY <2>3, <3>1, <3>3, <3>4, <3>5, <3>6 DEF InPlace, Frame
  <2>. QED
    BY <1>0, <2>2, <2>7, SoloStep
<1>. QED
  BY <1>1, <1>2, <1>3 DEF Set
LEMMA MoveSolo ==
  ASSUME MazeInv, SoloInv, NEW a \in Avatar, Move(a)
  PROVE  SoloInv'
<1>0. Step(a)
  BY DEF Step
<1>1. CASE MoveStart(a) \/ MoveTest(a) \/ MoveOutside(a)
  <2>1. /\ {pc[a], pc'[a]} \subseteq {"none", "move_test", "move_dest"}
        /\ UNCHANGED <<the_maze, placed>>
    BY <1>1 DEF MazeInv, TypeOK, MoveStart, MoveTest, MoveOutside, Goto
  <2>2. Undisturbed(a)'
    BY <2>1 DEF Undisturbed, FindPC
  <2>3. At(a)' = At(a)
    BY <1>1 DEF MazeInv, TypeOK, MoveStart, MoveTest, MoveOutside, TakeBack,
                Goto, At, MovePC, locals
  <2>. QED
    BY <1>0, <2>1, <2>2, <2>3, StillStep
<1>2. CASE MoveDest(a)
  <2>1. /\ pc[a] = "move_dest" /\ UNCHANGED <<the_maze, placed>>
        /\ \/ pc'[a] = "none"
           \/ pc'[a] = "move_read" /\ the_maze'[there'[a]] = EMPTY
    BY <1>2 DEF MazeInv, TypeOK, MoveDest, Goto, IsFree, locals
  <2>2. Undisturbed(a)'
    BY <2>1 DEF Undisturbed, FindPC
  <2>3. At(a)' = At(a)
    BY <1>2 DEF MazeInv, TypeOK, MoveDest, TakeBack, Goto, At, MovePC, locals
  <2>. QED
    BY <1>0, <2>1, <2>2, <2>3, StillStep
<1>3. CASE MoveRead(a)
  <2>1. /\ pc[a] = "move_read" /\ pc'[a] = "move_write"
        /\ UNCHANGED <<the_maze, placed, there>> /\ object'[a] = the_maze[here[a]]
        /\ At(a) = here[a] /\ At(a)' = At(a) /\ placed[a] /\ here[a] \in Cell
    BY <1>3 DEF MoveRead, Goto, MazeInv, TypeOK, ThreadInv, PlayerInv, CellsInv, MovePC, At
  <2>2. ASSUME ~overlap PROVE Undisturbed(a)'
    <3>1. Undisturbed(a) /\ InPlace
      BY <2>2 DEF SoloInv
    <3>2. the_maze[here[a]] = a
      BY <2>1, <3>1 DEF InPlace, Stands
    <3>. QED
      BY <2>1, <3>1, <3>2 DEF Undisturbed, FindPC
  <2>. QED
    BY <1>0, <2>1, <2>2, StillStep
<1>4. CASE MoveWrite(a)
  <2>1. /\ pc[a] = "move_write" /\ pc'[a] = "move_clear"
        /\ UNCHANGED <<placed, there>> /\ there[a] \in Cell /\ At(a)' = At(a)
        /\ the_maze' = [the_maze EXCEPT ![there[a]] = object[a]]
    BY <1>4 DEF MoveWrite, Goto, Write, MazeInv, TypeOK, ThreadInv, CellsInv, Soft,
                At, MovePC, locals
  <2>2. Undisturbed(a)'
    BY <2>1 DEF Undisturbed, FindPC
  <2>3. Frame(a)
    BY <1>0, StepFrame DEF MazeInv
  <2>4. \A b \in Avatar, c \in Cell :
          Stands(b, c)' <=> Stands(b, c) \/ (b = a /\ c = there[a])
    <3>1. \A b \in Avatar \ {a}, c \in Cell : Stands(b, c)' <=> Stands(b, c)
      BY <2>3 DEF Frame, Stands, At, MovePC
    <3>2. \A c \in Cell : Stands(a, c)' <=> Stands(a, c) \/ c = there[a]
      BY <2>1 DEF Stands
    <3>. QED
      BY <3>1, <3>2
  <2>5. ASSUME ~overlap PROVE InPlace'
    <3>1. InPlace /\ the_maze[there[a]] = EMPTY /\ object[a] = a
      BY <2>1, <2>5 DEF SoloInv, Undisturbed
    <3>2. \A b \in Avatar : ~Stands(b, there[a])
      BY <2>1, <3>1, ObjectAssumption DEF InPlace
    <3>3. the_maze'[there[a]] = a
      BY <2>1, <3>1 DEF MazeInv, TypeOK
    <3>4. \A c \in Cell \ {there[a]} : the_maze'[c] = the_maze[c]
      BY <2>1 DEF MazeInv, TypeOK
    <3>. QED
      BY <2>3, <2>4, <3>1, <3>2, <3>3, <3>4 DEF InPlace, Frame
  <2>. QED
    BY <1>0, <2>2, <2>5, SoloStep
<1>5. CASE MoveClear(a)
  <2>1. /\ pc[a] = "move_clear" /\ pc'[a] = "none" /\ placed[a] /\ placed'[a]
        /\ At(a) = here[a] /\ At(a)' = there[a] /\ Soft(here[a])
        /\ the_maze' = [the_maze EXCEPT ![here[a]] = EMPTY]
    BY <1>5 DEF MoveClear, MoveLeaves, Goto, Write, MazeInv, TypeOK, ThreadInv,
                PlayerInv, CellsInv, MovePC, At
  <2>2. there[a] # here[a]
    BY <2>1, AheadIsElsewhere DEF MazeInv, ThreadInv, CellsInv, Adjacent, MovePC, Soft
  <2>3. Undisturbed(a)'
    BY <2>1 DEF Undisturbed, FindPC
  <2>4. Frame(a)
    BY <1>0, StepFrame DEF MazeInv
  <2>5. template[here[a]] = EMPTY
    BY <2>1, TemplateAssumption DEF Soft, MazeInv, TypeOK
  <2>6. ASSUME ~overlap PROVE InPlace'
    <3>1. InPlace
      BY <2>6 DEF SoloInv
    <3>2. the_maze[here[a]] = a
      BY <2>1, <3>1 DEF InPlace, Stands, Soft
    <3>3. \A b \in Avatar \ {a} : ~Stands(b, here[a])
      BY <2>1, <3>1, <3>2 DEF InPlace, Soft
    <3>4. the_maze'[here[a]] = EMPTY
      BY <2>1 DEF MazeInv, TypeOK, Soft
    <3>5. \A c \in Cell \ {here[a]} : the_maze'[c] = the_maze[c]
      BY <2>1 DEF MazeInv, TypeOK
    <3>6. \A b \in Avatar, c \in Cell : Stands(b, c)' <=> Stands(b, c) /\ c # here[a]
      <4>1. \A b \in Avatar \ {a}, c \in Cell : Stands(b, c)' <=> Stands(b, c)
        BY <2>4 DEF Frame, Stands, At, MovePC
      <4>2. \A c \in Cell : Stands(a, c)' <=> Stands(a, c) /\ c # here[a]
        BY <2>1, <2>2 DEF Stands
      <4>. QED
        BY <3>3, <4>1, <4>2
    <3>. QED
      BY <2>4, <2>5, <3>1, <3>4, <3>5, <3>6 DEF InPlace, Frame
  <2>. QED
    BY <1>0, <2>3, <2>6, SoloStep
<1>. QED
  BY <1>1, <1>2, <1>3, <1>4, <1>5 DEF Move

LEMMA RemoveSolo ==
  ASSUME MazeInv, SoloInv, NEW a \in Avatar, Remove(a)
  PROVE  SoloInv'
<1>0. Step(a)
  BY DEF Step
<1>1. CASE RemoveStart(a) \/ RemoveP(a)
  <2> USE <1>1 DEF MazeInv, TypeOK, RemoveStart, RemoveP, Goto
  <2>1. pc'[a] \in {"remove_P", "remove_clear"}
    OBVIOUS
  <2>2. Undisturbed(a)'
    BY <2>1 DEF Undisturbed, FindPC
  <2>3. UNCHANGED <<the_maze, placed>> /\ pc[a] \in {"none", "remove_P"}
    OBVIOUS
  <2>4. At(a)' = At(a)
    BY <2>1, <2>3 DEF At, MovePC
  <2>. QED
    BY <1>0, <2>1, <2>2, <2>3, <2>4, StillStep
<1>2. CASE RemoveClear(a)
  <2>1. /\ pc[a] = "remove_clear" /\ pc'[a] = "remove_V" /\ placed[a] /\ Soft(loc[a])
        /\ UNCHANGED <<placed, loc>>
        /\ the_maze' = [the_maze EXCEPT ![loc[a]] = EMPTY]
    BY <1>2 DEF RemoveClear, RemoveErases, Goto, Write, MazeInv, TypeOK, ThreadInv,
                PlayerInv, RemovePC, At, MovePC
  <2>2. Undisturbed(a)'
    BY <2>1 DEF Undisturbed, FindPC
  <2>3. Frame(a)
    BY <1>0, StepFrame DEF MazeInv
  <2>4. template[loc[a]] = EMPTY
    BY <2>1, TemplateAssumption DEF Soft, MazeInv, TypeOK
  <2>5. ASSUME ~overlap PROVE InPlace'
    <3>1. InPlace
      BY <2>5 DEF SoloInv
    <3>2. the_maze[loc[a]] = a
      BY <2>1, <3>1 DEF InPlace, Stands, Soft, At, MovePC
    <3>3. \A b \in Avatar \ {a} : ~Stands(b, loc[a])
      BY <2>1, <3>1, <3>2 DEF InPlace, Soft
    <3>4. the_maze'[loc[a]] = EMPTY
      BY <2>1 DEF MazeInv, TypeOK, Soft
    <3>5. \A c \in Cell \ {loc[a]} : the_maze'[c] = the_maze[c]
      BY <2>1 DEF MazeInv, TypeOK
    <3>6. \A b \in Avatar, c \in Cell : Stands(b, c)' <=> Stands(b, c) /\ c # loc[a]
      <4>1. \A b \in Avatar \ {a}, c \in Cell : Stands(b, c)' <=> Stands(b, c)
        BY <2>3 DEF Frame, Stands, At, MovePC
      <4>2. \A c \in Cell : Stands(a, c)' <=> Stands(a, c) /\ c # loc[a]
        BY <2>1 DEF Stands, At, MovePC
      <4>. QED
        BY <3>3, <4>1, <4>2
    <3>. QED
      BY <2>3, <2>4, <3>1, <3>4, <3>5, <3>6 DEF InPlace, Frame
  <2>. QED
    BY <1>0, <2>2, <2>5, SoloStep
<1>3. CASE RemoveV(a)
  <2>1. /\ pc[a] = "remove_V" /\ pc'[a] = "none" /\ ~placed'[a] /\ UNCHANGED the_maze
    BY <1>3 DEF RemoveV, Goto, MazeInv, TypeOK
  <2>2. Undisturbed(a)'
    BY <2>1 DEF Undisturbed, FindPC
  <2>3. Frame(a)
    BY <1>0, StepFrame DEF MazeInv
  <2>4. \A b \in Avatar, c \in Cell : Stands(b, c)' <=> Stands(b, c)
    <3>1. \A b \in Avatar \ {a}, c \in Cell : Stands(b, c)' <=> Stands(b, c)
      BY <2>3 DEF Frame, Stands, At, MovePC
    <3>2. \A c \in Cell : ~Stands(a, c) /\ ~Stands(a, c)'
      BY <2>1 DEF Stands, At, MovePC
    <3>. QED
      BY <3>1, <3>2
  <2>5. ~overlap => InPlace'
    BY <2>1, <2>3, <2>4 DEF SoloInv, InPlace, Frame
  <2>. QED
    BY <1>0, <2>2, <2>5, SoloStep
<1>. QED
  BY <1>1, <1>2, <1>3 DEF Remove

LEMMA FindSolo ==
  ASSUME MazeInv, SoloInv, NEW a \in Avatar, Find(a)
  PROVE  SoloInv'
<1>0. Step(a)
  BY DEF Step
<1>1. UNCHANGED <<the_maze, placed, loc>> /\ {pc[a], pc'[a]} \subseteq FindPC \cup {"none"}
      /\ loc[a] \in Cell /\ At(a)' = At(a)
  <2>1. UNCHANGED <<the_maze, placed, loc>> /\ placed[a]
        /\ {pc[a], pc'[a]} \subseteq FindPC \cup {"none"}
    BY DEF Find, FindStart, FindP, FindScan, FindTest, FindV, FindReread, Goto, FindPC,
           MazeInv, TypeOK, ThreadInv, PlayerInv
  <2>2. At(a) = loc[a] /\ At(a)' = loc[a]
    BY <2>1 DEF At, MovePC, FindPC
  <2>. QED
    BY <2>1, <2>2 DEF MazeInv, ThreadInv, PlayerInv, Soft
<1>2. pc[a] \notin {"move_clear", "remove_V"} /\ pc'[a] \notin {"move_clear", "remove_V"}
  BY <1>1 DEF FindPC
<1>3. ASSUME ~overlap, pc'[a] \in FindPC PROVE OnRay(a)'
  <2>1. CASE FindStart(a)
    <3>1. PICK d \in DIRECTION : here'[a] = loc[a] /\ there'[a] = Ahead(loc[a], d, 1)
      BY <2>1 DEF FindStart, MazeInv, TypeOK
    <3>2. here'[a] = Ahead(loc'[a], d, 1 - 1) /\ there'[a] = Ahead(loc'[a], d, 1)
      BY <1>1, <3>1, AheadByNone
    <3>3. Along(a, d, 1)'
      BY <3>2 DEF Along, Ahead
    <3>. QED
      BY <3>3 DEF OnRay
  <2>2. CASE ~FindStart(a)
    <3>1. pc[a] \in FindPC
      BY <2>2 DEF Find, FindP, FindScan, FindTest, FindV, FindReread, Goto, FindPC
    <3>2. PICK d \in DIRECTION, k \in Nat \ {0} : Along(a, d, k)
      BY <1>3, <3>1 DEF SoloInv, Undisturbed, OnRay
    <3>3. \/ here'[a] = here[a] /\ there'[a] = there[a]
          \/ here'[a] = there[a] /\ there'[a] = Further(here[a], there[a])
      BY <2>2, <1>3 DEF Find, FindP, FindScan, FindTest, FindV, FindReread, Goto, FindPC,
                 MazeInv, TypeOK, locals
    <3>4. CASE here'[a] = here[a] /\ there'[a] = there[a]
      <4>1. Along(a, d, k)'
        BY <1>1, <3>2, <3>4 DEF Along, Ahead
      <4>. QED
        BY <4>1 DEF OnRay
    <3>5. CASE here'[a] = there[a] /\ there'[a] = Further(here[a], there[a])
      <4>1. there'[a] = Ahead(loc'[a], d, k + 1)
        BY <1>1, <3>2, <3>5, FurtherOnRay DEF Along
      <4>2. here'[a] = Ahead(loc'[a], d, (k + 1) - 1) /\ k + 1 \in Nat \ {0}
        <5>1. (k + 1) - 1 = k
          OBVIOUS
        <5>. QED
          BY <1>1, <3>2, <3>5, <5>1 DEF Along
      <4>3. Along(a, d, k + 1)'
        BY <4>1, <4>2 DEF Along, Ahead
      <4>. QED
        BY <4>2, <4>3 DEF OnRay
    <3>. QED
      BY <3>3, <3>4, <3>5
  <2>. QED
    BY <2>1, <2>2
<1>4. ASSUME ~overlap, pc'[a] \in {"find_V", "find_reread"}, object'[a] # EMPTY
      PROVE  the_maze'[there'[a]] = object'[a]
  <2>1. CASE FindTest(a)
    BY <1>4, <2>1 DEF FindTest, Target, Goto, MazeInv, TypeOK
  <2>2. CASE FindScan(a)
    BY <1>4, <2>2 DEF FindScan, Goto, MazeInv, TypeOK, ThreadInv, ObjectInv
  <2>3. CASE FindV(a)
    BY <1>4, <2>3 DEF FindV, Goto, MazeInv, TypeOK, SoloInv, Undisturbed, locals
  <2>. QED
    BY <1>4, <2>1, <2>2, <2>3 DEF Find, FindStart, FindP, FindReread, Goto, MazeInv, TypeOK
<1>5. ~overlap => Undisturbed(a)'
  BY <1>1, <1>3, <1>4 DEF Undisturbed, FindPC
<1>. QED
  BY <1>0, <1>1, <1>2, <1>5, StillStep

LEMMA NextSoloInv == MazeInv /\ SoloInv /\ [Next]_vars => SoloInv'
<1> SUFFICES ASSUME MazeInv, SoloInv, [Next]_vars PROVE SoloInv'
  OBVIOUS
<1>1. CASE Next
  BY <1>1, SetSolo, MoveSolo, RemoveSolo, FindSolo DEF Next
<1>2. CASE UNCHANGED vars
  BY <1>2 DEF vars, scenario, locals, SoloInv, OneBusy, InPlace, Stands, Undisturbed,
              OnRay, Along, Ahead, At, MovePC
<1>. QED
  BY <1>1, <1>2

LEMMA SoloInvariant == Spec => [](MazeInv /\ SoloInv)
<1>. QED
  BY InitMazeInv, NextMazeInv, InitSoloInv, NextSoloInv, PTL DEF Spec

\* When operations do not overlap, the array between them is the template
\* with every placed player's avatar, each in a cell of its own, where the
\* player module believes the player to be: for any number of players, any
\* maze and any sequence of placements, moves, removals and shots.
THEOREM MazeAndPlayersAgree == Spec => []MazeMatchesPlayers
<1>1. MazeInv /\ SoloInv => MazeMatchesPlayers
  <2> SUFFICES ASSUME MazeInv, SoloInv, ~overlap, AllIdle, NEW c \in Cell
               PROVE  LET at == {a \in Avatar : placed[a] /\ loc[a] = c}
                      IN  IF at = {} THEN the_maze[c] = template[c]
                          ELSE at = {the_maze[c]}
    BY DEF MazeMatchesPlayers
  <2>1. \A a \in Avatar : Stands(a, c) <=> placed[a] /\ loc[a] = c
    BY DEF AllIdle, Stands, At, MovePC
  <2>. QED
    BY <2>1 DEF SoloInv, InPlace
<1>. QED
  BY <1>1, SoloInvariant, PTL

\* When operations do not overlap, what maze_find_target returns is the avatar
\* of another player who is placed in the cell where the search has ended.
THEOREM TargetFound == Spec => []TargetIsThere
<1>1. MazeInv /\ SoloInv => TargetIsThere
  <2> SUFFICES ASSUME MazeInv, SoloInv, NEW a \in Avatar, ~overlap, pc[a] = "find_reread"
               PROVE  Returned(a) \in {b \in Avatar \ {a} : placed[b] /\ loc[b] = there[a]}
    BY DEF TargetIsThere
  <2>1. /\ object[a] # EMPTY /\ object[a] \in Avatar /\ Soft(there[a])
        /\ loc[a] \in Cell /\ placed[a] /\ At(a) = loc[a]
    BY DEF MazeInv, ThreadInv, PlayerInv, ObjectInv, FindPC, At, MovePC, Soft
  <2>2. InPlace /\ OneBusy /\ the_maze[there[a]] = object[a] /\ OnRay(a)
    BY <2>1 DEF SoloInv, Undisturbed, FindPC
  <2>3. there[a] \in Cell /\ there[a] # loc[a]
    BY <2>1, <2>2, AheadIsElsewhere DEF OnRay, Along, Soft
  <2>4. PICK b \in Avatar : Stands(b, there[a])
    BY <2>1, <2>2, <2>3, TemplateAssumption, ObjectAssumption
       DEF InPlace, MazeInv, TypeOK, Accounted
  <2>5. the_maze[there[a]] = b
    BY <2>2, <2>3, <2>4 DEF InPlace
  <2>6. b # a
    BY <2>1, <2>3, <2>4 DEF Stands
  <2>7. placed[b] /\ loc[b] = there[a]
    BY <2>2, <2>4, <2>6 DEF Stands, OneBusy, At, MovePC
  <2>. QED
    BY <2>5, <2>6, <2>7 DEF Returned
<1>. QED
  BY <1>1, SoloInvariant, PTL
=============================================================================
