---------------------------- MODULE MazeTemplate ----------------------------
(***************************************************************************)
(* How the server gets its maze: main() reads the template file given with *)
(* -t in two passes (src/src/main.c:79-110) and maze_init copies it        *)
(* (src/src/maze.c:12-35).  Module Startup runs these steps in main().     *)
(*                                                                         *)
(* A line of the file is a sequence of objects; whether the last one ends  *)
(* in a newline is part of the input.  Every row gets a buffer as long as  *)
(* the last line, and getline() is told the size of another buffer, one    *)
(* that has held the longest line, so it never makes a row longer.         *)
(* sizeof(template) in maze_init is the size of a pointer, POINTER, not    *)
(* the number of lines.                                                    *)
(*                                                                         *)
(* An access outside a buffer or through NULL sets fault and ends the      *)
(* behaviour; with one exception.  For every file main() uses the slot     *)
(* behind the end of its array of row pointers: the getline() that finds   *)
(* the end of the file is given it (main.c:99), and NULL is stored in it   *)
(* (main.c:104).  What that does depends on the build; the model follows a *)
(* build in which the slot is free, so nothing is said about these two     *)
(* accesses.  That malloc() fails is left out.                             *)
(***************************************************************************)
EXTENDS Integers, Sequences, SequencesExt

CONSTANTS POINTER,   \* sizeof(char **): 8
          Cols,      \* bound: the length of the lines
          MaxLines,  \* bound: the number of lines
          Object,    \* what a line is made of
          LF, NUL,   \* '\n', '\0'
          JUNK       \* what malloc() leaves in a buffer

ASSUME TemplateSizes ==
  /\ POINTER \in Nat \ {0} /\ Cols \in Nat \ {0} /\ MaxLines \in Nat \ {0}
  /\ Object # {} /\ {LF, NUL, JUNK} \cap Object = {} /\ NUL \notin {LF, JUNK}

VARIABLES
  file,       \* the lines of the template file
  newline,    \* the last line ends in a newline
  pc,
  row, col,   \* main(): the number of lines, the length of the last one
  i,          \* the line the current loop is at
  template,   \* main(): the buffers of the rows read
  the_maze,   \* the rows copied
  fault       \* the invalid access that ended the behaviour, or "none"

templateVars == <<file, newline, pc, row, col, i, template, the_maze, fault>>

Char == Object \cup {LF, NUL, JUNK}
Line == BoundedSeq(Object, Cols)

TemplateTypeOK ==
  /\ file \in Seq(Seq(Object)) /\ newline \in BOOLEAN
  /\ pc \in {"start", "count", "read", "init", "free", "ready"}
  /\ row \in 0 .. MaxLines /\ col \in 0 .. Cols + 1
  /\ i \in 0 .. MaxLines + POINTER
  /\ template \in Seq(Seq(Char)) /\ the_maze \in Seq(Seq(Char))
  /\ fault \in {"none", "no_file", "overflow", "no_row", "short_row", "no_port"}

\* A line without newline is not empty.
TemplateInit ==
  /\ file \in BoundedSeq(Line, MaxLines)
  /\ newline \in {b \in BOOLEAN : b \/ (file # <<>> /\ Last(file) # <<>>)}
  /\ pc = "start" /\ row = 0 /\ col = 0 /\ i = 0
  /\ template = <<>> /\ the_maze = <<>> /\ fault = "none"

Faults(what) ==
  /\ fault' = what
  /\ UNCHANGED <<file, newline, pc, row, col, i, template, the_maze>>

\* A step of a loop, or the step to the next one.
Steps(to) == pc' = to /\ UNCHANGED <<file, newline, fault>>

-----------------------------------------------------------------------------
\* The default maze: as many rows as a pointer has bytes, all of one length.
DefaultMaze ==
  [r \in 1 .. POINTER |-> Append([k \in 1 .. Cols |-> CHOOSE o \in Object : TRUE], NUL)]

UseDefault ==
  /\ pc = "start" /\ Steps("init")
  /\ template' = DefaultMaze
  /\ UNCHANGED <<row, col, i, the_maze>>

\* fopen(), whose result is not looked at before getline() uses it.
OpenTemplate ==
  /\ pc = "start"
  /\ \/ Steps("count") /\ UNCHANGED <<row, col, i, template, the_maze>>
     \/ Faults("no_file")

\* Mutant: the terminating '\0' is counted.
GetlineWithNul(n) == Len(file[n]) + 2

\* The value of getline() for line n: the newline counts.
Getline(n) == Len(file[n]) + (IF n < Len(file) \/ newline THEN 1 ELSE 0)

\* First pass: one getline() until the end of the file.
CountLine ==
  /\ pc = "count" /\ row < Len(file) /\ Steps("count")
  /\ row' = row + 1
  /\ col' = Getline(row + 1)
  /\ UNCHANGED <<i, template, the_maze>>

Rewind ==
  /\ pc = "count" /\ row = Len(file) /\ Steps("read")
  /\ UNCHANGED <<row, col, i, template, the_maze>>

\* What the buffer of line n holds after getline().
Buffer(n) ==
  file[n] \o [k \in 1 .. Getline(n) - Len(file[n]) |-> LF] \o <<NUL>>
          \o [k \in 1 .. col - Getline(n) |-> JUNK]

\* Mutant: one too many.
StrippedTwo(n) == Getline(n) - 1

\* template[i][read - 1] = '\0': the last byte goes, newline or not.
Stripped(n) == Getline(n)

\* Second pass; the buffer has col + 1 bytes.  The last getline() finds the end
\* of the file: it is given the slot behind the array, and touches no buffer.
ReadLine ==
  /\ pc = "read" /\ i < Len(file)
  /\ \/ /\ Getline(i + 1) <= col /\ Steps("read")
        /\ template' = Append(template, [Buffer(i + 1) EXCEPT ![Stripped(i + 1)] = NUL])
        /\ i' = i + 1
        /\ UNCHANGED <<row, col, the_maze>>
     \/ Getline(i + 1) > col /\ Faults("overflow")

\* template[i] = NULL, which is stored in the slot behind the array; fclose(); the
\* call of maze_init.
CallInit ==
  /\ pc = "read" /\ i = Len(file) /\ Steps("init")
  /\ i' = 0
  /\ UNCHANGED <<row, col, template, the_maze>>

-----------------------------------------------------------------------------
\* strlen(template[0])
TheCol == SelectInSeq(template[1], LAMBDA c : c = NUL) - 1
TheRow == POINTER

\* One row of maze_init: behind the last row template has NULL.
CopyRow ==
  /\ pc = "init" /\ i < TheRow
  /\ \/ template = <<>> /\ Faults("no_row")
     \/ template # <<>> /\ TheCol > 0 /\ i >= Len(template) /\ Faults("no_row")
     \/ /\ i < Len(template) /\ TheCol > Len(template[i + 1])
        /\ Faults("short_row")
     \/ /\ template # <<>>
        /\ TheCol = 0 \/ (i < Len(template) /\ TheCol <= Len(template[i + 1]))
        /\ the_maze' = Append(the_maze, IF TheCol = 0 THEN <<>>
                                        ELSE SubSeq(template[i + 1], 1, TheCol))
        /\ i' = i + 1
        /\ Steps("init") /\ UNCHANGED <<row, col, template>>

InitDone ==
  /\ pc = "init" /\ i = TheRow /\ Steps("free")
  /\ UNCHANGED <<row, col, i, template, the_maze>>

FreeTemplate ==
  /\ pc = "free" /\ Steps("ready")
  /\ template' = <<>>
  /\ UNCHANGED <<row, col, i, the_maze>>

TemplateStep ==
  /\ fault = "none"
  /\ \/ CountLine \/ Rewind \/ ReadLine \/ CallInit \/ CopyRow \/ InitDone
     \/ FreeTemplate

-----------------------------------------------------------------------------
\* A file that ends in a newline, has a row for every byte of a pointer, none
\* longer than the last one, and none of those shorter than the first.
Fits ==
  /\ newline /\ Len(file) >= POINTER
  /\ \A n \in DOMAIN file : Len(file[n]) <= Len(Last(file))
  /\ \A n \in 1 .. POINTER : Len(file[n]) >= Len(file[1])

FirstRows == [n \in 1 .. POINTER |-> SubSeq(file[n], 1, Len(file[1]))]

\* The template that maze.h:110-113 describes: rows of one length, each ended,
\* and at least one cell.
Rectangular ==
  /\ newline /\ file # <<>> /\ file[1] # <<>>
  /\ \A n \in DOMAIN file : Len(file[n]) = Len(file[1])

DefaultRows == [n \in 1 .. POINTER |-> SubSeq(DefaultMaze[n], 1, Cols)]
=============================================================================
