---------------------------- MODULE StartupProofs ----------------------------
(***************************************************************************)
(* No module is used before it is initialized, no client can connect       *)
(* before SIGHUP shuts the server down in order, and the maze is the       *)
(* template's, for any command line, any template file and any list of     *)
(* addresses, whatever fails.                                              *)
(***************************************************************************)
EXTENDS Startup, SequenceTheorems, WellFoundedInduction, TLAPS

\* The calls of main() at which a module, and the handler, must be there.
Serving == {"Malloc", "Accept", "Pthread_create"}
Handling == Serving \cup {"signal", "Open_listenfd", "terminate"}
AllInitialized == Handling \cup {"sigaction"}
MazeInitialized == AllInitialized \cup {"player_init"}
RegistryInitialized == MazeInitialized \cup {"maze", "mutex_maze"}

\* main() has come to a call only over those before it; and what the sockets
\* tell of a call of open_listenfd is true of main() too, unless the handler
\* has interrupted it.
OrderInv ==
  /\ initialized \subseteq Module
  /\ main_pc \in RegistryInitialized => "registry" \in initialized
  /\ main_pc \in MazeInitialized => "maze" \in initialized
  /\ main_pc \in AllInitialized => "player" \in initialized
  /\ main_pc \in Handling <=> handled
  /\ open_pc # "none" => main_pc \in {"Open_listenfd", "terminate"}
  /\ held # {} => main_pc \in Serving \cup {"terminate"}

LEMMA OrderInit == Init => OrderInv
  BY DEF Init, SocketsInit, NoAddresses, OrderInv, Serving, Handling, AllInitialized,
         MazeInitialized, RegistryInitialized

\* The calls that follow in After.
LEMMA Order ==
  /\ After["getopt"] = "creg_malloc" /\ After["creg_malloc"] = "mutex"
  /\ After["mutex"] = "mutex_e" /\ After["mutex_e"] = "maze"
  /\ After["maze"] = "mutex_maze" /\ After["mutex_maze"] = "player_init"
  /\ After["player_init"] = "sigaction" /\ After["sigaction"] = "signal"
  /\ After["signal"] = "Open_listenfd" /\ After["Open_listenfd"] = "Malloc"
  BY DEF After

\* The caller is given a socket by the step in which the call returns.
LEMMA OnlyLeaveGives ==
  ASSUME OpenCall("listen") \/ OpenStep
  PROVE  held' = held \/ open_pc' = "none"
  BY DEF OpenCall, OpenStep, NewSocket, Attach, CloseSocket, Cleanup, ListenCall,
         Leave, Goto, GoesTo

LEMMA OrderNext == OrderInv /\ [Next]_startupVars => OrderInv'
<1> SUFFICES ASSUME OrderInv, [Next]_startupVars PROVE OrderInv'
  OBVIOUS
<1> USE Order DEF Serving, Handling, AllInitialized, MazeInitialized,
        RegistryInitialized, Module
<1>1. CASE GetOption
  BY <1>1 DEF GetOption, OrderInv, socketVars
<1>2. CASE OptionsDone
  <2>1. main_pc = "getopt" /\ main_pc' \in {"getopt", "creg_malloc"}
    BY <1>2 DEF OptionsDone, Runs, Continues
  <2>. QED
    BY <1>2, <2>1 DEF OptionsDone, SameModules, OrderInv, socketVars
<1>3. ASSUME NEW call, NEW module, InitCall(call, module)
      PROVE  /\ main_pc = call /\ handled' = handled /\ open_pc' = open_pc /\ held' = held
             /\ \/ main_pc' = After[call] /\ initialized' = initialized \cup module
                \/ main_pc' = call /\ initialized' = initialized
  BY <1>3 DEF InitCall, Runs, Continues, socketVars
<1>4. CASE CregInit
  <2>1. CASE InitCall("creg_malloc", {})
    BY <1>3, <2>1 DEF OrderInv
  <2>2. CASE InitCall("mutex", {})
    BY <1>3, <2>2 DEF OrderInv
  <2>3. CASE InitCall("mutex_e", {"registry"})
    <3>1. /\ main_pc = "mutex_e" /\ UNCHANGED <<handled, open_pc, held>>
          /\ \/ main_pc' = "maze" /\ initialized' = initialized \cup {"registry"}
             \/ main_pc' = main_pc /\ initialized' = initialized
      BY <1>3, <2>3
    <3>. QED
      BY <3>1 DEF OrderInv
  <2>. QED
    BY <1>4, <2>1, <2>2, <2>3 DEF CregInit
<1>5. CASE LoadMaze
  <2>1. main_pc = "maze" /\ main_pc' \in {"maze", "mutex_maze"}
    BY <1>5 DEF LoadMaze, Runs
  <2>. QED
    BY <1>5, <2>1 DEF LoadMaze, SameModules, OrderInv, socketVars
<1>6. CASE MazeInitDone
  <2>1. /\ main_pc = "mutex_maze" /\ UNCHANGED <<handled, open_pc, held>>
        /\ \/ main_pc' = "player_init" /\ initialized' = initialized \cup {"maze"}
           \/ main_pc' = main_pc /\ initialized' = initialized
    BY <1>3, <1>6 DEF MazeInitDone
  <2>. QED
    BY <2>1 DEF OrderInv
<1>7. CASE PlayerInit
  <2>1. /\ main_pc = "player_init"
        /\ \/ main_pc' = main_pc /\ initialized' = initialized
           \/ main_pc' = "sigaction" /\ initialized' = initialized \cup {"player"}
    BY <1>7 DEF PlayerInit, Runs
  <2>. QED
    BY <1>7, <2>1 DEF PlayerInit, OrderInv, socketVars
<1>8. CASE InstallHandler
  <2>1. /\ main_pc = "sigaction" /\ main_pc' \in {"sigaction", "signal"}
        /\ main_pc' = "signal" => handled'
        /\ main_pc' = "sigaction" => handled' = handled
    BY <1>8 DEF InstallHandler, Runs, Continues, Exits, RUNNING
  <2>. QED
    BY <1>8, <2>1 DEF InstallHandler, OrderInv, socketVars
<1>9. CASE IgnoreSigpipe
  BY <1>9 DEF IgnoreSigpipe, Runs, SameModules, OrderInv, socketVars
<1>10. CASE OpenListenfd
  <2>1. main_pc = "Open_listenfd" /\ UNCHANGED <<initialized, handled>> /\ held = {}
    BY <1>10 DEF OpenListenfd, Runs, SameModules, OrderInv
  <2>2. CASE /\ OpenCall("listen") \/ OpenStep
             /\ main_pc' = IF held' # {} THEN After["Open_listenfd"] ELSE main_pc
    <3>1. held' = {} \/ open_pc' = "none"
      BY <2>1, <2>2, OnlyLeaveGives
    <3>. QED
      BY <2>1, <2>2, <3>1 DEF OrderInv
  <2>3. CASE UNCHANGED <<main_pc, socketVars>>
    BY <2>1, <2>3 DEF OrderInv, socketVars
  <2>. QED
    BY <1>10, <2>2, <2>3 DEF OpenListenfd
<1>11. CASE AcceptLoop
  <2>1. main_pc \in Serving /\ main_pc' \in Serving
    BY <1>11 DEF AcceptLoop, Runs, Continues
  <2>. QED
    BY <1>11, <2>1 DEF AcceptLoop, SameModules, OrderInv, socketVars
<1>12. CASE SigHup
  <2>1. main_pc' = main_pc \/ (handled /\ main_pc' = "terminate")
    BY <1>12 DEF SigHup
  <2>. QED
    BY <1>12, <2>1 DEF SigHup, SameModules, OrderInv, socketVars
<1>13. CASE UNCHANGED startupVars
  BY <1>13 DEF startupVars, mainVars, socketVars, OrderInv
<1>. QED
  BY <1>1, <1>2, <1>4, <1>5, <1>6, <1>7, <1>8, <1>9, <1>10, <1>11, <1>12, <1>13
     DEF Next, Main

THEOREM StartupOrder == Spec => []OrderInv
  BY OrderInit, OrderNext, PTL DEF Spec

\* Whatever the command line and the template file, whatever fails, and
\* whenever SIGHUP comes: terminate() finds every module initialized, and so
\* does a client, which cannot connect before SIGHUP runs terminate().
THEOREM EverythingInitialized == Spec => []NothingBeforeInit
<1>1. OrderInv => NothingBeforeInit
  <2>1. main_pc \in AllInitialized /\ OrderInv => initialized = Module
    BY DEF OrderInv, Module, MazeInitialized, RegistryInitialized
  <2>. QED
    BY <2>1 DEF OrderInv, NothingBeforeInit, Serving, Handling, AllInitialized
<1>. QED
  BY <1>1, StartupOrder, PTL

-----------------------------------------------------------------------------
(* Sequences                                                               *)

LEMMA LeastNat ==
  ASSUME NEW S \in SUBSET Nat, S # {}
  PROVE  \E m \in S : \A k \in S : m <= k
<1>1. PICK m \in S : \A k \in S : <<k, m>> \notin OpToRel(<, Nat)
  BY NatLessThanWellFounded, WFMin
<1>2. ASSUME NEW k \in S PROVE m <= k
  <2>1. k \in Nat /\ m \in Nat /\ <<k, m>> \in Nat \X Nat
    OBVIOUS
  <2>2. ~(k < m)
    BY <1>1, <2>1 DEF OpToRel
  <2>. QED
    BY <2>1, <2>2
<1>. QED
  BY <1>2

LEMMA MinIs ==
  ASSUME NEW S \in SUBSET Nat, S # {}
  PROVE  Min(S) \in S /\ \A k \in S : Min(S) <= k
<1>1. \E m \in S : \A k \in S : m <= k
  BY LeastNat
<1>. QED
  BY <1>1 DEF Min

\* strlen() of a buffer, by its first '\0'; without one it is not defined.
StrlenOf(s) == SelectInSeq(s, LAMBDA c : c = NUL) - 1

LEMMA StrlenIsInt ==
  ASSUME NEW s \in Seq(Char)
  PROVE  StrlenOf(s) \in Int
<1> DEFINE Is == {k \in 1 .. Len(s) : s[k] = NUL}
<1>1. Is \in SUBSET Nat
  OBVIOUS
<1>2. StrlenOf(s) = (IF Is # {} THEN Min(Is) ELSE 0) - 1
  BY DEF StrlenOf, SelectInSeq
<1> HIDE DEF Is
<1>3. Is # {} => Min(Is) \in Nat
  BY <1>1, MinIs
<1>. QED
  BY <1>2, <1>3

LEMMA FirstNul ==
  ASSUME NEW s \in Seq(Char), NEW m \in Nat, m + 1 <= Len(s), s[m + 1] = NUL,
         \A k \in 1 .. m : s[k] # NUL
  PROVE  StrlenOf(s) = m
<1> DEFINE Is == {k \in 1 .. Len(s) : s[k] = NUL}
<1>1. Is \in SUBSET Nat /\ m + 1 \in Is /\ \A k \in Is : m + 1 <= k
  OBVIOUS
<1>2. StrlenOf(s) = (IF Is # {} THEN Min(Is) ELSE 0) - 1
  BY DEF StrlenOf, SelectInSeq
<1> HIDE DEF Is
<1>3. Min(Is) \in Is /\ Min(Is) <= m + 1
  BY <1>1, MinIs
<1>4. Min(Is) \in Nat /\ m + 1 <= Min(Is)
  BY <1>1, <1>3
<1>5. Min(Is) = m + 1
  BY <1>3, <1>4
<1>. QED
  BY <1>1, <1>2, <1>5

\* A function on 1 .. k grows by its next value.
LEMMA GrowsTo ==
  ASSUME NEW S, NEW k \in Nat, NEW f, \A n \in 1 .. k + 1 : f[n] \in S
  PROVE  Append([n \in 1 .. k |-> f[n]], f[k + 1]) = [n \in 1 .. k + 1 |-> f[n]]
<1> DEFINE s == [n \in 1 .. k |-> f[n]]
           t == [n \in 1 .. k + 1 |-> f[n]]
<1>1. s \in Seq(S) /\ t \in Seq(S) /\ Len(s) = k /\ Len(t) = k + 1 /\ f[k + 1] \in S
  <2>1. k \in Nat /\ k + 1 \in Nat /\ s \in [1 .. k -> S] /\ t \in [1 .. k + 1 -> S]
    OBVIOUS
  <2> HIDE DEF s, t
  <2>2. s \in Seq(S) /\ t \in Seq(S)
    BY <2>1, SeqDef
  <2>3. Len(s) = k /\ Len(t) = k + 1
    BY <2>1, <2>2, LenProperties
  <2>. QED
    BY <2>2, <2>3
<1>2. \A n \in 1 .. k : s[n] = t[n]
  OBVIOUS
<1>3. t[k + 1] = f[k + 1]
  OBVIOUS
<1> HIDE DEF s, t
<1>4. Append(s, f[k + 1]) \in Seq(S) /\ Len(Append(s, f[k + 1])) = k + 1
  BY <1>1, AppendProperties
<1>5. \A n \in 1 .. k + 1 : Append(s, f[k + 1])[n] = t[n]
  <2>1. /\ \A n \in 1 .. k : Append(s, f[k + 1])[n] = s[n]
        /\ Append(s, f[k + 1])[k + 1] = f[k + 1]
    BY <1>1, AppendProperties
  <2>2. \A n \in 1 .. k + 1 : n \in 1 .. k \/ n = k + 1
    OBVIOUS
  <2>. QED
    BY <1>2, <1>3, <2>1, <2>2, Zenon
<1>6. Append(s, f[k + 1]) = t
  BY <1>1, <1>4, <1>5, SeqEqual
<1>. QED
  BY <1>6 DEF s, t

-----------------------------------------------------------------------------
(* The maze                                                                *)

\* The file is one that the server may be started with.
FileInv ==
  /\ file \in Seq(Seq(Object)) /\ Len(file) <= MaxLines
  /\ \A n \in 1 .. Len(file) : Len(file[n]) <= Cols
  /\ newline \in BOOLEAN
  /\ ~newline => Len(file) > 0 /\ Len(file[Len(file)]) > 0

\* What the first pass leaves in col.
LastLength == IF file = <<>> THEN 0 ELSE Getline(Len(file))

\* A buffer has its line and a '\0' behind it, if all lines end in a newline.
RowInv(n) ==
  /\ template[n] \in Seq(Char) /\ Len(template[n]) = LastLength + 1
  /\ newline => /\ \A k \in 1 .. Len(file[n]) : template[n][k] = file[n][k]
                /\ Len(file[n]) + 1 <= LastLength
                /\ template[n][Len(file[n]) + 1] = NUL

Copied(rows) ==
  /\ ~template_file => the_maze = [n \in 1 .. rows |-> DefaultRows[n]]
  /\ template_file /\ Fits => the_maze = [n \in 1 .. rows |-> FirstRows[n]]

\* The two passes over the file and the copying.
CountInv == row <= Len(file) /\ col = IF row = 0 THEN 0 ELSE Getline(row)

ReadInv ==
  /\ col = LastLength /\ i <= Len(file) /\ Len(template) = i
  /\ \A n \in 1 .. i : RowInv(n)

InitInv ==
  /\ i <= POINTER /\ Copied(i)
  /\ ~template_file => template = DefaultMaze
  /\ template_file => Len(template) = Len(file) /\ \A n \in 1 .. Len(file) : RowInv(n)

LoadInv ==
  /\ pc \in {"start", "count"} => i = 0 /\ template = <<>>
  /\ pc \in {"start", "count", "read"} => the_maze = <<>>
  /\ pc = "start" => row = 0 /\ col = 0
  /\ pc \in {"count", "read"} => template_file
  /\ pc = "count" => CountInv
  /\ pc = "read" => ReadInv
  /\ pc = "init" => InitInv
  /\ pc \in {"free", "ready"} => Copied(POINTER)
  /\ template_file /\ Fits => fault \notin {"overflow", "no_row", "short_row"}

TemplateInv == TemplateTypeOK /\ FileInv /\ LoadInv

LEMMA SameFile ==
  ASSUME UNCHANGED <<file, newline>>
  PROVE  /\ FileInv' <=> FileInv
         /\ Fits' <=> Fits
         /\ FirstRows' = FirstRows /\ DefaultRows' = DefaultRows
         /\ DefaultMaze' = DefaultMaze
         /\ \A n : Getline(n)' = Getline(n)
         /\ LastLength' = LastLength
<1>1. \A n : Getline(n)' = Getline(n)
  BY DEF Getline
<1>. QED
  BY <1>1 DEF FileInv, Fits, FirstRows, DefaultRows, DefaultMaze, Last, LastLength, Getline

LEMMA SameRows ==
  ASSUME UNCHANGED <<file, newline, template>>
  PROVE  \A n : RowInv(n)' <=> RowInv(n)
  BY SameFile DEF RowInv

LEMMA SameCopied ==
  ASSUME UNCHANGED <<file, newline, the_maze, template_file>>, NEW n
  PROVE  Copied(n)' <=> Copied(n)
  BY SameFile DEF Copied

LEMMA TemplateFrame ==
  ASSUME TemplateInv, UNCHANGED <<templateVars, template_file>>
  PROVE  TemplateInv'
<1>1. UNCHANGED <<file, newline, pc, row, col, i, template, the_maze, fault, template_file>>
  BY DEF templateVars
<1>2. TemplateTypeOK' /\ FileInv'
  BY <1>1, SameFile DEF TemplateInv, TemplateTypeOK
<1>3. (CountInv' <=> CountInv) /\ (Copied(POINTER)' <=> Copied(POINTER))
  BY <1>1, SameFile, SameCopied DEF CountInv, Getline
<1>4. ReadInv' <=> ReadInv
  BY <1>1, SameFile, SameRows DEF ReadInv
<1>5. InitInv' <=> InitInv
  <2>1. Copied(i)' <=> Copied(i)
    BY <1>1, SameFile DEF Copied
  <2>2. (\A n \in 1 .. Len(file) : RowInv(n))' <=> (\A n \in 1 .. Len(file) : RowInv(n))
    BY <1>1, SameRows
  <2>. QED
    BY <1>1, <2>1, <2>2, SameFile DEF InitInv
<1>6. LoadInv'
  BY <1>1, <1>3, <1>4, <1>5, SameFile DEF TemplateInv, LoadInv
<1>. QED
  BY <1>2, <1>6 DEF TemplateInv

LEMMA GetlineIs ==
  ASSUME FileInv, NEW n \in 1 .. Len(file)
  PROVE  /\ Getline(n) \in Nat /\ Getline(n) > 0 /\ Getline(n) <= Cols + 1
         /\ Len(file[n]) \in Nat
         /\ Getline(n) \in {Len(file[n]), Len(file[n]) + 1}
         /\ newline => Getline(n) = Len(file[n]) + 1
<1>1. file[n] \in Seq(Object) /\ Len(file) \in Nat
  BY LenProperties, ElementOfSeq DEF FileInv
<1>2. Len(file[n]) \in Nat /\ Len(file[n]) <= Cols
  BY <1>1, LenProperties DEF FileInv
<1>3. n < Len(file) \/ n = Len(file)
  BY <1>1
<1>4. CASE n < Len(file) \/ newline
  <2>1. Getline(n) = Len(file[n]) + 1
    BY <1>4 DEF Getline
  <2>. QED
    BY <1>2, <2>1, TemplateSizes
<1>5. CASE ~newline /\ n = Len(file)
  <2>1. ~(n < Len(file)) /\ Len(file[n]) > 0
    BY <1>1, <1>5 DEF FileInv
  <2>2. Getline(n) = Len(file[n]) + 0
    BY <1>5, <2>1, Zenon DEF Getline
  <2>. QED
    BY <1>2, <1>5, <2>1, <2>2, TemplateSizes
<1>. QED
  BY <1>3, <1>4, <1>5 DEF FileInv

LEMMA Constantly ==
  ASSUME NEW S, NEW x \in S, NEW m \in Nat
  PROVE  /\ [k \in 1 .. m |-> x] \in Seq(S)
         /\ Len([k \in 1 .. m |-> x]) = m
<1>1. [k \in 1 .. m |-> x] \in [1 .. m -> S]
  OBVIOUS
<1>2. [k \in 1 .. m |-> x] \in Seq(S)
  BY <1>1, SeqDef
<1>. QED
  BY <1>1, <1>2, LenProperties

\* What ReadLine stores.
LEMMA BufferIs ==
  ASSUME FileInv, NEW n \in 1 .. Len(file), col \in Nat, Getline(n) <= col
  PROVE  LET b == [Buffer(n) EXCEPT ![Stripped(n)] = NUL]
         IN  /\ b \in Seq(Char) /\ Len(b) = col + 1
             /\ newline => /\ \A k \in 1 .. Len(file[n]) : b[k] = file[n][k]
                           /\ b[Len(file[n]) + 1] = NUL
<1> DEFINE g == Getline(n)
           l == Len(file[n])
           e == [k \in 1 .. g - l |-> LF]
           j == [k \in 1 .. col - g |-> JUNK]
           h == file[n] \o e
           z == h \o <<NUL>>
<1>1. /\ g \in Nat /\ g > 0 /\ l \in Nat /\ g - l \in Nat /\ col - g \in Nat
      /\ newline => g = l + 1
  BY GetlineIs
<1>2. file[n] \in Seq(Char)
  <2>1. file[n] \in Seq(Object) /\ Object \subseteq Char
    BY ElementOfSeq DEF FileInv, Char
  <2>. QED
    BY <2>1, SeqMonotonic
<1>3. e \in Seq(Char) /\ Len(e) = g - l
  <2>1. LF \in Char
    BY DEF Char
  <2> HIDE DEF g, l
  <2>. QED
    BY <1>1, <2>1, Constantly
<1>4. j \in Seq(Char) /\ Len(j) = col - g
  <2>1. JUNK \in Char
    BY DEF Char
  <2> HIDE DEF g
  <2>. QED
    BY <1>1, <2>1, Constantly
<1>5. <<NUL>> \in Seq(Char) /\ Len(<<NUL>>) = 1
  BY DEF Char
<1>6. Buffer(n) = z \o j /\ Stripped(n) = g
  BY DEF Buffer, Stripped
<1>7. l = Len(file[n])
  OBVIOUS
<1> HIDE DEF e, j, g, l
<1>8. /\ h \in Seq(Char) /\ Len(h) = g
      /\ \A k \in 1 .. l : h[k] = file[n][k]
  <2>1. /\ h \in Seq(Char) /\ Len(h) = l + (g - l)
        /\ \A k \in 1 .. l + (g - l) : h[k] = IF k <= l THEN file[n][k] ELSE e[k - l]
    BY <1>2, <1>3, <1>7, ConcatProperties
  <2> HIDE DEF h
  <2>. QED
    BY <1>1, <2>1
<1> HIDE DEF h
<1>9. /\ z \in Seq(Char) /\ Len(z) = g + 1
      /\ \A k \in 1 .. g : z[k] = h[k]
  <2>1. /\ z \in Seq(Char) /\ Len(z) = g + 1
        /\ \A k \in 1 .. g + 1 : z[k] = IF k <= g THEN h[k] ELSE <<NUL>>[k - g]
    BY <1>5, <1>8, ConcatProperties
  <2> HIDE DEF z
  <2>. QED
    BY <1>1, <2>1
<1> HIDE DEF z
<1>10. /\ z \o j \in Seq(Char) /\ Len(z \o j) = col + 1
       /\ \A k \in 1 .. g : (z \o j)[k] = z[k]
  <2>1. /\ z \o j \in Seq(Char) /\ Len(z \o j) = (g + 1) + (col - g)
        /\ \A k \in 1 .. (g + 1) + (col - g) :
             (z \o j)[k] = IF k <= g + 1 THEN z[k] ELSE j[k - (g + 1)]
    BY <1>4, <1>9, ConcatProperties
  <2>. QED
    BY <1>1, <2>1
<1> DEFINE w == z \o j
           b == [w EXCEPT ![g] = NUL]
<1>11. /\ b \in Seq(Char) /\ Len(b) = col + 1
       /\ \A k \in 1 .. col + 1 : b[k] = IF k = g THEN NUL ELSE w[k]
  <2>1. g \in 1 .. Len(w) /\ NUL \in Char
    BY <1>1, <1>10 DEF Char, g
  <2>2. w \in Seq(Char) /\ Len(w) = col + 1
    BY <1>10
  <2> HIDE DEF w
  <2>. QED
    BY <2>1, <2>2, ExceptSeq
<1>12. \A k \in 1 .. g : w[k] = z[k]
  BY <1>10
<1> HIDE DEF w, b
<1>13. ASSUME newline
       PROVE  (\A k \in 1 .. l : b[k] = file[n][k]) /\ b[l + 1] = NUL
  <2>1. g = l + 1 /\ g <= col
    BY <1>1, <1>13 DEF g
  <2>2. b[l + 1] = NUL
    BY <1>1, <1>11, <2>1
  <2>3. ASSUME NEW k \in 1 .. l PROVE b[k] = file[n][k]
    <3>1. k \in 1 .. col + 1 /\ k # g /\ k \in 1 .. g
      BY <1>1, <2>1
    <3>. QED
      BY <1>8, <1>9, <1>11, <1>12, <3>1
  <2>. QED
    BY <2>2, <2>3
<1>. QED
  BY <1>6, <1>7, <1>11, <1>13 DEF b, w

LEMMA DefaultIs ==
  /\ DefaultMaze \in Seq(Seq(Char)) /\ Len(DefaultMaze) = POINTER
  /\ \A r \in 1 .. POINTER :
       /\ DefaultMaze[r] \in Seq(Char) /\ Len(DefaultMaze[r]) = Cols + 1
       /\ DefaultMaze[r][Cols + 1] = NUL
       /\ \A k \in 1 .. Cols : DefaultMaze[r][k] # NUL
<1> USE TemplateSizes
<1> DEFINE object == CHOOSE o \in Object : TRUE
           plain == [k \in 1 .. Cols |-> object]
           line == Append(plain, NUL)
<1>1. object \in Object
  OBVIOUS
<1>2. object \in Char /\ NUL \in Char /\ object # NUL
  BY <1>1 DEF Char
<1>3. plain \in Seq(Char) /\ Len(plain) = Cols /\ \A k \in 1 .. Cols : plain[k] # NUL
  <2> HIDE DEF object
  <2>. QED
    BY <1>2, Constantly
<1>4. DefaultMaze = [r \in 1 .. POINTER |-> line]
  BY DEF DefaultMaze
<1> HIDE DEF plain
<1>5. /\ line \in Seq(Char) /\ Len(line) = Cols + 1 /\ line[Cols + 1] = NUL
      /\ \A k \in 1 .. Cols : line[k] # NUL
  BY <1>2, <1>3, AppendProperties
<1> HIDE DEF line
<1>6. DefaultMaze \in Seq(Seq(Char)) /\ Len(DefaultMaze) = POINTER
  BY <1>4, <1>5, Constantly
<1>. QED
  BY <1>4, <1>5, <1>6

LEMMA DefaultRowsIs ==
  \A r \in 1 .. POINTER : DefaultRows[r] = SubSeq(DefaultMaze[r], 1, Cols)
  BY DEF DefaultRows

\* Under Fits the rows of the file are as wide as the first one.
LEMMA FirstRowsIs ==
  \A r \in 1 .. POINTER : FirstRows[r] = SubSeq(file[r], 1, Len(file[1]))
  BY DEF FirstRows

LEMMA PartOf ==
  ASSUME NEW S, NEW s \in Seq(S), NEW m \in Int, m <= Len(s)
  PROVE  SubSeq(s, 1, m) \in Seq(S)
<1>1. \A k \in 1 .. m : s[k] \in S
  BY LenProperties, ElementOfSeq
<1>. QED
  BY <1>1, SubSeqProperties

\* Nothing is copied yet.
LEMMA CopiedNothing ==
  ASSUME the_maze = <<>> PROVE Copied(0)
  BY DEF Copied

LEMMA UseDefaultStep ==
  ASSUME TemplateInv, UseDefault, ~template_file, UNCHANGED template_file
  PROVE  TemplateInv'
<1>1. /\ pc = "start" /\ pc' = "init" /\ template' = DefaultMaze /\ i' = i /\ i = 0
      /\ the_maze' = the_maze /\ the_maze = <<>>
      /\ UNCHANGED <<file, newline, row, col, fault>>
  BY DEF UseDefault, Steps, TemplateInv, LoadInv
<1>2. TemplateTypeOK' /\ FileInv'
  BY <1>1, DefaultIs, SameFile DEF TemplateInv, TemplateTypeOK
<1>3. Copied(i)'
  <2>1. Copied(0)'
    BY <1>1, SameCopied, CopiedNothing
  <2>. QED
    BY <1>1, <2>1 DEF Copied
<1>4. InitInv'
  BY <1>1, <1>3, SameFile, TemplateSizes DEF InitInv
<1>. QED
  BY <1>1, <1>2, <1>4, SameFile DEF TemplateInv, LoadInv

LEMMA FaultsStep ==
  ASSUME TemplateInv, UNCHANGED template_file,
         NEW what \in {"no_file", "overflow", "no_row", "short_row", "no_port"}, Faults(what),
         template_file /\ Fits => what \in {"no_file", "no_port"}
  PROVE  TemplateInv'
<1>1. /\ UNCHANGED <<file, newline, pc, row, col, i, template, the_maze, template_file>>
      /\ fault' = what
  BY DEF Faults
<1>2. TemplateTypeOK' /\ FileInv'
  BY <1>1, SameFile DEF TemplateInv, TemplateTypeOK
<1>3. (CountInv' <=> CountInv) /\ (Copied(POINTER)' <=> Copied(POINTER))
  BY <1>1, SameFile, SameCopied DEF CountInv, Getline
<1>4. ReadInv' <=> ReadInv
  BY <1>1, SameFile, SameRows DEF ReadInv
<1>5. InitInv' <=> InitInv
  <2>1. Copied(i)' <=> Copied(i)
    BY <1>1, SameFile DEF Copied
  <2>2. (\A n \in 1 .. Len(file) : RowInv(n))' <=> (\A n \in 1 .. Len(file) : RowInv(n))
    BY <1>1, SameRows
  <2>. QED
    BY <1>1, <2>1, <2>2, SameFile DEF InitInv
<1>6. LoadInv'
  BY <1>1, <1>3, <1>4, <1>5, SameFile DEF TemplateInv, LoadInv
<1>. QED
  BY <1>2, <1>6 DEF TemplateInv

LEMMA OpenTemplateStep ==
  ASSUME TemplateInv, OpenTemplate, template_file, UNCHANGED template_file
  PROVE  TemplateInv'
<1>1. CASE Faults("no_file")
  BY <1>1, FaultsStep
<1>2. CASE Steps("count") /\ UNCHANGED <<row, col, i, template, the_maze>>
  <2>1. /\ pc = "start" /\ pc' = "count" /\ row = 0 /\ col = 0 /\ i = 0 /\ template = <<>>
        /\ the_maze = <<>>
        /\ UNCHANGED <<file, newline, row, col, i, template, the_maze, fault>>
    BY <1>2 DEF OpenTemplate, Steps, TemplateInv, LoadInv
  <2>2. TemplateTypeOK' /\ FileInv'
    BY <2>1, SameFile DEF TemplateInv, TemplateTypeOK
  <2>3. CountInv'
    BY <2>1, LenProperties DEF CountInv, TemplateInv, FileInv
  <2>. QED
    BY <2>1, <2>2, <2>3, SameFile DEF TemplateInv, LoadInv
<1>. QED
  BY <1>1, <1>2 DEF OpenTemplate

LEMMA CountLineStep ==
  ASSUME TemplateInv, CountLine, UNCHANGED template_file
  PROVE  TemplateInv'
<1>1. /\ pc = "count" /\ pc' = "count" /\ row < Len(file) /\ row' = row + 1
      /\ col' = Getline(row + 1) /\ i = 0 /\ template = <<>> /\ the_maze = <<>>
      /\ UNCHANGED <<file, newline, i, template, the_maze, fault>>
  BY DEF CountLine, Steps, TemplateInv, LoadInv
<1>2. row \in Nat /\ Len(file) \in Nat /\ Len(file) <= MaxLines /\ row + 1 \in 1 .. Len(file)
  BY <1>1, LenProperties DEF TemplateInv, TemplateTypeOK, FileInv
<1>3. Getline(row + 1) \in Nat /\ Getline(row + 1) <= Cols + 1
  BY <1>2, GetlineIs DEF TemplateInv
<1>4. TemplateTypeOK' /\ FileInv'
  BY <1>1, <1>2, <1>3, SameFile, TemplateSizes DEF TemplateInv, TemplateTypeOK
<1>5. CountInv'
  <2>1. row' <= Len(file') /\ row' # 0
    BY <1>1, <1>2
  <2>2. col' = Getline(row)'
    BY <1>1 DEF Getline
  <2>. QED
    BY <2>1, <2>2 DEF CountInv
<1>. QED
  BY <1>1, <1>4, <1>5, SameFile DEF TemplateInv, LoadInv

LEMMA RewindStep ==
  ASSUME TemplateInv, Rewind, UNCHANGED template_file
  PROVE  TemplateInv'
<1>1. /\ pc = "count" /\ pc' = "read" /\ row = Len(file) /\ i = 0 /\ template = <<>>
      /\ the_maze = <<>>
      /\ UNCHANGED <<file, newline, row, col, i, template, the_maze, fault>>
  BY DEF Rewind, Steps, TemplateInv, LoadInv
<1>2. TemplateTypeOK' /\ FileInv'
  BY <1>1, SameFile DEF TemplateInv, TemplateTypeOK
<1>3. Len(file) \in Nat /\ (file = <<>> <=> Len(file) = 0)
  BY LenProperties, EmptySeq DEF TemplateInv, FileInv
<1>4. col = LastLength
  BY <1>1, <1>3 DEF TemplateInv, LoadInv, CountInv, LastLength
<1>5. ReadInv'
  BY <1>1, <1>3, <1>4, SameFile DEF ReadInv
<1>. QED
  BY <1>1, <1>2, <1>5, SameFile DEF TemplateInv, LoadInv

\* The buffer of the next line joins the others.
LEMMA ReadLineStep ==
  ASSUME TemplateInv, ReadLine, UNCHANGED template_file
  PROVE  TemplateInv'
<1>1. /\ pc = "read" /\ i < Len(file) /\ col = LastLength /\ Len(template) = i
      /\ the_maze = <<>> /\ \A n \in 1 .. i : RowInv(n)
  BY DEF ReadLine, TemplateInv, LoadInv, ReadInv
<1>2. /\ i \in Nat /\ col \in Nat /\ Len(file) \in Nat /\ i + 1 \in 1 .. Len(file)
      /\ Len(file) <= MaxLines
  BY <1>1, LenProperties DEF TemplateInv, TemplateTypeOK, FileInv
<1>3. CASE Getline(i + 1) > col /\ Faults("overflow")
  <2>1. ASSUME Fits PROVE FALSE
    <3>1. newline /\ Len(file[i + 1]) <= Len(file[Len(file)])
      BY <1>2, <2>1, LenProperties DEF Fits, Last, TemplateInv, FileInv
    <3>2. /\ Getline(i + 1) = Len(file[i + 1]) + 1 /\ Len(file[i + 1]) \in Nat
          /\ Getline(Len(file)) = Len(file[Len(file)]) + 1 /\ Len(file[Len(file)]) \in Nat
      BY <1>2, <3>1, GetlineIs DEF TemplateInv
    <3>3. col = Getline(Len(file))
      BY <1>1, <1>2, EmptySeq DEF LastLength
    <3>. QED
      BY <1>3, <3>1, <3>2, <3>3
  <2>. QED
    BY <1>3, <2>1, FaultsStep
<1>4. CASE Getline(i + 1) <= col /\ pc' # "none" /\ fault' = fault /\ i' = i + 1
  <2> DEFINE b == [Buffer(i + 1) EXCEPT ![Stripped(i + 1)] = NUL]
  <2>1. /\ pc' = "read" /\ template' = Append(template, b)
        /\ UNCHANGED <<file, newline, row, col, the_maze, fault>>
    BY <1>2, <1>4 DEF ReadLine, Steps, Faults
  <2>2. /\ b \in Seq(Char) /\ Len(b) = col + 1
        /\ newline => /\ \A k \in 1 .. Len(file[i + 1]) : b[k] = file[i + 1][k]
                      /\ b[Len(file[i + 1]) + 1] = NUL
    BY <1>2, <1>4, BufferIs DEF TemplateInv
  <2> HIDE DEF b
  <2>3. /\ template' \in Seq(Seq(Char)) /\ Len(template') = i + 1
        /\ \A n \in 1 .. i : template'[n] = template[n]
        /\ template'[i + 1] = b
    <3>1. template \in Seq(Seq(Char)) /\ Len(template) = i /\ b \in Seq(Char)
      BY <1>1, <2>2 DEF TemplateInv, TemplateTypeOK
    <3>. QED
      BY <2>1, <3>1, AppendProperties
  <2>4. TemplateTypeOK' /\ FileInv'
    BY <1>1, <1>2, <1>4, <2>1, <2>3, SameFile, TemplateSizes DEF TemplateInv, TemplateTypeOK
  <2>5. ASSUME NEW n \in 1 .. i PROVE RowInv(n)'
    BY <1>1, <2>1, <2>3, SameFile DEF RowInv
  <2>6. /\ template'[i + 1] \in Seq(Char) /\ Len(template'[i + 1]) = LastLength + 1
        /\ newline => /\ \A k \in 1 .. Len(file[i + 1]) : template'[i + 1][k] = file[i + 1][k]
                      /\ Len(file[i + 1]) + 1 <= LastLength
                      /\ template'[i + 1][Len(file[i + 1]) + 1] = NUL
    BY <1>1, <1>2, <1>4, <2>2, <2>3, GetlineIs DEF TemplateInv
  <2>7. \A n \in 1 .. i + 1 : RowInv(n)'
    <3>1. \A n \in 1 .. i + 1 : n \in 1 .. i \/ n = i + 1
      BY <1>2
    <3>2. ASSUME NEW n, n = i + 1 PROVE RowInv(n)'
      BY <2>1, <2>6, <3>2, SameFile DEF RowInv
    <3>. QED
      BY <2>5, <3>1, <3>2
  <2>8. ReadInv'
    BY <1>1, <1>2, <1>4, <2>1, <2>3, <2>7, SameFile DEF ReadInv
  <2>. QED
    BY <1>1, <2>1, <2>4, <2>8, SameFile DEF TemplateInv, LoadInv
<1>. QED
  BY <1>3, <1>4 DEF ReadLine, Steps

LEMMA CallInitStep ==
  ASSUME TemplateInv, CallInit, UNCHANGED template_file
  PROVE  TemplateInv'
<1>1. /\ pc = "read" /\ pc' = "init" /\ i = Len(file) /\ i' = 0
      /\ Len(template) = i /\ the_maze = <<>> /\ template_file
      /\ UNCHANGED <<file, newline, row, col, template, the_maze, fault>>
      /\ \A n \in 1 .. i : RowInv(n)
  BY DEF CallInit, Steps, TemplateInv, LoadInv, ReadInv
<1>2. TemplateTypeOK' /\ FileInv'
  BY <1>1, SameFile, TemplateSizes DEF TemplateInv, TemplateTypeOK
<1>3. Copied(i)'
  <2>1. Copied(0)'
    BY <1>1, SameCopied, CopiedNothing
  <2>. QED
    BY <1>1, <2>1 DEF Copied
<1>4. (\A n \in 1 .. Len(file) : RowInv(n))'
  BY <1>1, SameRows
<1>5. InitInv'
  BY <1>1, <1>3, <1>4, SameFile, TemplateSizes DEF InitInv
<1>. QED
  BY <1>1, <1>2, <1>5, SameFile DEF TemplateInv, LoadInv

LEMMA InitDoneStep ==
  ASSUME TemplateInv, InitDone, UNCHANGED template_file
  PROVE  TemplateInv'
<1>1. /\ pc = "init" /\ pc' = "free" /\ i = POINTER
      /\ UNCHANGED <<file, newline, row, col, i, template, the_maze, fault>> /\ Copied(i)
  BY DEF InitDone, Steps, TheRow, TemplateInv, LoadInv, InitInv
<1>2. TemplateTypeOK' /\ FileInv'
  BY <1>1, SameFile DEF TemplateInv, TemplateTypeOK
<1>3. Copied(POINTER)'
  BY <1>1, SameCopied
<1>. QED
  BY <1>1, <1>2, <1>3, SameFile DEF TemplateInv, LoadInv

LEMMA FreeTemplateStep ==
  ASSUME TemplateInv, FreeTemplate, UNCHANGED template_file
  PROVE  TemplateInv'
<1>1. /\ pc = "free" /\ pc' = "ready" /\ template' = <<>> /\ Copied(POINTER)
      /\ UNCHANGED <<file, newline, row, col, i, the_maze, fault>>
  BY DEF FreeTemplate, Steps, TemplateInv, LoadInv
<1>2. TemplateTypeOK' /\ FileInv'
  BY <1>1, SameFile, EmptySeq DEF TemplateInv, TemplateTypeOK
<1>3. Copied(POINTER)'
  BY <1>1, SameCopied
<1>. QED
  BY <1>1, <1>2, <1>3, SameFile DEF TemplateInv, LoadInv

LEMMA SameStart ==
  ASSUME NEW S, NEW s \in Seq(S), NEW t \in Seq(S), NEW m \in Nat,
         m <= Len(s), m <= Len(t), \A k \in 1 .. m : s[k] = t[k]
  PROVE  SubSeq(s, 1, m) = SubSeq(t, 1, m)
<1>1. (\A k \in 1 .. m : s[k] \in S) /\ (\A k \in 1 .. m : t[k] \in S)
  BY LenProperties, ElementOfSeq
<1>2. /\ SubSeq(s, 1, m) \in Seq(S) /\ Len(SubSeq(s, 1, m)) = m
      /\ \A k \in 1 .. m : SubSeq(s, 1, m)[k] = s[k]
  <2>1. /\ SubSeq(s, 1, m) \in Seq(S)
        /\ Len(SubSeq(s, 1, m)) = IF 1 <= m THEN m - 1 + 1 ELSE 0
        /\ \A k \in 1 .. m - 1 + 1 : SubSeq(s, 1, m)[k] = s[1 + k - 1]
    BY <1>1, SubSeqProperties
  <2>2. m - 1 + 1 = m /\ \A k \in 1 .. m : 1 + k - 1 = k
    OBVIOUS
  <2>. QED
    BY <2>1, <2>2
<1>3. /\ SubSeq(t, 1, m) \in Seq(S) /\ Len(SubSeq(t, 1, m)) = m
      /\ \A k \in 1 .. m : SubSeq(t, 1, m)[k] = t[k]
  <2>1. /\ SubSeq(t, 1, m) \in Seq(S)
        /\ Len(SubSeq(t, 1, m)) = IF 1 <= m THEN m - 1 + 1 ELSE 0
        /\ \A k \in 1 .. m - 1 + 1 : SubSeq(t, 1, m)[k] = t[1 + k - 1]
    BY <1>1, SubSeqProperties
  <2>2. m - 1 + 1 = m /\ \A k \in 1 .. m : 1 + k - 1 = k
    OBVIOUS
  <2>. QED
    BY <2>1, <2>2
<1>. QED
  BY <1>2, <1>3, SeqEqual

\* What maze_init measures and copies in the default maze,
LEMMA DefaultCopies ==
  ASSUME InitInv, ~template_file
  PROVE  /\ TheCol = Cols /\ Len(template) = POINTER
         /\ \A n \in 1 .. POINTER : /\ template[n] \in Seq(Char) /\ Cols <= Len(template[n])
                                    /\ SubSeq(template[n], 1, Cols) = DefaultRows[n]
<1>1. template = DefaultMaze
  BY DEF InitInv
<1>2. 1 \in 1 .. POINTER
  BY TemplateSizes
<1>3. StrlenOf(DefaultMaze[1]) = Cols
  <2>1. /\ DefaultMaze[1] \in Seq(Char) /\ Len(DefaultMaze[1]) = Cols + 1
        /\ DefaultMaze[1][Cols + 1] = NUL
        /\ \A k \in 1 .. Cols : DefaultMaze[1][k] # NUL
    BY <1>2, DefaultIs
  <2>. QED
    BY <2>1, FirstNul, TemplateSizes
<1>4. TheCol = StrlenOf(template[1])
  BY DEF TheCol, StrlenOf
<1>. QED
  BY <1>1, <1>3, <1>4, DefaultIs, DefaultRowsIs, TemplateSizes

\* and in the lines of a file that fits.
LEMMA FirstCopies ==
  ASSUME FileInv, InitInv, template_file, Fits
  PROVE  /\ TheCol = Len(file[1]) /\ TheCol \in Nat
         /\ Len(template) \in Nat /\ POINTER <= Len(template)
         /\ \A n \in 1 .. POINTER : /\ template[n] \in Seq(Char) /\ TheCol <= Len(template[n])
                                    /\ SubSeq(template[n], 1, TheCol) = FirstRows[n]
                                    /\ FirstRows[n] \in Seq(Char)
<1>1. /\ newline /\ Len(template) = Len(file) /\ Len(file) \in Nat /\ POINTER <= Len(file)
      /\ \A n \in 1 .. Len(file) : RowInv(n)
  BY LenProperties, TemplateSizes DEF InitInv, Fits, FileInv
<1>2. ASSUME NEW n \in 1 .. Len(file)
      PROVE  /\ file[n] \in Seq(Char) /\ Len(file[n]) \in Nat
             /\ template[n] \in Seq(Char) /\ Len(template[n]) \in Nat
             /\ Len(file[n]) + 1 <= Len(template[n])
             /\ template[n][Len(file[n]) + 1] = NUL
             /\ \A k \in 1 .. Len(file[n]) : template[n][k] = file[n][k] /\ template[n][k] # NUL
  <2>1. file[n] \in Seq(Object) /\ Object \subseteq Char
    BY ElementOfSeq DEF FileInv, Char
  <2>2. file[n] \in Seq(Char) /\ Len(file[n]) \in Nat
    BY <2>1, SeqMonotonic, LenProperties
  <2>3. \A k \in 1 .. Len(file[n]) : file[n][k] # NUL
    BY <2>1, ElementOfSeq, TemplateSizes
  <2>4. /\ template[n] \in Seq(Char) /\ Len(template[n]) = LastLength + 1
        /\ \A k \in 1 .. Len(file[n]) : template[n][k] = file[n][k]
        /\ Len(file[n]) + 1 <= LastLength
        /\ template[n][Len(file[n]) + 1] = NUL
    BY <1>1 DEF RowInv
  <2>5. LastLength \in Nat
    <3>1. file # <<>> /\ Len(file) \in 1 .. Len(file)
      BY <1>1, EmptySeq
    <3>. QED
      BY <3>1, GetlineIs DEF LastLength
  <2>. QED
    BY <2>2, <2>3, <2>4, <2>5
<1>3. 1 \in 1 .. POINTER /\ 1 \in 1 .. Len(file) /\ 1 .. POINTER \subseteq 1 .. Len(file)
  BY <1>1, TemplateSizes
<1>4. TheCol = Len(file[1])
  <2>1. TheCol = StrlenOf(template[1])
    BY DEF TheCol, StrlenOf
  <2>2. /\ template[1] \in Seq(Char) /\ Len(file[1]) \in Nat
        /\ Len(file[1]) + 1 <= Len(template[1])
        /\ template[1][Len(file[1]) + 1] = NUL
        /\ \A k \in 1 .. Len(file[1]) : template[1][k] # NUL
    BY <1>2, <1>3
  <2>. QED
    BY <2>1, <2>2, FirstNul
<1>5. ASSUME NEW n \in 1 .. POINTER
      PROVE  /\ template[n] \in Seq(Char) /\ TheCol <= Len(template[n])
             /\ SubSeq(template[n], 1, TheCol) = FirstRows[n]
             /\ FirstRows[n] \in Seq(Char)
  <2>1. Len(file[1]) <= Len(file[n]) /\ n \in 1 .. Len(file)
    BY <1>1, <1>3 DEF Fits
  <2>2. /\ template[n] \in Seq(Char) /\ file[n] \in Seq(Char)
        /\ TheCol \in Nat /\ TheCol <= Len(template[n]) /\ TheCol <= Len(file[n])
        /\ \A k \in 1 .. TheCol : template[n][k] = file[n][k]
    BY <1>2, <1>3, <1>4, <2>1
  <2>3. SubSeq(template[n], 1, TheCol) = SubSeq(file[n], 1, TheCol)
    BY <2>2, SameStart
  <2>4. SubSeq(file[n], 1, TheCol) \in Seq(Char)
    BY <2>2, PartOf
  <2>. QED
    BY <1>4, <2>2, <2>3, <2>4, FirstRowsIs
<1>. QED
  BY <1>1, <1>2, <1>3, <1>4, <1>5

\* maze_init copies one row, or has none to copy.
LEMMA CopyRowStep ==
  ASSUME TemplateInv, CopyRow, UNCHANGED template_file
  PROVE  TemplateInv'
<1>1. /\ pc = "init" /\ i \in Nat /\ i < POINTER /\ POINTER \in Nat /\ InitInv /\ FileInv
      /\ template \in Seq(Seq(Char)) /\ Len(template) \in Nat
  BY TemplateSizes, LenProperties
     DEF CopyRow, TheRow, TemplateInv, TemplateTypeOK, LoadInv
<1>2. i + 1 \in 1 .. POINTER
  BY <1>1
<1>3. CASE template = <<>> /\ Faults("no_row")
  <2>1. Len(template) = 0
    BY <1>3, EmptySeq
  <2>2. ~(template_file /\ Fits)
    BY <1>1, <2>1, FirstCopies
  <2>. QED
    BY <1>3, <2>2, FaultsStep
<1>4. CASE template # <<>> /\ TheCol > 0 /\ i >= Len(template) /\ Faults("no_row")
  <2>1. ~(template_file /\ Fits)
    BY <1>1, <1>4, FirstCopies
  <2>. QED
    BY <1>4, <2>1, FaultsStep
<1>5. CASE i < Len(template) /\ TheCol > Len(template[i + 1]) /\ Faults("short_row")
  <2>1. ~(template_file /\ Fits)
    <3> SUFFICES ASSUME template_file, Fits PROVE FALSE
      OBVIOUS
    <3>1. TheCol \in Nat /\ TheCol <= Len(template[i + 1]) /\ template[i + 1] \in Seq(Char)
      BY <1>1, <1>2, FirstCopies
    <3>2. Len(template[i + 1]) \in Nat
      BY <3>1, LenProperties
    <3>. QED
      BY <1>5, <3>1, <3>2
  <2>. QED
    BY <1>5, <2>1, FaultsStep
<1> DEFINE x == IF TheCol = 0 THEN <<>> ELSE SubSeq(template[i + 1], 1, TheCol)
<1>6. CASE /\ template # <<>>
           /\ TheCol = 0 \/ (i < Len(template) /\ TheCol <= Len(template[i + 1]))
           /\ the_maze' = Append(the_maze, x)
           /\ i' = i + 1
           /\ Steps("init") /\ UNCHANGED <<row, col, template>>
  <2>1. /\ pc' = "init" /\ i' = i + 1 /\ the_maze' = Append(the_maze, x)
        /\ UNCHANGED <<file, newline, row, col, template, fault, template_file>>
    BY <1>6 DEF Steps
  <2>2. x \in Seq(Char)
    <3>1. CASE TheCol = 0
      BY <3>1, EmptySeq
    <3>2. CASE TheCol # 0
      <4>1. 1 \in 1 .. Len(template) /\ i + 1 \in 1 .. Len(template)
        BY <1>1, <1>6, <3>2
      <4>2. template[1] \in Seq(Char) /\ template[i + 1] \in Seq(Char)
        BY <1>1, <4>1, ElementOfSeq
      <4>3. TheCol = StrlenOf(template[1])
        BY DEF TheCol, StrlenOf
      <4>4. TheCol \in Int /\ TheCol <= Len(template[i + 1])
        BY <1>6, <3>2, <4>2, <4>3, StrlenIsInt
      <4>5. SubSeq(template[i + 1], 1, TheCol) \in Seq(Char)
        BY <4>2, <4>4, PartOf
      <4>. QED
        BY <3>2, <4>5
    <3>. QED
      BY <3>1, <3>2
  <2>3. the_maze' \in Seq(Seq(Char))
    <3>1. the_maze \in Seq(Seq(Char))
      BY DEF TemplateInv, TemplateTypeOK
    <3> HIDE DEF x
    <3>. QED
      BY <2>1, <2>2, <3>1, AppendProperties
  <2>4. TemplateTypeOK' /\ FileInv'
    BY <1>1, <2>1, <2>3, SameFile, TemplateSizes DEF TemplateInv, TemplateTypeOK
  <2>5. ASSUME ~template_file PROVE the_maze' = [n \in 1 .. i + 1 |-> DefaultRows[n]]
    <3>1. /\ TheCol = Cols /\ x = DefaultRows[i + 1]
          /\ the_maze = [n \in 1 .. i |-> DefaultRows[n]]
      BY <1>1, <1>2, <2>5, DefaultCopies, TemplateSizes DEF InitInv, Copied
    <3>2. ASSUME NEW n \in 1 .. i + 1 PROVE DefaultRows[n] \in Seq(Char)
      <4>1. n \in 1 .. POINTER
        BY <1>1
      <4>2. DefaultMaze[n] \in Seq(Char) /\ Cols \in Int /\ Cols <= Len(DefaultMaze[n])
        BY <4>1, DefaultIs, TemplateSizes
      <4>. QED
        BY <4>1, <4>2, DefaultRowsIs, PartOf
    <3> HIDE DEF x
    <3>. QED
      BY <1>1, <2>1, <3>1, <3>2, GrowsTo
  <2>6. ASSUME template_file, Fits PROVE the_maze' = [n \in 1 .. i + 1 |-> FirstRows[n]]
    <3>1. /\ TheCol \in Nat /\ SubSeq(template[i + 1], 1, TheCol) = FirstRows[i + 1]
          /\ template[i + 1] \in Seq(Char)
          /\ the_maze = [n \in 1 .. i |-> FirstRows[n]]
      BY <1>1, <1>2, <2>6, FirstCopies DEF InitInv, Copied
    <3>2. x = FirstRows[i + 1]
      <4>1. TheCol = 0 => SubSeq(template[i + 1], 1, TheCol) = <<>>
        BY SubSeqEmpty
      <4>. QED
        BY <3>1, <4>1
    <3>3. ASSUME NEW n \in 1 .. i + 1 PROVE FirstRows[n] \in Seq(Char)
      <4>1. n \in 1 .. POINTER
        BY <1>1
      <4>. QED
        BY <1>1, <2>6, <4>1, FirstCopies
    <3> HIDE DEF x
    <3>. QED
      BY <1>1, <2>1, <3>1, <3>2, <3>3, GrowsTo
  <2>7. Copied(i)'
    <3>1. /\ template_file' = template_file /\ i' = i + 1 /\ (Fits' <=> Fits)
          /\ FirstRows' = FirstRows /\ DefaultRows' = DefaultRows
      BY <2>1, SameFile
    <3>2. ~template_file => the_maze' = [n \in 1 .. i' |-> DefaultRows'[n]]
      BY <2>5, <3>1
    <3>3. template_file /\ Fits => the_maze' = [n \in 1 .. i' |-> FirstRows'[n]]
      BY <2>6, <3>1
    <3>. QED
      BY <3>1, <3>2, <3>3 DEF Copied
  <2>8. (\A n \in 1 .. Len(file) : RowInv(n))' <=> (\A n \in 1 .. Len(file) : RowInv(n))
    BY <2>1, SameRows
  <2>9. InitInv'
    BY <1>1, <2>1, <2>7, <2>8, SameFile DEF InitInv
  <2>. QED
    BY <2>1, <2>4, <2>9, SameFile DEF TemplateInv, LoadInv
<1>. QED
  BY <1>3, <1>4, <1>5, <1>6 DEF CopyRow

LEMMA TemplateStepInv ==
  ASSUME TemplateInv, TemplateStep, UNCHANGED template_file
  PROVE  TemplateInv'
  BY CountLineStep, RewindStep, ReadLineStep, CallInitStep, CopyRowStep, InitDoneStep,
     FreeTemplateStep DEF TemplateStep

-----------------------------------------------------------------------------
(* main()                                                                  *)

\* The loading of the maze goes with the calls of main().
PhaseInv ==
  /\ main_pc \in {"getopt", "creg_malloc", "mutex", "mutex_e"} => pc = "start"
  /\ main_pc = "maze" => pc \in {"start", "count", "read", "init"}
  /\ main_pc \in {"mutex_maze"} \cup MazeInitialized => pc \in {"free", "ready"}
  /\ "maze" \in initialized => pc \in {"free", "ready"}

\* The rest of the types; while an address is tried it is still counted.
WalkInv == SocketsTypeOK /\ (open_pc \in {"attach", "close"} => rest > 0)

MainInv ==
  /\ WalkInv
  /\ status \in {RUNNING, 0, 1, KILLED}
  /\ options \in Seq(Option) /\ operand \in BOOLEAN
  /\ port \in BOOLEAN /\ template_file \in BOOLEAN
  /\ main_pc \in DOMAIN After \cup AcceptPC \cup {"terminate"}
  /\ initialized \subseteq Module /\ handled \in BOOLEAN

StartupInv == OrderInv /\ PhaseInv /\ TemplateInv /\ MainInv

\* A command line and a file as long as the bounds allow.
LEMMA BoundedIs ==
  ASSUME NEW S, NEW m \in Nat, NEW s \in BoundedSeq(S, m)
  PROVE  s \in Seq(S) /\ Len(s) <= m
<1>1. PICK k \in 0 .. m : s \in [1 .. k -> S]
  BY DEF BoundedSeq, SeqOf
<1>2. s \in Seq(S)
  BY <1>1, SeqDef
<1>3. Len(s) = k
  BY <1>1, <1>2, LenProperties
<1>. QED
  BY <1>1, <1>2, <1>3

LEMMA StartupInitInv == Init => StartupInv
<1> SUFFICES ASSUME Init PROVE StartupInv
  OBVIOUS
<1>1. FileInv
  <2>1. file \in BoundedSeq(Line, MaxLines) /\ MaxLines \in Nat
    BY TemplateSizes DEF Init, TemplateInit
  <2>2. file \in Seq(Line) /\ Len(file) <= MaxLines
    BY <2>1, BoundedIs
  <2>3. ASSUME NEW s \in Line PROVE s \in Seq(Object) /\ Len(s) <= Cols
    BY BoundedIs, TemplateSizes DEF Line
  <2>4. file \in Seq(Seq(Object))
    <3>1. Line \subseteq Seq(Object)
      BY <2>3
    <3>. QED
      BY <2>2, <3>1, SeqMonotonic
  <2>5. \A n \in 1 .. Len(file) : Len(file[n]) <= Cols
    BY <2>2, <2>3, ElementOfSeq
  <2>6. ASSUME ~newline PROVE Len(file) > 0 /\ Len(file[Len(file)]) > 0
    <3>1. file # <<>> /\ file[Len(file)] # <<>>
      BY <2>6 DEF Init, TemplateInit, Last
    <3>2. Len(file) \in Nat /\ Len(file) > 0
      BY <2>4, <3>1, EmptySeq
    <3>3. file[Len(file)] \in Seq(Object)
      BY <2>4, <3>2, ElementOfSeq
    <3>. QED
      BY <3>1, <3>2, <3>3, EmptySeq
  <2>7. newline \in BOOLEAN
    BY DEF Init, TemplateInit
  <2>. QED
    BY <2>2, <2>4, <2>5, <2>6, <2>7 DEF FileInv
<1>2. TemplateTypeOK
  <2>1. file \in Seq(Seq(Object)) /\ newline \in BOOLEAN
    BY <1>1 DEF FileInv
  <2>2. <<>> \in Seq(Seq(Char))
    BY EmptySeq
  <2>. QED
    BY <2>1, <2>2, TemplateSizes DEF Init, TemplateInit, TemplateTypeOK
<1>3. LoadInv
  BY DEF Init, TemplateInit, LoadInv
<1>4. MainInv
  <2>1. options \in Seq(Option)
    BY BoundedIs, StartupAssumption DEF Init
  <2>2. WalkInv
    <3>1. /\ open_pc = "none" /\ kind = "none" /\ clientfd = NOFD /\ rest = 0
          /\ listp = FALSE /\ opened = {} /\ held = {} /\ why = 0
      BY DEF Init, SocketsInit, NoAddresses
    <3>2. rest \in 0 .. MaxAddresses
      BY <3>1, SocketsAssumption
    <3>. QED
      BY <3>1, <3>2 DEF WalkInv, SocketsTypeOK
  <2>3. status = RUNNING /\ main_pc \in DOMAIN After
    BY DEF Init, ProcessInit, After
  <2>. QED
    BY <2>1, <2>2, <2>3 DEF Init, MainInv
<1>5. PhaseInv
  BY DEF Init, TemplateInit, PhaseInv, MazeInitialized, AllInitialized, Handling, Serving
<1>. QED
  BY <1>1, <1>2, <1>3, <1>4, <1>5, OrderInit DEF StartupInv, TemplateInv

-----------------------------------------------------------------------------
(* The types, the sockets first                                            *)

LEMMA LeaveTypes ==
  ASSUME SocketsTypeOK, NEW rc \in Descriptor \cup {NOFD, -2}, NEW err, Leave(rc, err),
         opened' \subseteq Descriptor, listp' \in BOOLEAN, status = RUNNING
  PROVE  WalkInv' /\ status' \in {RUNNING, 0}
<1>1. rc \in Int /\ (rc >= 0 => rc \in Descriptor)
  BY SocketsAssumption DEF NOFD
<1>2. held' \subseteq Descriptor
  BY <1>1 DEF Leave, SocketsTypeOK
<1>3. status' \in {RUNNING, 0}
  BY DEF Leave, Exits, Returns
<1>4. open_pc' = "none" /\ kind' = "none" /\ clientfd' = NOFD /\ rest' = 0
      /\ why' = 0
  BY DEF Leave
<1>5. rest' \in 0 .. MaxAddresses
  BY <1>4, SocketsAssumption
<1>. QED
  BY <1>2, <1>3, <1>4, <1>5 DEF WalkInv, SocketsTypeOK

LEMMA WalkTypes ==
  ASSUME WalkInv, OpenCall("listen") \/ OpenStep
  PROVE  WalkInv' /\ status' \in {RUNNING, 0}
<1> USE SocketsAssumption DEF At, Goto, GoesTo
<1>1. /\ SocketsTypeOK /\ status = RUNNING /\ rest \in Nat /\ MaxAddresses \in Nat
      /\ clientfd \in Descriptor \cup {NOFD} /\ opened \subseteq Descriptor
      /\ listp \in BOOLEAN
  BY DEF WalkInv, SocketsTypeOK, OpenCall, OpenStep, NewSocket, Attach, CloseSocket, Cleanup,
         ListenCall
<1>2. CASE OpenCall("listen")
  <2>1. CASE Leave(-2, UNSET) /\ UNCHANGED <<listp, opened>>
    BY <1>1, <2>1, LeaveTypes
  <2>2. CASE /\ Goto("socket") /\ kind' = "listen" /\ listp' = TRUE
             /\ rest' \in 1 .. MaxAddresses /\ UNCHANGED <<clientfd, opened, why>>
    BY <1>1, <2>2 DEF WalkInv, SocketsTypeOK, OpenPC
  <2>. QED
    BY <1>2, <2>1, <2>2 DEF OpenCall
<1>3. CASE NewSocket
  <2>1. listp' = listp /\ rest > 0 /\ rest \in 0 .. MaxAddresses
    BY <1>1, <1>3 DEF NewSocket, SocketsTypeOK
  <2>2. ASSUME NEW s \in Descriptor, GoesTo("attach"), clientfd' = s,
               opened' = opened \cup {s}, rest' = rest, why' = why
        PROVE  WalkInv' /\ status' = status
    BY <1>1, <2>1, <2>2 DEF WalkInv, SocketsTypeOK, OpenPC
  <2>3. ASSUME GoesTo("socket"), rest' = rest - 1, UNCHANGED <<clientfd, opened>>,
               why' \in ERRNO
        PROVE  WalkInv' /\ status' = status
    <3>1. rest' \in 0 .. MaxAddresses
      BY <1>1, <2>1, <2>3
    <3>. QED
      BY <1>1, <2>1, <2>3, <3>1 DEF WalkInv, SocketsTypeOK, OpenPC
  <2>. QED
    BY <1>1, <1>3, <2>2, <2>3 DEF NewSocket
<1>4. CASE Attach
  BY <1>1, <1>4 DEF Attach, WalkInv, SocketsTypeOK, OpenPC
<1>5. CASE CloseSocket
  <2>1. opened' \subseteq Descriptor /\ listp' = listp /\ rest > 0
    BY <1>1, <1>5 DEF CloseSocket, Closes, WalkInv
  <2>2. CASE GoesTo("socket") /\ rest' = rest - 1 /\ UNCHANGED <<errno, clientfd, why>>
    BY <1>1, <2>1, <2>2 DEF WalkInv, SocketsTypeOK, OpenPC
  <2>3. CASE Leave(-1, errno')
    BY <1>1, <2>1, <2>3, LeaveTypes DEF NOFD
  <2>. QED
    BY <1>5, <2>2, <2>3 DEF CloseSocket
<1>6. CASE Cleanup
  <2>1. opened' = opened /\ listp' = FALSE
    BY <1>6 DEF Cleanup
  <2>2. CASE Leave(-1, why) \/ Leave(clientfd, 0)
    BY <1>1, <2>1, <2>2, LeaveTypes DEF NOFD
  <2>3. CASE GoesTo("listen") /\ UNCHANGED <<clientfd, rest, why>>
    BY <1>1, <2>1, <2>3 DEF WalkInv, SocketsTypeOK, OpenPC
  <2>. QED
    BY <1>6, <2>2, <2>3 DEF Cleanup
<1>7. CASE ListenCall
  <2>1. opened' \subseteq Descriptor /\ listp' = listp
    BY <1>1, <1>7 DEF ListenCall, Closes
  <2>. QED
    BY <1>1, <1>7, <2>1, LeaveTypes DEF ListenCall, NOFD
<1>. QED
  BY <1>2, <1>3, <1>4, <1>5, <1>6, <1>7 DEF OpenStep

LEMMA WalkFrame ==
  ASSUME WalkInv, UNCHANGED socketVars
  PROVE  WalkInv'
  BY DEF WalkInv, SocketsTypeOK, socketVars

\* Wrappers end the program with status 0.
LEMMA WrapperStatus ==
  ASSUME status = RUNNING, Malloc \/ Sem_init \/ Accept \/ Pthread_create
  PROVE  status' \in {RUNNING, 0}
  BY DEF Malloc, Sem_init, Accept, Pthread_create, Allocates, Unix, Posix, Wrapper, Exits,
         Returns

LEMMA AfterIs ==
  DOMAIN After = {"getopt", "creg_malloc", "mutex", "mutex_e", "maze", "mutex_maze",
                  "player_init", "sigaction", "signal", "Open_listenfd"}
  BY DEF After

LEMMA MainNextInv == MainInv /\ [Next]_startupVars => MainInv'
<1> SUFFICES ASSUME MainInv, [Next]_startupVars PROVE MainInv'
  OBVIOUS
<1> USE Order, AfterIs DEF AcceptPC
<1>0. WalkInv
  BY DEF MainInv
<1>1. CASE GetOption
  <2>1. options' \in Seq(Option)
    BY <1>1, HeadTailProperties DEF GetOption, MainInv
  <2>2. status' \in {RUNNING, 0, 1, KILLED} /\ WalkInv'
    BY <1>0, <1>1, WalkFrame DEF GetOption, Exits, MainInv
  <2>3. /\ port' \in BOOLEAN /\ template_file' \in BOOLEAN
        /\ UNCHANGED <<operand, main_pc, initialized, handled>>
    BY <1>1 DEF GetOption, MainInv
  <2>. QED
    BY <2>1, <2>2, <2>3 DEF MainInv
<1>2. CASE OptionsDone
  BY <1>0, <1>2, WalkFrame DEF OptionsDone, Runs, Continues, SameOptions, SameModules, Exits, MainInv
<1>3. ASSUME NEW call \in DOMAIN After, NEW module \in SUBSET Module, InitCall(call, module)
      PROVE  MainInv'
  <2>1. status' \in {RUNNING, 0, 1, KILLED} /\ WalkInv'
    BY <1>0, <1>3, WalkFrame, WrapperStatus DEF InitCall, Runs
  <2>2. main_pc' \in DOMAIN After \cup AcceptPC /\ initialized' \subseteq Module
    BY <1>3 DEF InitCall, Runs, Continues, MainInv, Module
  <2>. QED
    BY <1>3, <2>1, <2>2 DEF InitCall, SameOptions, MainInv
<1>4. CASE CregInit
  BY <1>3, <1>4 DEF CregInit, Module
<1>5. CASE LoadMaze
  BY <1>0, <1>5, WalkFrame
     DEF LoadMaze, Runs, SameOptions, SameModules, process, MainInv
<1>6. CASE MazeInitDone
  BY <1>3, <1>6 DEF MazeInitDone, Module
<1>7. CASE PlayerInit
  BY <1>0, <1>7, WalkFrame
     DEF PlayerInit, Runs, SameOptions, process, MainInv, Module
<1>8. CASE InstallHandler
  BY <1>0, <1>8, WalkFrame
     DEF InstallHandler, Runs, Continues, SameOptions, Exits, MainInv
<1>9. CASE IgnoreSigpipe
  BY <1>0, <1>9, WalkFrame
     DEF IgnoreSigpipe, Runs, SameOptions, SameModules, process, MainInv
<1>10. CASE OpenListenfd
  <2>1. WalkInv' /\ status' \in {RUNNING, 0}
    <3>1. CASE OpenCall("listen") \/ OpenStep
      BY <1>0, <3>1, WalkTypes
    <3>2. CASE UNCHANGED <<process, main_pc, socketVars>>
      BY <1>0, <1>10, <3>2, WalkFrame DEF OpenListenfd, Runs, process
    <3>. QED
      BY <1>10, <3>1, <3>2 DEF OpenListenfd
  <2>2. main_pc' \in {"Malloc", main_pc}
    BY <1>10 DEF OpenListenfd
  <2>. QED
    BY <1>10, <2>1, <2>2 DEF OpenListenfd, SameOptions, SameModules, MainInv
<1>11. CASE AcceptLoop
  <2>1. status' \in {RUNNING, 0} /\ WalkInv'
    BY <1>0, <1>11, WalkFrame, WrapperStatus DEF AcceptLoop, Runs
  <2>2. main_pc' \in AcceptPC
    BY <1>11 DEF AcceptLoop, Runs, Continues
  <2>. QED
    BY <1>11, <2>1, <2>2 DEF AcceptLoop, SameOptions, SameModules, MainInv
<1>12. CASE SigHup
  BY <1>0, <1>12, WalkFrame DEF SigHup, SameOptions, SameModules, Exits, MainInv
<1>13. CASE UNCHANGED startupVars
  BY <1>0, <1>13, WalkFrame DEF startupVars, mainVars, process, MainInv
<1>. QED
  BY <1>1, <1>2, <1>4, <1>5, <1>6, <1>7, <1>8, <1>9, <1>10, <1>11, <1>12, <1>13
     DEF Next, Main

-----------------------------------------------------------------------------
(* The maze in main()                                                      *)

\* -t comes before anything is loaded.
LEMMA OptionTemplate ==
  ASSUME TemplateInv, pc = "start", fault = "none", UNCHANGED templateVars
  PROVE  TemplateInv'
<1>1. UNCHANGED <<file, newline, pc, row, col, i, template, the_maze, fault>>
  BY DEF templateVars
<1>2. TemplateTypeOK' /\ FileInv'
  BY <1>1, SameFile DEF TemplateInv, TemplateTypeOK
<1>. QED
  BY <1>1, <1>2 DEF TemplateInv, LoadInv

LEMMA LoadMazeStep ==
  ASSUME StartupInv, LoadMaze
  PROVE  /\ TemplateInv' /\ main_pc = "maze" /\ UNCHANGED initialized
         /\ \/ pc' = "free" /\ main_pc' = "mutex_maze"
            \/ pc' \in {"start", "count", "read", "init"} /\ main_pc' = "maze"
<1>1. /\ main_pc = "maze" /\ UNCHANGED <<template_file, initialized>> /\ TemplateInv
      /\ main_pc' = IF pc' = "free" THEN "mutex_maze" ELSE "maze"
      /\ pc \in {"start", "count", "read", "init"}
  BY Order DEF LoadMaze, Runs, SameOptions, SameModules, StartupInv, PhaseInv
<1>2. CASE template_file /\ OpenTemplate
  <2>1. pc' \in {"start", "count"}
    BY <1>2 DEF OpenTemplate, Steps, Faults
  <2>. QED
    BY <1>1, <1>2, <2>1, OpenTemplateStep
<1>3. CASE ~template_file /\ UseDefault
  <2>1. pc' = "init"
    BY <1>3 DEF UseDefault, Steps
  <2>. QED
    BY <1>1, <1>3, <2>1, UseDefaultStep
<1>4. CASE pc \in {"count", "read", "init"} /\ TemplateStep
  <2>1. pc' \in {"count", "read", "init", "free"}
    BY <1>4 DEF TemplateStep, CountLine, Rewind, ReadLine, CallInit, CopyRow, InitDone,
                FreeTemplate, Steps, Faults
  <2>. QED
    BY <1>1, <1>4, <2>1, TemplateStepInv
<1>. QED
  BY <1>2, <1>3, <1>4 DEF LoadMaze

LEMMA StartupNextInv == StartupInv /\ [Next]_startupVars => StartupInv'
<1> SUFFICES ASSUME StartupInv, [Next]_startupVars PROVE PhaseInv' /\ TemplateInv'
  BY OrderNext, MainNextInv DEF StartupInv
<1> USE Order DEF Serving, Handling, AllInitialized, MazeInitialized, PhaseInv
<1>0. PhaseInv /\ TemplateInv /\ OrderInv
  BY DEF StartupInv
<1>1. CASE GetOption
  <2>1. pc = "start" /\ fault = "none" /\ UNCHANGED <<main_pc, initialized, templateVars>>
    BY <1>0, <1>1 DEF GetOption, Runs
  <2>2. pc' = pc
    BY <2>1 DEF templateVars
  <2>. QED
    BY <1>0, <2>1, <2>2, OptionTemplate
<1>2. CASE OptionsDone
  <2>1. /\ main_pc = "getopt" /\ main_pc' \in {"getopt", "creg_malloc"}
        /\ UNCHANGED <<initialized, templateVars, template_file>>
    BY <1>2 DEF OptionsDone, Runs, Continues, SameOptions, SameModules
  <2>2. pc' = pc /\ TemplateInv'
    BY <1>0, <2>1, TemplateFrame DEF templateVars
  <2>. QED
    BY <1>0, <2>1, <2>2
<1>3. ASSUME NEW call, NEW module, InitCall(call, module)
      PROVE  /\ main_pc = call /\ pc' = pc /\ TemplateInv'
             /\ \/ main_pc' = After[call] /\ initialized' = initialized \cup module
                \/ main_pc' = call /\ initialized' = initialized
  <2>1. UNCHANGED <<templateVars, template_file>>
    BY <1>3 DEF InitCall, SameOptions
  <2>2. pc' = pc /\ TemplateInv'
    BY <1>0, <2>1, TemplateFrame DEF templateVars
  <2>. QED
    BY <1>3, <2>2 DEF InitCall, Runs, Continues
<1>4. CASE CregInit
  <2>1. CASE InitCall("creg_malloc", {})
    BY <1>0, <1>3, <2>1
  <2>2. CASE InitCall("mutex", {})
    BY <1>0, <1>3, <2>2
  <2>3. CASE InitCall("mutex_e", {"registry"})
    <3>1. /\ main_pc = "mutex_e" /\ pc' = pc /\ TemplateInv' /\ main_pc' \in {"mutex_e", "maze"}
          /\ initialized' \subseteq initialized \cup {"registry"}
      BY <1>3, <2>3
    <3>. QED
      BY <1>0, <3>1
  <2>. QED
    BY <1>4, <2>1, <2>2, <2>3 DEF CregInit
<1>5. CASE LoadMaze
  <2>1. "maze" \notin initialized
    BY <1>0, <1>5, LoadMazeStep
  <2>. QED
    BY <1>5, <2>1, LoadMazeStep
<1>6. CASE MazeInitDone
  <2>1. /\ main_pc = "mutex_maze" /\ pc' = pc /\ TemplateInv'
        /\ main_pc' \in {"mutex_maze", "player_init"}
    BY <1>3, <1>6 DEF MazeInitDone
  <2>. QED
    BY <1>0, <2>1
<1>7. CASE PlayerInit
  <2>1. /\ main_pc = "player_init" /\ main_pc' \in {"player_init", "sigaction"}
        /\ pc \in {"free", "ready"} /\ UNCHANGED template_file
    BY <1>0, <1>7 DEF PlayerInit, Runs, SameOptions
  <2>2. CASE pc = "free" /\ TemplateStep
    <3>1. pc' = "ready"
      BY <2>2 DEF TemplateStep, CountLine, Rewind, ReadLine, CallInit, CopyRow, InitDone,
                  FreeTemplate, Steps
    <3>. QED
      BY <1>0, <2>1, <2>2, <3>1, TemplateStepInv
  <2>3. CASE UNCHANGED templateVars
    <3>1. pc' = pc /\ TemplateInv'
      BY <1>0, <2>1, <2>3, TemplateFrame DEF templateVars
    <3>. QED
      BY <2>1, <3>1
  <2>. QED
    BY <1>7, <2>2, <2>3 DEF PlayerInit
<1>8. CASE InstallHandler
  <2>1. /\ main_pc = "sigaction" /\ main_pc' \in {"sigaction", "signal"}
        /\ UNCHANGED <<initialized, templateVars, template_file>>
    BY <1>8 DEF InstallHandler, Runs, Continues, SameOptions
  <2>2. pc' = pc /\ TemplateInv'
    BY <1>0, <2>1, TemplateFrame DEF templateVars
  <2>. QED
    BY <1>0, <2>1, <2>2
<1>9. CASE IgnoreSigpipe
  <2>1. /\ main_pc = "signal" /\ main_pc' = "Open_listenfd"
        /\ UNCHANGED <<initialized, templateVars, template_file>>
    BY <1>9 DEF IgnoreSigpipe, Runs, SameOptions, SameModules
  <2>2. pc' = pc /\ TemplateInv'
    BY <1>0, <2>1, TemplateFrame DEF templateVars
  <2>. QED
    BY <1>0, <2>1, <2>2
<1>10. CASE OpenListenfd
  <2>1. /\ main_pc = "Open_listenfd" /\ UNCHANGED <<initialized, template_file>>
        /\ pc \in {"free", "ready"}
    BY <1>0, <1>10 DEF OpenListenfd, Runs, SameOptions, SameModules
  <2>2. CASE main_pc' \in {"Malloc", main_pc} /\ UNCHANGED templateVars
    <3>1. pc' = pc /\ TemplateInv'
      BY <1>0, <2>1, <2>2, TemplateFrame DEF templateVars
    <3>. QED
      BY <2>1, <2>2, <3>1
  <2>3. CASE Faults("no_port") /\ main_pc' = main_pc
    <3>1. pc' = pc /\ TemplateInv'
      BY <1>0, <2>1, <2>3, FaultsStep DEF Faults
    <3>. QED
      BY <2>1, <2>3, <3>1
  <2>. QED
    BY <1>10, <2>2, <2>3 DEF OpenListenfd
<1>11. CASE AcceptLoop
  <2>1. /\ main_pc \in Serving /\ main_pc' \in Serving
        /\ UNCHANGED <<initialized, templateVars, template_file>>
    BY <1>11 DEF AcceptLoop, Runs, Continues, SameOptions, SameModules
  <2>2. pc' = pc /\ TemplateInv'
    BY <1>0, <2>1, TemplateFrame DEF templateVars
  <2>. QED
    BY <1>0, <2>1, <2>2
<1>12. CASE SigHup
  <2>1. /\ main_pc' = main_pc \/ (handled /\ main_pc' = "terminate")
        /\ UNCHANGED <<initialized, templateVars, template_file>>
    BY <1>12 DEF SigHup, SameOptions, SameModules
  <2>2. pc' = pc /\ TemplateInv'
    BY <1>0, <2>1, TemplateFrame DEF templateVars
  <2>3. handled => main_pc \in Handling
    BY <1>0 DEF OrderInv
  <2>. QED
    BY <1>0, <2>1, <2>2, <2>3
<1>13. CASE UNCHANGED startupVars
  <2>1. UNCHANGED <<main_pc, initialized, templateVars, template_file>>
    BY <1>13 DEF startupVars, mainVars
  <2>2. pc' = pc /\ TemplateInv'
    BY <1>0, <2>1, TemplateFrame DEF templateVars
  <2>. QED
    BY <1>0, <2>1, <2>2
<1>. QED
  BY <1>1, <1>2, <1>4, <1>5, <1>6, <1>7, <1>8, <1>9, <1>10, <1>11, <1>12, <1>13
     DEF Next, Main

\* The order of the calls, the types, and how far the maze is loaded.
THEOREM StartupInvariant == Spec => []StartupInv
  BY StartupInitInv, StartupNextInv, PTL DEF Spec

\* main() and what it has loaded and opened stay what they are declared to be.
THEOREM StartupTypeCorrect == Spec => []StartupTypeOK
<1>1. StartupInv => StartupTypeOK
  BY DEF StartupInv, TemplateInv, MainInv, WalkInv, StartupTypeOK
<1>. QED
  BY <1>1, StartupInvariant, PTL

\* Whatever the template file: if it ends in a newline and its lines fit, it is
\* loaded without an access outside a row or the buffer of one, and the maze is
\* its first rows, as many as a pointer has bytes, cut to the first one's width;
\* and without a file it is the default maze.
THEOREM LoadsFirstRows == Spec => []FirstRowsLoaded
<1>1. StartupInv => FirstRowsLoaded
  <2> SUFFICES ASSUME StartupInv PROVE FirstRowsLoaded
    OBVIOUS
  <2>1. ASSUME "maze" \in initialized PROVE Copied(POINTER)
    BY <2>1 DEF StartupInv, PhaseInv, TemplateInv, LoadInv
  <2>2. /\ DefaultRows = [n \in 1 .. POINTER |-> DefaultRows[n]]
        /\ FirstRows = [n \in 1 .. POINTER |-> FirstRows[n]]
    BY DEF DefaultRows, FirstRows
  <2>3. template_file /\ Fits => fault \notin {"overflow", "no_row", "short_row"}
    BY DEF StartupInv, TemplateInv, LoadInv
  <2>. QED
    BY <2>1, <2>2, <2>3 DEF FirstRowsLoaded, Copied
<1>. QED
  BY <1>1, StartupInvariant, PTL

\* The template that maze.h:110-113 describes becomes the maze, whole and line by
\* line, if it has exactly as many rows as a pointer has bytes.
THEOREM EightRowsAreTheMaze == Spec => [](Len(file) = POINTER => MazeIsTemplate)
<1>1. StartupInv /\ FirstRowsLoaded => (Len(file) = POINTER => MazeIsTemplate)
  <2> SUFFICES ASSUME StartupInv, FirstRowsLoaded, Len(file) = POINTER,
                      "maze" \in initialized, template_file, Rectangular
               PROVE  the_maze = file
    BY DEF MazeIsTemplate
  <2>1. file \in Seq(Seq(Object)) /\ POINTER \in Nat \ {0}
    BY TemplateSizes DEF StartupInv, TemplateInv, FileInv
  <2>2. DOMAIN file = 1 .. POINTER /\ \A n \in 1 .. POINTER : file[n] \in Seq(Object)
    BY <2>1, LenProperties, ElementOfSeq
  <2>3. \A n \in 1 .. POINTER : Len(file[n]) = Len(file[1])
    BY <2>2 DEF Rectangular
  <2>4. Fits
    <3>1. Last(file) = file[POINTER] /\ POINTER \in 1 .. POINTER /\ Len(file) >= POINTER
      BY <2>1 DEF Last
    <3>2. \A n \in 1 .. POINTER : Len(file[n]) \in Nat
      BY <2>2, LenProperties
    <3>. QED
      BY <2>2, <2>3, <3>1, <3>2 DEF Fits, Rectangular
  <2>5. the_maze = FirstRows
    BY <2>4 DEF FirstRowsLoaded
  <2>6. \A n \in 1 .. POINTER : FirstRows[n] = file[n]
    <3>1. ASSUME NEW n \in 1 .. POINTER PROVE SubSeq(file[n], 1, Len(file[n])) = file[n]
      BY <2>2, SubSeqFull
    <3>. QED
      BY <2>3, <3>1, FirstRowsIs
  <2>7. FirstRows = [n \in 1 .. POINTER |-> FirstRows[n]]
    BY DEF FirstRows
  <2>8. file = [n \in 1 .. POINTER |-> file[n]]
    BY <2>1, <2>2, SeqDef
  <2>. QED
    BY <2>5, <2>6, <2>7, <2>8
<1>. QED
  BY <1>1, LoadsFirstRows, StartupInvariant, PTL
=============================================================================
