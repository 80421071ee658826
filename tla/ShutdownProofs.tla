--------------------------- MODULE ShutdownProofs ---------------------------
(***************************************************************************)
(* Proofs about the clean shutdown, for any sets of threads, descriptors   *)
(* and heap cells.  Until creg_shutdown_all has reset the head, the list   *)
(* is the exact list of ClientRegistryProofs, whatever has been closed;    *)
(* afterwards little can be said of the list, and what is left of the      *)
(* invariant keeps it apart from the arguments of the threads to come.     *)
(***************************************************************************)
EXTENDS Shutdown, ClientRegistryProofs

WalkPC == {"s_start", "s_loop", "s_advance", "s_head"}

(* After the head is reset.  Threads inside the registry may follow old    *)
(* pointers, but these lead to cells of a set S only that is closed under  *)
(* next and holds no argument of a thread that has not started.            *)
Enclosed(S) ==
  /\ registered_fds \in S \cup {NULL}
  /\ \A a \in S : next[a] \in S \cup {NULL}
  /\ \A t \in Thread : pc[t] = "start" => ptr[t] \notin S
  /\ \A t \in Thread : pc[t] = "r_head" => ptr[t] \in S
  /\ \A t \in Thread : pc[t] \in {"u_walk", "u_unlink"} =>
       ptr[t] \in S \cup {NULL} /\ prev_fd[t] \in S \cup {NULL}

ArgsInv ==
  /\ \A t \in Thread : pc[t] = "start" => ptr[t] \in heap
  /\ \A t, u \in Thread : pc[t] = "start" /\ Owns(u) /\ ptr[t] = ptr[u] => t = u

DistinctInv == \A t, u \in Thread :
  Live(t) /\ Live(u) /\ Connection(t) = Connection(u) => t = u

RestInv == DistinctInv /\ ArgsInv /\ \E S \in SUBSET Addr : Enclosed(S)

(* Where a service thread runs the handler, main() goes on accepting and   *)
(* may be given a descriptor again whose thread has not closed it: what is *)
(* said of the descriptors and of the whole list needs handler = {}.       *)
PhaseInv ==
  /\ term_pc = "none" => handler = {} /\ \A f \in Fd : closed[f] = 0
  /\ handler = {} =>
       /\ term_pc = "none" => OpenInv
       /\ term_pc \in {"none"} \cup WalkPC => ExactInv
       /\ term_pc \notin {"none"} \cup WalkPC => RestInv

(* The cells that the accept loop hands over to the threads.               *)
HandoverInv ==
  /\ main_pc # "malloc" => connfdp \in heap
  /\ \A t \in Thread : pc[t] = "start" =>
       ptr[t] \in heap /\ (main_pc # "malloc" => ptr[t] # connfdp)
  /\ \A t, u \in Thread :
       pc[t] = "start" /\ pc[u] = "start" /\ ptr[t] = ptr[u] => t = u

(* While no thread is in the registry the walk of creg_shutdown_all has a  *)
(* list c[1], ..., c[n] that does not change under it: the descriptors of  *)
(* the registered clients, each one once.                                  *)
Registered(f) == \E t \in RegisteredThread : fd[t] = f

Frozen(c, n) ==
  /\ num_of_clients = n
  /\ Shape(c, n)
  /\ \A j \in 1 .. n : /\ main_pc # "malloc" => connfdp # c[j]
                       /\ \A t \in Thread : pc[t] = "start" => ptr[t] # c[j]
  /\ \A j, k \in 1 .. n : curr_fd[c[j]] = curr_fd[c[k]] => j = k
  /\ \A f \in Fd : Registered(f) <=> \E j \in 1 .. n : curr_fd[c[j]] = f

\* The walk has closed the descriptors of c[1], ..., c[k].
ClosedUpTo(c, k) == \A f \in Fd :
  closed[f] = IF \E j \in 1 .. k : curr_fd[c[j]] = f THEN 1 ELSE 0

At(c, n) ==
  /\ term_pc = "s_start" => ClosedUpTo(c, 0)
  /\ term_pc = "s_loop" =>
       i <= n /\ (i < n => temp_fd = c[i + 1]) /\ ClosedUpTo(c, i)
  /\ term_pc = "s_advance" =>
       i < n /\ temp_fd = c[i + 1] /\ ClosedUpTo(c, i + 1)
  /\ term_pc = "s_head" => ClosedUpTo(c, n)

WalkInv == \E n \in Nat : \E c \in [1 .. n -> heap] : Frozen(c, n) /\ At(c, n)

ClosedOnce == \A f \in Fd : closed[f] = IF Registered(f) THEN 1 ELSE 0

QuietInv == quiet =>
  /\ term_pc \in ShutdownAllPC =>
       /\ \A t \in Thread : ~InCritical(t)
       /\ HandoverInv
       /\ fault # "invalid_cell"
  /\ term_pc \in WalkPC => WalkInv
  /\ WalkEnded => ClosedOnce

ShutdownInv == ShutdownTypeOK /\ LockInv /\ PhaseInv /\ QuietInv

LEMMA InitShutdownInv == ShutdownInit => ShutdownInv
<1> SUFFICES ASSUME ShutdownInit PROVE ShutdownInv
  OBVIOUS
<1>1. LockInv /\ ExactInv /\ OpenInv
  BY InitLockInv, InitExactInv DEF ShutdownInit, Init, OpenInv, Live
<1>2. ShutdownTypeOK
  BY <1>1 DEF ShutdownInit, ShutdownTypeOK, LockInv, MutexEInit
<1>3. PhaseInv /\ QuietInv
  BY <1>1 DEF ShutdownInit, PhaseInv, QuietInv, ShutdownAllPC, WalkPC, WalkEnded
<1>. QED
  BY <1>1, <1>2, <1>3 DEF ShutdownInv

-----------------------------------------------------------------------------
(* The semaphore.  terminate() does not use it, and what it stores in the  *)
(* registry has the right type.                                            *)

LEMMA TerminateLockInv ==
  ASSUME LockInv, UNCHANGED <<mutex, cells, mainVars, threadVars>>,
         num_of_clients' \in Int, registered_fds' \in Addr \cup {NULL},
         open_fds' \subseteq Fd
  PROVE  LockInv'
BY DEF LockInv, TypeOK, PointersSet, MutualExclusion, InCritical, cells,
       mainVars, threadVars

LEMMA NextShutdownLockInv ==
  LockInv /\ [ShutdownNext]_shutdownVars => LockInv'
<1> SUFFICES ASSUME LockInv, [ShutdownNext]_shutdownVars PROVE LockInv'
  OBVIOUS
<1>1. CASE [Next]_vars
  BY <1>1, NextLockInv
<1>2. CASE ShutdownClose \/ ShutdownHead \/ ShutdownZero
  BY <1>2, TerminateLockInv
     DEF ShutdownClose, ShutdownHead, ShutdownZero, LockInv, TypeOK, registry
<1>3. ShutdownZeroLost => Next
  BY DEF ShutdownZeroLost, Next, Service, Register, Unregister
<1>4. AcceptStep \/ (\E t \in Thread : ServiceStep(t)) => Next
  BY DEF AcceptStep, ServiceStep, Next
<1>5. \/ [Next]_vars \/ ShutdownClose \/ ShutdownHead \/ ShutdownZero
  BY <1>3, <1>4
     DEF ShutdownNext, Terminate, ServiceFault, SigHup, ShutdownStart,
         ShutdownAdvance, ShutdownFault, ShutdownDone, WaitTest, WaitP, WaitV,
         CregFini, Finish, shutdownVars
<1>. QED
  BY <1>1, <1>2, <1>5

LEMMA NextShutdownTypeOK ==
  ShutdownTypeOK /\ LockInv' /\ [ShutdownNext]_shutdownVars => ShutdownTypeOK'
<1> SUFFICES ASSUME ShutdownTypeOK, LockInv', [ShutdownNext]_shutdownVars
             PROVE  ShutdownTypeOK'
  OBVIOUS
<1>1. TypeOK' /\ TypeOK
  BY DEF LockInv, ShutdownTypeOK
<1>2. CASE AcceptStep \/ SigHup \/ (\E t \in Thread : ServiceStep(t) \/ ServiceFault(t))
  <2>1. CASE AcceptStep
    BY <1>1, <2>1 DEF ShutdownTypeOK, AcceptStep, termVars
  <2>2. CASE SigHup
    <3>1. handler' \subseteq Thread /\ quiet' \in BOOLEAN
      BY <2>2 DEF SigHup
    <3>. QED
      BY <1>1, <2>2, <3>1 DEF ShutdownTypeOK, SigHup, Advance, ShutdownAllPC
  <2>3. ASSUME NEW t \in Thread, ServiceStep(t) PROVE ShutdownTypeOK'
    <3>1. quiet' \in BOOLEAN
      BY <2>3 DEF ServiceStep
    <3>. QED
      BY <1>1, <2>3, <3>1 DEF ShutdownTypeOK, ServiceStep
  <2>4. ASSUME NEW t \in Thread, ServiceFault(t) PROVE ShutdownTypeOK'
    BY <1>1, <2>4 DEF ShutdownTypeOK, ServiceFault, termVars
  <2>. QED
    BY <1>2, <2>1, <2>2, <2>3, <2>4
<1>3. CASE Terminate
  <2> USE <1>1 DEF ShutdownTypeOK, Advance, ShutdownAllPC, FinishPC, history
  <2>1. CASE ShutdownStart \/ ShutdownClose \/ ShutdownDone
    BY <2>1 DEF ShutdownStart, ShutdownClose, ShutdownDone, TypeOK
  <2>2. CASE ShutdownAdvance
    <3>1. temp_fd' \in Addr \cup {NULL}
      BY <2>2 DEF ShutdownAdvance, TypeOK
    <3>. QED
      BY <2>2, <3>1 DEF ShutdownAdvance
  <2>3. CASE ShutdownFault \/ ShutdownHead \/ ShutdownZero \/ ShutdownZeroLost
    BY <2>3 DEF ShutdownFault, ShutdownHead, ShutdownZero, ShutdownZeroLost,
       termVars
  <2>4. CASE WaitTest
    <3>1. term_pc' \in {"w_P", "w_V"}
      BY <2>4 DEF WaitTest
    <3>. QED
      BY <2>4, <3>1 DEF WaitTest
  <2>5. CASE WaitP \/ WaitV
    <3>1. mutex_e' \in Nat
      BY <2>5 DEF WaitP, WaitV
    <3>. QED
      BY <2>5, <3>1 DEF WaitP, WaitV
  <2>6. CASE CregFini
    BY <2>6 DEF CregFini
  <2>7. CASE Finish
    BY <2>7 DEF Finish
  <2>. QED
    BY <1>3, <2>1, <2>2, <2>3, <2>4, <2>5, <2>6, <2>7 DEF Terminate
<1>4. CASE UNCHANGED shutdownVars
  BY <1>1, <1>4 DEF ShutdownTypeOK, shutdownVars, termVars
<1>. QED
  BY <1>2, <1>3, <1>4 DEF ShutdownNext

-----------------------------------------------------------------------------
(* The steps of a service thread after the head is reset.                  *)

\* Nobody else writes to or frees the argument of a thread.
LEMMA RestArguments ==
  ASSUME NEW t \in Thread, LockInv, RestInv, Service(t)
  PROVE  \A u \in Thread \ {t} : pc[u] = "start" =>
           curr_fd'[ptr[u]] = curr_fd[ptr[u]] /\ ptr[u] \in heap'
<1> USE DEF LockInv, TypeOK, Goto
<1>1. \A u \in Thread : pc[u] = "start" => ptr[u] \in heap
  BY DEF RestInv, ArgsInv
<1>2. CASE ThreadStart(t) \/ UnregisterFree(t)
  <2>1. /\ \A a \in Addr : a # ptr[t] => curr_fd'[a] = curr_fd[a]
        /\ heap' = heap \ {ptr[t]}
    BY <1>2 DEF ThreadStart, UnregisterFree, Free
  <2>2. Owns(t)
    BY <1>2 DEF ThreadStart, UnregisterFree, Owns, OwnPC
  <2>. QED
    BY <1>1, <2>1, <2>2 DEF RestInv, ArgsInv
<1>3. CASE RegisterAlloc(t)
  <2>1. PICK a \in Addr \ heap : /\ heap' = heap \cup {a}
                                 /\ curr_fd' = [curr_fd EXCEPT ![a] = fd[t]]
    BY <1>3 DEF RegisterAlloc
  <2>. QED
    BY <1>1, <2>1
<1>4. CASE UnregisterFreeHead(t)
  <2>1. /\ \A a \in Addr : a # registered_fds => curr_fd'[a] = curr_fd[a]
        /\ heap' = heap \ {registered_fds}
    BY <1>4 DEF UnregisterFreeHead, Free
  <2>2. \A u \in Thread : pc[u] = "start" => ptr[u] # registered_fds
    BY <1>1, NullAssumption DEF RestInv, Enclosed
  <2>. QED
    BY <1>1, <2>1, <2>2
<1>5. CASE UNCHANGED <<curr_fd, heap>>
  BY <1>1, <1>5
<1>. QED
  BY <1>2, <1>3, <1>4, <1>5
     DEF Service, Register, Unregister, ServiceEnds, ThreadClose, RegisterP,
         RegisterNext, RegisterHead, RegisterCount, RegisterV, UnregisterP,
         UnregisterTest, UnregisterWalk, UnregisterUnlink, UnregisterCount,
         UnregisterV, cells

LEMMA ServiceDistinct ==
  ASSUME NEW t \in Thread, LockInv, RestInv, Service(t)
  PROVE  DistinctInv'
<1>1. \A u \in Thread \ {t} : /\ Live(u)' <=> Live(u)
                              /\ Live(u) => Connection(u)' = Connection(u)
  BY OthersStay, RestArguments DEF Live, Connection
<1>2. Live(t) /\ (Live(t)' => Connection(t)' = Connection(t))
  BY OwnConnection
<1>. QED
  BY <1>1, <1>2 DEF RestInv, DistinctInv

\* A thread gets a cell from malloc(), or unlinks one of the old list.
LEMMA ServiceArgs ==
  ASSUME NEW t \in Thread, LockInv, RestInv, Service(t), ~BadCell(t)
  PROVE  ArgsInv'
<1> USE DEF LockInv, TypeOK
<1>1. \A u \in Thread \ {t} : /\ pc'[u] = pc[u] /\ ptr'[u] = ptr[u]
                              /\ Owns(u)' <=> Owns(u)
  BY OthersStay DEF Owns
<1>2. pc'[t] # "start"
  BY OwnConnection
<1>3. \A u \in Thread \ {t} : pc[u] = "start" => ptr[u] \in heap'
  BY RestArguments
<1>4. ASSUME NEW u \in Thread \ {t}, pc[u] = "start", Owns(t)'
      PROVE  ptr'[t] # ptr[u]
  <2> USE DEF Goto, Owns, OwnPC
  <2>1. CASE RegisterAlloc(t)
    BY <1>4, <2>1 DEF RegisterAlloc, RestInv, ArgsInv
  <2>2. CASE RegisterNext(t)
    BY <1>4, <2>2 DEF RegisterNext, RestInv, ArgsInv
  <2>3. CASE UnregisterUnlink(t)
    <3>1. ptr[t] \in heap /\ ptr'[t] = ptr[t] /\ pc[t] = "u_unlink"
      BY <2>3 DEF UnregisterUnlink, BadCell, AccessOK
    <3>. QED
      BY <1>4, <3>1, NullAssumption DEF RestInv, Enclosed
  <2>4. CASE ThreadStart(t) \/ ServiceEnds(t) \/ ThreadClose(t)
    BY <1>4, <2>4 DEF ThreadStart, ServiceEnds, ThreadClose
  <2>5. CASE RegisterP(t) \/ RegisterHead(t) \/ RegisterCount(t) \/ RegisterV(t)
    BY <1>4, <2>5 DEF RegisterP, RegisterHead, RegisterCount, RegisterV
  <2>6. CASE \/ UnregisterP(t) \/ UnregisterTest(t) \/ UnregisterFreeHead(t)
             \/ UnregisterWalk(t) \/ UnregisterFree(t) \/ UnregisterCount(t)
             \/ UnregisterV(t)
    BY <1>4, <2>6 DEF UnregisterP, UnregisterTest, UnregisterFreeHead,
       UnregisterWalk, UnregisterFree, UnregisterCount, UnregisterV
  <2>. QED
    BY <2>1, <2>2, <2>3, <2>4, <2>5, <2>6 DEF Service, Register, Unregister
<1>. QED
  BY <1>1, <1>2, <1>3, <1>4 DEF RestInv, ArgsInv

\* Every pointer that is followed or stored leads to a cell of S; a cell that
\* is being registered joins S.
LEMMA ServiceEnclosed ==
  ASSUME NEW t \in Thread, LockInv, RestInv, Service(t), ~BadCell(t),
         NEW S \in SUBSET Addr, Enclosed(S)
  PROVE  \E R \in SUBSET Addr : Enclosed(R)'
<1> USE NullAssumption DEF LockInv, TypeOK, Goto
<1>1. \A u \in Thread \ {t} : /\ pc'[u] = pc[u] /\ ptr'[u] = ptr[u]
                              /\ prev_fd'[u] = prev_fd[u]
  BY OthersStay
<1>2. pc'[t] # "start"
  BY OwnConnection
<1>3. CASE RegisterNext(t)
  <2>1. /\ ptr[t] \in heap /\ pc'[t] = "r_head" /\ registered_fds' = registered_fds
        /\ \A a \in Addr : next'[a] = IF a = ptr[t] THEN SuccessorOfNew ELSE next[a]
        /\ ptr' = ptr
    BY <1>3 DEF RegisterNext, BadCell, AccessOK, registry
  <2>2. \A u \in Thread : pc[u] = "start" => ptr[u] # ptr[t]
    BY <1>3 DEF RegisterNext, RestInv, ArgsInv, Owns, OwnPC
  <2>3. PICK R \in SUBSET Addr : R = S \cup {ptr[t]}
    BY <2>1
  <2>4. Enclosed(R)'
    BY <1>1, <1>2, <1>3, <2>1, <2>2, <2>3 DEF RegisterNext, Enclosed, SuccessorOfNew
  <2>. QED
    BY <2>4
<1>4. CASE UnregisterUnlink(t)
  <2>1. ptr[t] \in S /\ prev_fd[t] \in S /\ pc'[t] = "u_free"
    BY <1>4 DEF UnregisterUnlink, BadCell, AccessOK, Enclosed
  <2>2. next[ptr[t]] \in S \cup {NULL}
    BY <2>1 DEF Enclosed
  <2>. QED
    BY <1>1, <1>4, <2>1, <2>2 DEF UnregisterUnlink, Enclosed
<1>5. CASE UnregisterWalk(t)
  <2>1. ptr[t] \in S \cup {NULL} /\ prev_fd[t] \in S \cup {NULL}
    BY <1>5 DEF UnregisterWalk, Enclosed
  <2>. QED
    BY <1>1, <1>5, <2>1 DEF UnregisterWalk, Enclosed, registry, cells
<1>6. CASE UnregisterTest(t) \/ RegisterHead(t)
  BY <1>1, <1>6 DEF UnregisterTest, RegisterHead, Enclosed, registry, cells
<1>7. CASE ThreadStart(t) \/ UnregisterFree(t) \/ UnregisterFreeHead(t)
  BY <1>1, <1>7 DEF ThreadStart, UnregisterFree, UnregisterFreeHead, Free,
                   Enclosed, registry
<1>8. CASE \/ ServiceEnds(t) \/ ThreadClose(t) \/ RegisterP(t)
           \/ RegisterAlloc(t) \/ RegisterCount(t) \/ RegisterV(t)
           \/ UnregisterP(t) \/ UnregisterCount(t) \/ UnregisterV(t)
  <2>1. /\ UNCHANGED <<registered_fds, next>>
        /\ pc'[t] \notin {"start", "r_head", "u_walk", "u_unlink"}
    BY <1>8 DEF ServiceEnds, ThreadClose, RegisterP, RegisterAlloc,
       RegisterCount, RegisterV, UnregisterP, UnregisterCount, UnregisterV,
       registry, cells
  <2>. QED
    BY <1>1, <2>1 DEF Enclosed
<1>. QED
  BY <1>3, <1>4, <1>5, <1>6, <1>7, <1>8 DEF Service, Register, Unregister

LEMMA ServiceRestInv ==
  ASSUME NEW t \in Thread, LockInv, RestInv, Service(t), ~BadCell(t)
  PROVE  RestInv'
<1>1. PICK S \in SUBSET Addr : Enclosed(S)
  BY DEF RestInv
<1>2. \E R \in SUBSET Addr : Enclosed(R)'
  BY <1>1, ServiceEnclosed
<1>. QED
  BY <1>2, ServiceDistinct, ServiceArgs DEF RestInv

\* The pointers left when the head is reset: S is the list, with the cell
\* that a thread has linked in front of it and not yet stored in the head.
LEMMA HeadRestInv ==
  ASSUME LockInv, ExactInv, ShutdownHead
  PROVE  RestInv'
<1> USE DEF LockInv, TypeOK
<1>1. registered_fds' = NULL /\ UNCHANGED <<cells, threadVars>>
  BY DEF ShutdownHead
<1>2. DistinctInv' /\ ArgsInv'
  BY <1>1 DEF DistinctInv, ArgsInv, ExactInv, FdInv, OwnInv, Live, Connection,
     Owns, OwnPC, cells, threadVars
<1>3. PICK n \in Nat : \E c \in [1 .. n -> heap] : IsList(c, n)
  BY DEF ExactInv, ListInv
<1>4. PICK c \in [1 .. n -> heap] : IsList(c, n)
  BY <1>3
<1> DEFINE L == {c[k] : k \in 1 .. n}
           H == {ptr[t] : t \in {u \in Thread : pc[u] = "r_head"}}
           S == L \cup H
<1>5. L \subseteq heap /\ H \subseteq heap
  BY DEF ExactInv, OwnInv, Owns, OwnPC
<1>6. \A a \in L : next[a] \in L \cup {NULL}
  <2> SUFFICES ASSUME NEW k \in 1 .. n PROVE next[c[k]] \in L \cup {NULL}
    OBVIOUS
  <2>1. CASE k = n
    BY <1>4, <2>1 DEF IsList, Shape
  <2>2. CASE k # n
    <3>1. k \in 1 .. n - 1 /\ k + 1 \in 1 .. n
      BY <2>2
    <3>2. next[c[k]] = c[k + 1]
      BY <1>4, <3>1 DEF IsList, Shape
    <3>. QED
      BY <3>1, <3>2
  <2>. QED
    BY <2>1, <2>2
<1>7. \A a \in H : next[a] \in L \cup {NULL}
  <2> SUFFICES ASSUME NEW t \in Thread, pc[t] = "r_head"
               PROVE  next[ptr[t]] \in L \cup {NULL}
    OBVIOUS
  <2>1. next[ptr[t]] = SuccessorOfNew
    BY DEF ExactInv, OwnInv
  <2>2. \A u \in Thread : pc[u] \notin UncountedPC
    BY Alone DEF InCritical, CriticalPC, RegisterPC, UnregisterPC, UncountedPC
  <2>3. num_of_clients = n
    BY <1>4, <2>2 DEF IsList, Count
  <2>4. n > 0 => registered_fds = c[1]
    BY <1>4 DEF IsList, Shape
  <2>. QED
    BY <2>1, <2>3, <2>4 DEF SuccessorOfNew
<1>8. \A t \in Thread : pc[t] = "start" => ptr[t] \notin S
  BY <1>4 DEF IsList, Apart, ExactInv, OwnInv, Owns, OwnPC
<1>9. \A t \in Thread : pc[t] \in {"u_walk", "u_unlink"} =>
        ptr[t] \in L /\ prev_fd[t] \in L
  <2> SUFFICES ASSUME NEW t \in Thread, pc[t] \in {"u_walk", "u_unlink"}
               PROVE  ptr[t] \in L /\ prev_fd[t] \in L
    OBVIOUS
  <2>1. PICK k \in 1 .. n : /\ ptr[t] = c[k]
                           /\ prev_fd[t] = IF k = 1 THEN c[1] ELSE c[k - 1]
    BY <1>4 DEF IsList, Walker
  <2>2. 1 \in 1 .. n /\ (k # 1 => k - 1 \in 1 .. n)
    OBVIOUS
  <2>. QED
    BY <2>1, <2>2
<1> HIDE DEF L
<1>10. PICK R \in SUBSET Addr : R = S
  BY <1>5
<1>11. Enclosed(R)'
  BY <1>1, <1>6, <1>7, <1>8, <1>9, <1>10 DEF Enclosed, cells, threadVars
<1>. QED
  BY <1>2, <1>11 DEF RestInv

-----------------------------------------------------------------------------
(* The list through the whole shutdown.                                    *)

\* The steps of terminate() that touch none of ClientRegistry's variables.
IdleTerminate == \/ ShutdownStart \/ ShutdownAdvance \/ ShutdownFault
                 \/ ShutdownDone \/ WaitTest \/ WaitP \/ WaitV \/ CregFini \/ Finish

LEMMA IdlePhases ==
  ASSUME SigHup \/ IdleTerminate \/ UNCHANGED shutdownVars
         \/ \E t \in Thread : ServiceFault(t)
  PROVE  /\ UNCHANGED vars
         /\ term_pc' = "none" => term_pc = "none"
         /\ term_pc' \in {"none"} \cup WalkPC <=> term_pc \in {"none"} \cup WalkPC
BY DEF SigHup, IdleTerminate, ShutdownStart, ShutdownAdvance, ShutdownFault,
       ShutdownDone, WaitTest, WaitP, WaitV, CregFini, Finish, Advance, WalkPC,
       ServiceFault, termVars, shutdownVars

LEMMA StillRestInv ==
  RestInv /\ UNCHANGED <<registered_fds, cells, threadVars>> => RestInv'
<1> SUFFICES ASSUME RestInv, UNCHANGED <<registered_fds, cells, threadVars>>
             PROVE  RestInv'
  OBVIOUS
<1>1. PICK S \in SUBSET Addr : Enclosed(S)
  BY DEF RestInv
<1>2. Enclosed(S)'
  BY <1>1 DEF Enclosed, cells, threadVars
<1>3. DistinctInv' /\ ArgsInv'
  BY DEF RestInv, DistinctInv, ArgsInv, Live, Connection, Owns, cells, threadVars
<1>. QED
  BY <1>2, <1>3 DEF RestInv

\* Only the SIGHUP chooses the thread that runs the handler.
LEMMA HandlerKept ==
  ASSUME PhaseInv, [ShutdownNext]_shutdownVars
  PROVE  /\ handler' = {} => handler = {}
         /\ term_pc' = "none" => term_pc = "none" /\ handler' = handler
         /\ term_pc' = "none" => closed' = closed
BY DEF PhaseInv, ShutdownNext, AcceptStep, ServiceStep, ServiceFault, SigHup,
       Terminate, ShutdownStart, ShutdownClose, ShutdownAdvance, ShutdownFault,
       ShutdownDone, ShutdownHead, ShutdownZero, ShutdownZeroLost, WaitTest, WaitP,
       WaitV, CregFini, Finish, Advance, shutdownVars, termVars, history

LEMMA NextPhaseInv == LockInv /\ PhaseInv /\ [ShutdownNext]_shutdownVars => PhaseInv'
<1> SUFFICES ASSUME LockInv, PhaseInv, [ShutdownNext]_shutdownVars PROVE PhaseInv'
  OBVIOUS
<1>0. /\ handler' = {} => handler = {}
      /\ term_pc' = "none" => handler' = {} /\ \A f \in Fd : closed'[f] = 0
  BY HandlerKept DEF PhaseInv
<1> SUFFICES ASSUME handler = {}, handler' = {} PROVE PhaseInv'
  BY <1>0 DEF PhaseInv
<1>1. CASE AcceptStep
  <2>1. term_pc = "none" /\ term_pc' = term_pc /\ Next
    BY <1>1 DEF AcceptStep, Accepts, Next, termVars
  <2>. QED
    BY <2>1, NextExactInv, NextOpenInv, <1>0 DEF PhaseInv
<1>2. ASSUME NEW t \in Thread, ServiceStep(t) PROVE PhaseInv'
  <2>1. term_pc' = term_pc /\ Service(t) /\ ~BadCell(t)
    BY <1>2 DEF ServiceStep
  <2>2. CASE term_pc = "none"
    BY <2>1, <2>2, ServiceExactInv, ServiceOpenInv, <1>0 DEF PhaseInv
  <2>3. CASE term_pc \in WalkPC
    BY <2>1, <2>3, ServiceExactInv, <1>0 DEF PhaseInv, WalkPC
  <2>4. CASE term_pc \notin {"none"} \cup WalkPC
    BY <2>1, <2>4, ServiceRestInv, <1>0 DEF PhaseInv
  <2>. QED
    BY <2>2, <2>3, <2>4
<1>3. CASE ShutdownClose
  <2>1. UNCHANGED <<registry, cells, mainVars, threadVars>>
        /\ term_pc = "s_loop" /\ term_pc' = "s_advance"
    BY <1>3 DEF ShutdownClose, Advance
  <2>. QED
    BY <2>1, StillExactInv, <1>0 DEF PhaseInv, WalkPC
<1>4. CASE ShutdownHead
  <2>1. term_pc = "s_head" /\ term_pc' = "s_zero"
    BY <1>4 DEF ShutdownHead, Advance
  <2>. QED
    BY <1>4, <2>1, HeadRestInv, <1>0 DEF PhaseInv, WalkPC
<1>5. CASE ShutdownZero
  <2>1. UNCHANGED <<registered_fds, cells, threadVars>>
        /\ term_pc = "s_zero" /\ term_pc' = "w_test"
    BY <1>5 DEF ShutdownZero, Advance
  <2>. QED
    BY <2>1, StillRestInv, <1>0 DEF PhaseInv, WalkPC
<1>6. CASE ShutdownZeroLost
  <2>1. term_pc = "s_zero" /\ term_pc' = "w_test"
    BY <1>6 DEF ShutdownZeroLost, Advance
  <2>2. PICK t \in Thread : RegisterCount(t) \/ UnregisterCount(t)
    BY <1>6 DEF ShutdownZeroLost
  <2>3. Service(t) /\ ~BadCell(t)
    BY <2>2 DEF Service, Register, Unregister, RegisterCount, UnregisterCount,
                Goto, BadCell, AccessOK
  <2>. QED
    BY <2>1, <2>3, ServiceRestInv, <1>0 DEF PhaseInv, WalkPC
<1>7. CASE SigHup \/ IdleTerminate \/ UNCHANGED shutdownVars
           \/ \E t \in Thread : ServiceFault(t)
  <2>1. /\ UNCHANGED vars
        /\ term_pc' = "none" => term_pc = "none"
        /\ term_pc' \in {"none"} \cup WalkPC <=> term_pc \in {"none"} \cup WalkPC
    BY <1>7, IdlePhases
  <2>2. ExactInv => ExactInv'
    BY <2>1, StillExactInv DEF vars
  <2>3. RestInv => RestInv'
    BY <2>1, StillRestInv DEF vars, registry
  <2>4. OpenInv => OpenInv'
    BY <2>1 DEF vars, cells, mainVars, threadVars, OpenInv, Live, Connection
  <2>. QED
    BY <1>0, <2>1, <2>2, <2>3, <2>4 DEF PhaseInv
<1>. QED
  BY <1>1, <1>2, <1>3, <1>4, <1>5, <1>6, <1>7
     DEF ShutdownNext, Terminate, IdleTerminate

-----------------------------------------------------------------------------
(* The walk of creg_shutdown_all while no thread is in the registry.       *)

\* The SIGHUP finds the list of ClientRegistryProofs at rest.
LEMMA HupWalk ==
  ASSUME ShutdownTypeOK, LockInv, PhaseInv, SigHup,
         \A t \in Thread : ~InCritical(t)
  PROVE  WalkInv' /\ HandoverInv'
<1>1. /\ ExactInv /\ UNCHANGED <<vars, closed>> /\ term_pc' = "s_start"
      /\ \A f \in Fd : closed[f] = 0
  BY DEF SigHup, Advance, PhaseInv
<1>2. PICK n \in Nat : \E c \in [1 .. n -> heap] : IsList(c, n)
  BY <1>1 DEF ExactInv, ListInv
<1>3. PICK c \in [1 .. n -> heap] : IsList(c, n)
  BY <1>2
<1>4. num_of_clients = n
  BY <1>3 DEF IsList, Count, UncountedPC, InCritical, CriticalPC, RegisterPC,
              UnregisterPC
<1>5. \A j \in 1 .. n : /\ main_pc # "malloc" => connfdp # c[j]
                        /\ \A t \in Thread : pc[t] = "start" => ptr[t] # c[j]
  BY <1>3 DEF IsList, Apart, Owns, OwnPC
<1>6. \A f \in Fd : Registered(f) <=> \E j \in 1 .. n : curr_fd[c[j]] = f
  <2>1. \A t \in Thread : Member(t) <=> t \in RegisteredThread
    BY DEF Member, MemberPC, RegisteredThread, InCritical, CriticalPC, RegisterPC,
           UnregisterPC
  <2>2. /\ \A j \in 1 .. n : \E t \in RegisteredThread : fd[t] = curr_fd[c[j]]
        /\ \A t \in RegisteredThread : \E j \in 1 .. n : fd[t] = curr_fd[c[j]]
    BY <1>3, <2>1 DEF IsList, Contents, RegisteredThread
  <2>. QED
    BY <2>2 DEF Registered
<1>7. Shape(c, n) /\ \A j, k \in 1 .. n : curr_fd[c[j]] = curr_fd[c[k]] => j = k
  BY <1>3 DEF IsList, Contents
<1>8. Frozen(c, n)' /\ At(c, n)'
  BY <1>1, <1>4, <1>5, <1>6, <1>7
     DEF Frozen, Shape, Registered, RegisteredThread, At, ClosedUpTo, vars,
         registry, cells, mainVars, threadVars
<1>9. HandoverInv'
  BY <1>1 DEF HandoverInv, ExactInv, OwnInv, Owns, OwnPC, vars, cells, mainVars,
              threadVars
<1>. QED
  BY <1>1, <1>8, <1>9 DEF WalkInv, vars, cells

\* A step that changes nothing the walk depends on leaves it where it is.
LEMMA WalkStays ==
  ASSUME WalkInv, UNCHANGED vars, UNCHANGED <<term_pc, temp_fd, i, closed>>
  PROVE  WalkInv'
<1>1. PICK n \in Nat : \E c \in [1 .. n -> heap] : Frozen(c, n) /\ At(c, n)
  BY DEF WalkInv
<1>2. PICK c \in [1 .. n -> heap] : Frozen(c, n) /\ At(c, n)
  BY <1>1
<1>3. UNCHANGED <<registry, cells, mainVars, threadVars>>
  BY DEF vars
<1>4. /\ UNCHANGED <<num_of_clients, registered_fds, heap, curr_fd, next>>
      /\ UNCHANGED <<main_pc, connfdp, pc, fd, ptr>>
  BY <1>3 DEF registry, cells, mainVars, threadVars
<1>5. Shape(c, n)'
  BY <1>2, <1>4 DEF Frozen, Shape
<1>6. \A f \in Fd : Registered(f)' <=> Registered(f)
  BY <1>4 DEF Registered, RegisteredThread
<1>7. Frozen(c, n)'
  BY <1>2, <1>4, <1>5, <1>6 DEF Frozen
<1>8. At(c, n)'
  BY <1>2, <1>4 DEF At, ClosedUpTo
<1>. QED
  BY <1>4, <1>7, <1>8 DEF WalkInv

\* What the walk depends on: the list and its cells, the cells handed over, and
\* the descriptors of the registered threads.
LEMMA KeepsWalk ==
  ASSUME WalkInv, i \in Nat, UNCHANGED <<term_pc, temp_fd, i, closed>>,
         UNCHANGED <<num_of_clients, registered_fds>>,
         \A f \in Fd : Registered(f)' <=> Registered(f),
         \A a \in heap : ~(main_pc # "malloc" /\ connfdp = a)
                         /\ (\A t \in Thread : pc[t] = "start" => ptr[t] # a) =>
           /\ a \in heap' /\ curr_fd'[a] = curr_fd[a] /\ next'[a] = next[a]
           /\ main_pc' # "malloc" => connfdp' # a
           /\ \A t \in Thread : pc'[t] = "start" => ptr'[t] # a
  PROVE  WalkInv'
<1>1. PICK n \in Nat : \E c \in [1 .. n -> heap] : Frozen(c, n) /\ At(c, n)
  BY DEF WalkInv
<1>2. PICK c \in [1 .. n -> heap] : Frozen(c, n) /\ At(c, n)
  BY <1>1
<1>3. \A j \in 1 .. n : /\ c[j] \in heap' /\ curr_fd'[c[j]] = curr_fd[c[j]]
                        /\ next'[c[j]] = next[c[j]]
                        /\ main_pc' # "malloc" => connfdp' # c[j]
                        /\ \A t \in Thread : pc'[t] = "start" => ptr'[t] # c[j]
  BY <1>2 DEF Frozen
<1>4. Shape(c, n)'
  BY <1>2, <1>3 DEF Frozen, Shape
<1>5. Frozen(c, n)'
  BY <1>2, <1>3, <1>4 DEF Frozen
<1>6. At(c, n)'
  <2>1. \A k \in 0 .. n : \A f \in Fd :
          (\E j \in 1 .. k : curr_fd[c[j]] = f) <=> \E j \in 1 .. k : curr_fd'[c[j]] = f
    <3>1. \A k \in 0 .. n : \A j \in 1 .. k : curr_fd'[c[j]] = curr_fd[c[j]]
      BY <1>3
    <3>. QED
      BY <3>1
  <2>2. ASSUME term_pc = "s_start" PROVE ClosedUpTo(c, 0)'
    <3>1. 0 \in 0 .. n /\ ClosedUpTo(c, 0)
      BY <1>2, <2>2 DEF At
    <3>2. \A f \in Fd : (\E j \in 1 .. 0 : curr_fd[c[j]] = f)
                        <=> \E j \in 1 .. 0 : curr_fd'[c[j]] = f
      BY <2>1, <3>1
    <3>. QED
      BY <3>1, <3>2 DEF ClosedUpTo
  <2>3. ASSUME term_pc = "s_loop" PROVE ClosedUpTo(c, i)'
    <3>1. i \in 0 .. n /\ ClosedUpTo(c, i)
      BY <1>2, <2>3 DEF At
    <3>2. \A f \in Fd : (\E j \in 1 .. i : curr_fd[c[j]] = f)
                        <=> \E j \in 1 .. i : curr_fd'[c[j]] = f
      BY <2>1, <3>1
    <3>. QED
      BY <3>1, <3>2 DEF ClosedUpTo
  <2>4. ASSUME term_pc = "s_advance" PROVE ClosedUpTo(c, i + 1)'
    <3>1. i + 1 \in 0 .. n /\ ClosedUpTo(c, i + 1)
      BY <1>2, <2>4 DEF At
    <3>2. \A f \in Fd : (\E j \in 1 .. i + 1 : curr_fd[c[j]] = f)
                        <=> \E j \in 1 .. i + 1 : curr_fd'[c[j]] = f
      BY <2>1, <3>1
    <3>. QED
      BY <3>1, <3>2 DEF ClosedUpTo
  <2>5. ASSUME term_pc = "s_head" PROVE ClosedUpTo(c, n)'
    <3>1. n \in 0 .. n /\ ClosedUpTo(c, n)
      BY <1>2, <2>5 DEF At
    <3>2. \A f \in Fd : (\E j \in 1 .. n : curr_fd[c[j]] = f)
                        <=> \E j \in 1 .. n : curr_fd'[c[j]] = f
      BY <2>1, <3>1
    <3>. QED
      BY <3>1, <3>2 DEF ClosedUpTo
  <2>. QED
    BY <1>2, <2>2, <2>3, <2>4, <2>5 DEF At
<1>7. c \in [1 .. n -> heap']
  BY <1>3
<1>. QED
  BY <1>5, <1>6, <1>7 DEF WalkInv

\* Threads that are not in the registry leave the list alone.
LEMMA ServiceOutside ==
  ASSUME NEW t \in Thread, LockInv, HandoverInv, Service(t), ~Register(t),
         ~Unregister(t)
  PROVE  /\ HandoverInv'
         /\ UNCHANGED <<num_of_clients, registered_fds>>
         /\ \A f \in Fd : Registered(f)' <=> Registered(f)
         /\ pc'[t] \notin CriticalPC
         /\ \A a \in heap : (\A u \in Thread : pc[u] = "start" => ptr[u] # a) =>
              /\ a \in heap' /\ curr_fd'[a] = curr_fd[a] /\ next'[a] = next[a]
              /\ \A u \in Thread : pc'[u] = "start" => ptr'[u] # a
<1> USE DEF LockInv, TypeOK, Goto
<1>1. \A u \in Thread \ {t} : /\ pc'[u] = pc[u] /\ ptr'[u] = ptr[u]
                              /\ fd'[u] = fd[u]
  BY OthersStay
<1>2. /\ UNCHANGED <<num_of_clients, registered_fds, mainVars>>
      /\ pc'[t] # "start" /\ pc'[t] \notin CriticalPC
  BY DEF Service, ThreadStart, ServiceEnds, ThreadClose, registry, CriticalPC,
         RegisterPC, UnregisterPC
<1>3. \A f \in Fd : Registered(f)' <=> Registered(f)
  <2>1. /\ t \in RegisteredThread <=> t \in RegisteredThread'
        /\ t \in RegisteredThread => fd'[t] = fd[t]
    BY DEF Service, ThreadStart, ServiceEnds, ThreadClose, RegisteredThread
  <2>2. \A u \in Thread : /\ u \in RegisteredThread <=> u \in RegisteredThread'
                          /\ u \in RegisteredThread => fd'[u] = fd[u]
    BY <1>1, <2>1 DEF RegisteredThread
  <2>3. RegisteredThread' = RegisteredThread /\ RegisteredThread \subseteq Thread
    BY <2>2 DEF RegisteredThread
  <2>. QED
    BY <2>2, <2>3 DEF Registered
<1>4. \A a \in Addr : pc[t] # "start" \/ a # ptr[t] =>
        (a \in heap <=> a \in heap') /\ curr_fd'[a] = curr_fd[a] /\ next'[a] = next[a]
  <2>1. CASE ThreadStart(t)
    BY <2>1 DEF ThreadStart, Free
  <2>2. CASE ServiceEnds(t) \/ ThreadClose(t)
    BY <2>2 DEF ServiceEnds, ThreadClose, cells
  <2>. QED
    BY <2>1, <2>2 DEF Service
<1>5. HandoverInv'
  <2>1. main_pc # "malloc" => connfdp \in heap'
    BY <1>4 DEF HandoverInv
  <2>2. \A u \in Thread : pc'[u] = "start" => u # t /\ pc[u] = "start"
    BY <1>1, <1>2
  <2>3. \A u \in Thread : pc'[u] = "start" => ptr[u] \in heap'
    BY <1>4, <2>2 DEF HandoverInv
  <2>. QED
    BY <1>1, <1>2, <2>1, <2>2, <2>3 DEF HandoverInv, mainVars
<1>. QED
  BY <1>1, <1>2, <1>3, <1>4, <1>5

\* main() writes to the cell that it is about to hand over only.
LEMMA MainOutside ==
  ASSUME LockInv, HandoverInv, Main
  PROVE  /\ HandoverInv'
         /\ UNCHANGED <<num_of_clients, registered_fds>>
         /\ \A f \in Fd : Registered(f)' <=> Registered(f)
         /\ \A t \in Thread : InCritical(t)' <=> InCritical(t)
         /\ \A a \in heap : ~(main_pc # "malloc" /\ connfdp = a)
                            /\ (\A t \in Thread : pc[t] = "start" => ptr[t] # a) =>
              /\ a \in heap' /\ curr_fd'[a] = curr_fd[a] /\ next'[a] = next[a]
              /\ main_pc' # "malloc" => connfdp' # a
              /\ \A t \in Thread : pc'[t] = "start" => ptr'[t] # a
<1> USE DEF LockInv, TypeOK, HandoverInv, Registered, RegisteredThread, InCritical,
            registry, cells, threadVars
<1>1. CASE MainMalloc
  BY <1>1 DEF MainMalloc
<1>2. CASE MainAccept
  BY <1>2 DEF MainAccept
<1>3. CASE MainCreate
  <2>1. PICK t \in Thread : Goto(t, "idle", "start")
                            /\ ptr' = [ptr EXCEPT ![t] = connfdp]
    BY <1>3 DEF MainCreate
  <2>2. /\ UNCHANGED <<registry, cells, fd, connfdp>>
        /\ main_pc = "create" /\ main_pc' = "malloc"
    BY <1>3 DEF MainCreate
  <2>3. \A u \in Thread : /\ u # t => pc'[u] = pc[u] /\ ptr'[u] = ptr[u]
                          /\ pc[t] = "idle" /\ pc'[t] = "start" /\ ptr'[t] = connfdp
    BY <2>1 DEF Goto
  <2>4. \A u \in Thread : InCritical(u)' <=> InCritical(u)
    BY <2>3 DEF CriticalPC, RegisterPC, UnregisterPC
  <2>5. RegisteredThread' = RegisteredThread
    BY <2>3
  <2>6. HandoverInv'
    BY <2>2, <2>3
  <2>. QED
    BY <2>2, <2>3, <2>4, <2>5, <2>6
<1>. QED
  BY <1>1, <1>2, <1>3 DEF Main

\* The walk itself: it closes c[i + 1], then goes on to the next cell.
LEMMA TerminateWalk ==
  ASSUME ShutdownTypeOK, WalkInv,
         ShutdownStart \/ ShutdownClose \/ ShutdownAdvance \/ ShutdownDone
  PROVE  WalkInv'
<1> USE DEF ShutdownTypeOK, Advance
<1>1. PICK n \in Nat : \E c \in [1 .. n -> heap] : Frozen(c, n) /\ At(c, n)
  BY DEF WalkInv
<1>2. PICK c \in [1 .. n -> heap] : Frozen(c, n) /\ At(c, n)
  BY <1>1
<1>3. UNCHANGED <<registry, cells, mainVars, threadVars>>
  BY DEF ShutdownStart, ShutdownClose, ShutdownAdvance, ShutdownDone, vars
<1>4. Shape(c, n)'
  BY <1>2, <1>3 DEF Frozen, Shape, registry, cells
<1>5. Frozen(c, n)'
  BY <1>2, <1>3, <1>4 DEF Frozen, Registered, RegisteredThread, registry, cells,
     mainVars, threadVars
<1>6. At(c, n)'
  <2>1. CASE ShutdownStart
    BY <1>2, <2>1 DEF ShutdownStart, Frozen, Shape, At, ClosedUpTo, vars, cells,
       history
  <2>2. CASE ShutdownClose
    <3>1. /\ i < n /\ temp_fd = c[i + 1] /\ ClosedUpTo(c, i) /\ i \in Nat
          /\ closed' = [closed EXCEPT ![curr_fd[c[i + 1]]] = @ + 1]
          /\ UNCHANGED <<curr_fd, i, temp_fd>> /\ term_pc' = "s_advance"
      BY <1>2, <2>2 DEF ShutdownClose, MoreClients, Frozen, At, cells
    <3>2. ClosedUpTo(c, i + 1)'
      <4> SUFFICES ASSUME NEW f \in Fd
                   PROVE  closed'[f] = IF \E j \in 1 .. i + 1 : curr_fd[c[j]] = f
                                       THEN 1 ELSE 0
        BY <3>1 DEF ClosedUpTo
      <4>1. closed[f] = IF \E j \in 1 .. i : curr_fd[c[j]] = f THEN 1 ELSE 0
        BY <3>1 DEF ClosedUpTo
      <4>2. 1 .. i + 1 = 1 .. i \cup {i + 1}
        BY <3>1
      <4>3. CASE curr_fd[c[i + 1]] = f
        <5>1. \A j \in 1 .. i : curr_fd[c[j]] # f
          BY <1>2, <3>1, <4>3 DEF Frozen
        <5>2. closed'[f] = closed[f] + 1
          BY <3>1, <4>3
        <5>. QED
          BY <4>1, <4>2, <4>3, <5>1, <5>2
      <4>4. CASE curr_fd[c[i + 1]] # f
        <5>1. closed'[f] = closed[f]
          BY <3>1, <4>4
        <5>. QED
          BY <4>1, <4>2, <4>4, <5>1
      <4>. QED
        BY <4>3, <4>4
    <3>. QED
      BY <3>1, <3>2 DEF At
  <2>3. CASE ShutdownAdvance
    <3>1. /\ i < n /\ temp_fd = c[i + 1] /\ ClosedUpTo(c, i + 1) /\ i \in Nat
          /\ temp_fd' = next[c[i + 1]] /\ i' = i + 1
          /\ UNCHANGED <<curr_fd, closed>> /\ term_pc' = "s_loop"
      BY <1>2, <2>3 DEF ShutdownAdvance, At, vars, cells, history
    <3>2. i + 1 < n => next[c[i + 1]] = c[(i + 1) + 1]
      BY <1>2, <3>1 DEF Frozen, Shape
    <3>3. ClosedUpTo(c, i)'
      BY <3>1 DEF ClosedUpTo
    <3>. QED
      BY <3>1, <3>2, <3>3 DEF At
  <2>4. CASE ShutdownDone
    <3>1. /\ i = n /\ ClosedUpTo(c, i)
          /\ UNCHANGED <<curr_fd, closed>> /\ term_pc' = "s_head"
      BY <1>2, <2>4 DEF ShutdownDone, MoreClients, Frozen, At, vars, cells, history
    <3>2. ClosedUpTo(c, n)'
      BY <3>1 DEF ClosedUpTo
    <3>. QED
      BY <3>1, <3>2 DEF At
  <2>. QED
    BY <2>1, <2>2, <2>3, <2>4
<1>. QED
  BY <1>3, <1>5, <1>6 DEF WalkInv, cells

\* At the end of the list each registered client has been closed once.
LEMMA WalkEndsClosed == WalkInv' /\ term_pc' = "s_head" => ClosedOnce'
<1> SUFFICES ASSUME WalkInv', term_pc' = "s_head" PROVE ClosedOnce'
  OBVIOUS
<1>1. PICK n \in Nat : \E c \in [1 .. n -> heap'] : Frozen(c, n)' /\ At(c, n)'
  BY DEF WalkInv
<1>2. PICK c \in [1 .. n -> heap'] : Frozen(c, n)' /\ At(c, n)'
  BY <1>1
<1>. QED
  BY <1>2 DEF Frozen, At, ClosedUpTo, ClosedOnce

\* No fault: outside the registry a thread touches only its argument, and the
\* walk only the cells of the list.
LEMMA QuietFaultless ==
  ASSUME ShutdownTypeOK, QuietInv, quiet, term_pc \in ShutdownAllPC
  PROVE  /\ \A t \in Thread : ~BadCell(t)
         /\ ~ShutdownFault
<1>1. ASSUME NEW t \in Thread PROVE ~BadCell(t)
  <2>1. ~InCritical(t)
    BY DEF QuietInv
  <2>2. pc[t] = "start" => ptr[t] \in heap
    BY DEF QuietInv, HandoverInv
  <2>. QED
    BY <2>1, <2>2 DEF BadCell, AccessOK, InCritical, CriticalPC, RegisterPC,
                      UnregisterPC
<1>2. ASSUME ShutdownFault PROVE FALSE
  <2>1. WalkInv
    BY <1>2 DEF ShutdownFault, QuietInv, WalkPC
  <2>2. PICK n \in Nat : \E c \in [1 .. n -> heap] : Frozen(c, n) /\ At(c, n)
    BY <2>1 DEF WalkInv
  <2>3. PICK c \in [1 .. n -> heap] : Frozen(c, n) /\ At(c, n)
    BY <2>2
  <2>4. i \in Nat /\ i < n /\ temp_fd = c[i + 1]
    BY <1>2, <2>3 DEF ShutdownFault, MoreClients, Frozen, At, ShutdownTypeOK
  <2>. QED
    BY <1>2, <2>4 DEF ShutdownFault
<1>. QED
  BY <1>1, <1>2

\* A step of main() or of a service thread outside the registry.
LEMMA OutsideQuietInv ==
  ASSUME ShutdownTypeOK, LockInv, QuietInv, quiet, UNCHANGED <<termVars, fault>>,
         term_pc \in ShutdownAllPC,
         \/ Main
         \/ \E t \in Thread : Service(t) /\ ~Register(t) /\ ~Unregister(t)
  PROVE  QuietInv'
<1>1. HandoverInv /\ \A t \in Thread : ~InCritical(t)
  BY DEF QuietInv
<1>2. i \in Nat /\ UNCHANGED <<term_pc, temp_fd, i, closed, quiet>>
  BY DEF termVars, ShutdownTypeOK
<1>3. WalkEnded => ClosedOnce
  BY DEF QuietInv
<1>4. CASE Main
  <2>1. HandoverInv' /\ \A t \in Thread : ~InCritical(t)'
    BY <1>1, <1>4, MainOutside
  <2>2. term_pc \in WalkPC => WalkInv'
    BY <1>1, <1>2, <1>4, MainOutside, KeepsWalk DEF QuietInv
  <2>3. \A f \in Fd : Registered(f)' <=> Registered(f)
    BY <1>1, <1>4, MainOutside
  <2>4. (WalkEnded => ClosedOnce)'
    BY <1>2, <1>3, <2>3 DEF WalkEnded, ClosedOnce
  <2>. QED
    BY <1>2, <2>1, <2>2, <2>4 DEF QuietInv
<1>5. ASSUME NEW t \in Thread, Service(t), ~Register(t), ~Unregister(t)
      PROVE  QuietInv'
  <2>1. HandoverInv' /\ \A f \in Fd : Registered(f)' <=> Registered(f)
    BY <1>1, <1>5, ServiceOutside
  <2>2. \A u \in Thread : ~InCritical(u)'
    <3>1. \A u \in Thread \ {t} : pc'[u] = pc[u]
      BY <1>5, OthersStay
    <3>2. pc'[t] \notin CriticalPC
      BY <1>1, <1>5, ServiceOutside
    <3>. QED
      BY <1>1, <3>1, <3>2 DEF InCritical
  <2>3. UNCHANGED mainVars
    BY <1>5 DEF Service, ThreadStart, ServiceEnds, ThreadClose
  <2>4. term_pc \in WalkPC => WalkInv'
    <3>1. \A a \in heap : (\A u \in Thread : pc[u] = "start" => ptr[u] # a) =>
              /\ a \in heap' /\ curr_fd'[a] = curr_fd[a] /\ next'[a] = next[a]
              /\ \A u \in Thread : pc'[u] = "start" => ptr'[u] # a
      BY <1>1, <1>5, ServiceOutside
    <3>2. UNCHANGED <<num_of_clients, registered_fds, main_pc, connfdp>>
      BY <1>1, <1>5, <2>3, ServiceOutside DEF mainVars
    <3>. QED
      BY <1>2, <2>1, <3>1, <3>2, KeepsWalk DEF QuietInv
  <2>5. (WalkEnded => ClosedOnce)'
    BY <1>2, <1>3, <2>1 DEF WalkEnded, ClosedOnce
  <2>. QED
    BY <1>2, <2>1, <2>2, <2>4, <2>5 DEF QuietInv
<1>. QED
  BY <1>4, <1>5

LEMMA NextQuietInv ==
  ShutdownTypeOK /\ LockInv /\ PhaseInv /\ QuietInv
    /\ [ShutdownNext]_shutdownVars => QuietInv'
<1> SUFFICES ASSUME ShutdownTypeOK, LockInv, PhaseInv, QuietInv,
                    [ShutdownNext]_shutdownVars, quiet'
             PROVE  QuietInv'
  BY DEF QuietInv
<1> USE DEF WalkEnded
<1>1. CASE AcceptStep
  <2>1. quiet /\ Main /\ UNCHANGED <<termVars, fault>>
    BY <1>1 DEF AcceptStep, termVars
  <2>2. CASE term_pc \in ShutdownAllPC
    BY <2>1, <2>2, OutsideQuietInv
  <2>3. CASE term_pc \notin ShutdownAllPC
    BY <2>1, <2>3 DEF QuietInv, ShutdownAllPC, WalkPC, termVars
  <2>. QED
    BY <2>2, <2>3
<1>2. CASE SigHup
  <2>1. \A t \in Thread : ~InCritical(t)
    BY <1>2 DEF SigHup
  <2>2. /\ term_pc' = "s_start" /\ fault' = "none"
        /\ \A t \in Thread : ~InCritical(t)'
    BY <1>2, <2>1 DEF SigHup, Advance, Running, vars, threadVars, InCritical
  <2>. QED
    BY <1>2, <2>1, <2>2, HupWalk DEF QuietInv, WalkPC
<1>3. ASSUME NEW t \in Thread, ServiceStep(t) PROVE QuietInv'
  <2>1. /\ quiet /\ Service(t)
        /\ UNCHANGED <<term_pc, temp_fd, i, closed, handler, mutex_e, cr_freed, fault>>
        /\ term_pc \in ShutdownAllPC => ~Register(t) /\ ~Unregister(t)
    BY <1>3 DEF ServiceStep
  <2>2. CASE term_pc \in ShutdownAllPC
    <3>1. quiet' = quiet
      BY <1>3, <2>1, <2>2 DEF ServiceStep
    <3>. QED
      BY <2>1, <2>2, <3>1, OutsideQuietInv DEF termVars
  <2>3. CASE term_pc \notin ShutdownAllPC
    BY <2>1, <2>3 DEF QuietInv, ShutdownAllPC, WalkPC
  <2>. QED
    BY <2>2, <2>3
<1>4. ASSUME NEW t \in Thread, ServiceFault(t) PROVE QuietInv'
  <2>1. /\ UNCHANGED vars /\ UNCHANGED termVars
        /\ fault' = "freed_registry" \/ BadCell(t)
    BY <1>4 DEF ServiceFault
  <2>2. /\ \A u \in Thread : InCritical(u)' <=> InCritical(u)
        /\ HandoverInv' <=> HandoverInv
        /\ ClosedOnce' <=> ClosedOnce
    BY <2>1 DEF InCritical, HandoverInv, ClosedOnce, Registered, RegisteredThread,
                vars, cells, mainVars, threadVars, termVars
  <2>3. term_pc \in ShutdownAllPC => fault' = "freed_registry"
    BY <2>1, QuietFaultless DEF termVars
  <2>4. WalkInv => WalkInv'
    BY <2>1, WalkStays DEF termVars
  <2>. QED
    BY <2>1, <2>2, <2>3, <2>4 DEF QuietInv, termVars
<1>5. CASE ShutdownStart \/ ShutdownClose \/ ShutdownAdvance \/ ShutdownDone
  <2>1. /\ quiet /\ term_pc \in WalkPC /\ term_pc' \in WalkPC
        /\ UNCHANGED <<mainVars, threadVars, heap, fault>>
        /\ term_pc' # "s_zero"
    BY <1>5 DEF ShutdownStart, ShutdownClose, ShutdownAdvance, ShutdownDone,
                Advance, WalkPC, vars, cells, history
  <2>2. WalkInv'
    BY <1>5, <2>1, TerminateWalk DEF QuietInv
  <2>3. term_pc \in ShutdownAllPC
    BY <2>1 DEF WalkPC, ShutdownAllPC
  <2>4. term_pc' = "s_head" => ClosedOnce'
    BY <2>2, WalkEndsClosed
  <2>5. HandoverInv'
    BY <2>1, <2>3 DEF QuietInv, HandoverInv, mainVars, threadVars
  <2>. QED
    BY <2>1, <2>2, <2>3, <2>4, <2>5 DEF QuietInv, InCritical, threadVars
<1>6. CASE ShutdownFault
  <2>1. quiet /\ term_pc \in ShutdownAllPC
    BY <1>6 DEF ShutdownFault, termVars, ShutdownAllPC
  <2>. QED
    BY <1>6, <2>1, QuietFaultless
<1>7. CASE ShutdownHead
  <2>1. /\ quiet /\ term_pc = "s_head" /\ term_pc' = "s_zero"
        /\ UNCHANGED <<mainVars, threadVars, heap, fault, closed>>
    BY <1>7 DEF ShutdownHead, Advance, cells, history
  <2>2. ClosedOnce'
    BY <2>1 DEF QuietInv, ClosedOnce, Registered, RegisteredThread, threadVars
  <2>3. HandoverInv'
    BY <2>1 DEF QuietInv, ShutdownAllPC, HandoverInv, mainVars, threadVars
  <2>. QED
    BY <2>1, <2>2, <2>3 DEF QuietInv, InCritical, threadVars, WalkPC, ShutdownAllPC
<1>8. CASE ShutdownZero
  BY <1>8 DEF ShutdownZero, Advance, QuietInv, WalkPC, ShutdownAllPC
<1>9. CASE ShutdownZeroLost
  BY <1>9 DEF ShutdownZeroLost
<1>10. CASE WaitTest \/ WaitP \/ WaitV \/ CregFini \/ Finish
  BY <1>10 DEF WaitTest, WaitP, WaitV, CregFini, Finish, Advance, QuietInv,
               WalkPC, ShutdownAllPC
<1>11. CASE UNCHANGED shutdownVars
  <2>1. WalkInv => WalkInv'
    BY <1>11, WalkStays DEF shutdownVars, termVars
  <2>2. /\ \A u \in Thread : InCritical(u)' <=> InCritical(u)
        /\ HandoverInv' <=> HandoverInv
        /\ ClosedOnce' <=> ClosedOnce
    BY <1>11 DEF InCritical, HandoverInv, ClosedOnce, Registered, RegisteredThread,
                 shutdownVars, vars, cells, mainVars, threadVars, termVars
  <2>. QED
    BY <1>11, <2>1, <2>2 DEF QuietInv, shutdownVars, termVars
<1>. QED
  BY <1>1, <1>2, <1>3, <1>4, <1>5, <1>6, <1>7, <1>8, <1>9, <1>10, <1>11
     DEF ShutdownNext, Terminate

-----------------------------------------------------------------------------
LEMMA ShutdownInvariant == ShutdownSpec => []ShutdownInv
<1>1. ShutdownInv /\ [ShutdownNext]_shutdownVars => ShutdownInv'
  BY NextShutdownTypeOK, NextShutdownLockInv, NextPhaseInv, NextQuietInv
     DEF ShutdownInv
<1>. QED
  BY InitShutdownInv, <1>1, PTL DEF ShutdownSpec

\* Every variable of the shutdown keeps its type; in particular cr->mutex
\* stays a binary semaphore while terminate() resets the registry under it.
THEOREM ShutdownTypeCorrect == ShutdownSpec => []ShutdownTypeOK
<1>1. ShutdownInv => ShutdownTypeOK
  BY DEF ShutdownInv
<1>. QED
  BY <1>1, ShutdownInvariant, PTL

\* creg_shutdown_all, without the semaphore, closes each registered client once
\* and nothing else, and no access is invalid meanwhile, for any number of
\* threads and whichever of them runs it, if none is inside the registry from
\* the SIGHUP to the end of the walk.
THEOREM QuietShutdownIsExact == ShutdownSpec => []QuietShutdownExact
<1>1. ShutdownInv => QuietShutdownExact
  BY DEF ShutdownInv, QuietInv, ClosedOnce, Registered, QuietShutdownExact
<1>. QED
  BY <1>1, ShutdownInvariant, PTL

\* A descriptor that creg_shutdown_all closes is closed again by its thread
\* (server.c:97): where main() runs the handler the second close() hits nobody
\* else's connection, whatever the threads do in a registry that is reset under
\* them.
THEOREM DescriptorsNeverShared == ShutdownSpec => []NoSharedDescriptor
<1>1. ShutdownInv => NoSharedDescriptor
  <2>1. ShutdownInv => (handler = {} => DistinctInv)
    BY DEF ShutdownInv, PhaseInv, RestInv, ExactInv, FdInv, DistinctInv
  <2>2. \A t \in Thread : HoldsFd(t) => Live(t) /\ Connection(t) = fd[t]
    BY DEF HoldsFd, Live, Connection
  <2>. QED
    BY <2>1, <2>2 DEF DistinctInv, NoSharedDescriptor
<1>. QED
  BY <1>1, ShutdownInvariant, PTL
=============================================================================
