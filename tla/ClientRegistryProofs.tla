------------------------ MODULE ClientRegistryProofs ------------------------
(***************************************************************************)
(* Proofs about the client registry, for any sets of threads, descriptors  *)
(* and heap cells: the semaphore excludes; the registry is an exact list   *)
(* of the connections at every step, also between P() and V(); it          *)
(* implements the set of RegistrySet; and no cell leaks.                   *)
(***************************************************************************)
EXTENDS ClientRegistry, FunctionTheorems, FiniteSetTheorems,
        WellFoundedInduction, TLAPS

(* The semaphore part of the invariant: TypeOK alone is not inductive,     *)
(* because V() adds one and keeps mutex in {0, 1} only when the caller     *)
(* holds it, and because a cell read through a null pointer has no type.   *)
PointersSet ==
  /\ main_pc # "malloc" => connfdp # NULL
  /\ \A t \in Thread : pc[t] \in {"start", "u_unlink"} => ptr[t] # NULL

LockInv == TypeOK /\ PointersSet /\ MutualExclusion

LEMMA InitLockInv == Init => LockInv
  BY DEF Init, LockInv, TypeOK, PointersSet, MutualExclusion, InCritical, PC,
         CriticalPC, RegisterPC, UnregisterPC

\* The steps that leave every program counter of a service thread alone.
LEMMA MainLockInv == LockInv /\ Main => LockInv'
<1> SUFFICES ASSUME LockInv, Main PROVE LockInv'
  OBVIOUS
<1> USE NullAssumption DEF LockInv, TypeOK, PointersSet, MutualExclusion, InCritical
<1>1. CASE MainMalloc
  BY <1>1 DEF MainMalloc, registry, threadVars
<1>2. CASE MainAccept
  BY <1>2 DEF MainAccept, registry, threadVars
<1>3. CASE MainCreate
  <2>1. PICK t \in Thread : Goto(t, "idle", "start")
                            /\ ptr' = [ptr EXCEPT ![t] = connfdp]
    BY <1>3 DEF MainCreate
  <2>2. TypeOK' /\ PointersSet'
    BY <1>3, <2>1 DEF MainCreate, Goto, registry, cells, PC
  <2>3. \A u \in Thread : InCritical(u)' <=> InCritical(u)
    BY <2>1 DEF Goto, CriticalPC, RegisterPC, UnregisterPC
  <2>. QED
    BY <1>3, <2>2, <2>3 DEF MainCreate, registry
<1>. QED
  BY <1>1, <1>2, <1>3 DEF Main

\* Outside the registry a thread neither enters nor leaves the critical section.
LEMMA OutsideLockInv ==
  ASSUME NEW t \in Thread, LockInv,
         ThreadStart(t) \/ ServiceEnds(t) \/ ThreadClose(t)
  PROVE  LockInv'
<1> USE NullAssumption DEF LockInv, TypeOK, PointersSet, Goto
<1>1. TypeOK' /\ PointersSet'
  BY DEF ThreadStart, ServiceEnds, ThreadClose, Free, registry, cells,
         mainVars, PC
<1>2. /\ \A u \in Thread : InCritical(u)' <=> InCritical(u)
      /\ UNCHANGED mutex
  BY DEF ThreadStart, ServiceEnds, ThreadClose, InCritical, CriticalPC,
         RegisterPC, UnregisterPC, registry
<1>. QED
  BY <1>1, <1>2 DEF MutualExclusion

\* P() enters the critical section, which was empty because mutex was not 0.
LEMMA EnterLockInv ==
  ASSUME NEW t \in Thread, LockInv, RegisterP(t) \/ UnregisterP(t)
  PROVE  LockInv'
<1> USE DEF LockInv, TypeOK, PointersSet, Goto, P
<1>1. TypeOK' /\ PointersSet'
  BY DEF RegisterP, UnregisterP, cells, mainVars, PC, CriticalPC,
         RegisterPC, UnregisterPC
<1>2. \A u \in Thread : ~InCritical(u)
  BY DEF RegisterP, UnregisterP, MutualExclusion
<1>3. \A u \in Thread : InCritical(u)' <=> u = t
  BY <1>2 DEF RegisterP, UnregisterP, InCritical, CriticalPC, RegisterPC,
              UnregisterPC
<1>4. mutex' = 0
  BY DEF RegisterP, UnregisterP
<1>. QED
  BY <1>1, <1>3, <1>4 DEF MutualExclusion

\* V() is called by the one thread inside, and leaves nobody there.
LEMMA LeaveLockInv ==
  ASSUME NEW t \in Thread, LockInv,
         RegisterV(t) \/ UnregisterV(t)
  PROVE  LockInv'
<1> USE NullAssumption DEF LockInv, TypeOK, PointersSet, Goto, V
<1>1. InCritical(t)
  BY DEF RegisterV, UnregisterV, InCritical, CriticalPC, RegisterPC,
         UnregisterPC
<1>2. mutex' = 1
  BY <1>1 DEF RegisterV, UnregisterV, MutualExclusion
<1>3. TypeOK' /\ PointersSet'
  BY <1>2 DEF RegisterV, UnregisterV, cells, mainVars, PC
<1>4. \A u \in Thread : InCritical(u) <=> u = t
  BY <1>1 DEF MutualExclusion
<1>5. \A u \in Thread : ~InCritical(u)'
  BY <1>4 DEF RegisterV, UnregisterV, InCritical, CriticalPC, RegisterPC,
              UnregisterPC
<1>. QED
  BY <1>2, <1>3, <1>5 DEF MutualExclusion

\* The steps between P() and V().
InsideStep(t) ==
  \/ RegisterAlloc(t) \/ RegisterNext(t) \/ RegisterHead(t) \/ RegisterCount(t)
  \/ UnregisterTest(t) \/ UnregisterFreeHead(t) \/ UnregisterWalk(t)
  \/ UnregisterUnlink(t) \/ UnregisterFree(t) \/ UnregisterCount(t)

LEMMA InsideLockInv ==
  ASSUME NEW t \in Thread, LockInv, InsideStep(t)
  PROVE  LockInv'
<1> USE DEF LockInv
<1>1. TypeOK' /\ PointersSet'
  <2> USE NullAssumption DEF TypeOK, PointersSet, Goto, Free, registry, cells, mainVars, PC, CriticalPC,
              RegisterPC, UnregisterPC
  <2>1. CASE RegisterAlloc(t) BY <2>1 DEF RegisterAlloc
  <2>2. CASE RegisterNext(t) BY <2>2 DEF RegisterNext, SuccessorOfNew
  <2>3. CASE RegisterHead(t) BY <2>3 DEF RegisterHead
  <2>4. CASE RegisterCount(t) BY <2>4 DEF RegisterCount
  <2>5. CASE UnregisterTest(t) BY <2>5 DEF UnregisterTest
  <2>6. CASE UnregisterFreeHead(t) BY <2>6 DEF UnregisterFreeHead
  <2>7. CASE UnregisterWalk(t) BY <2>7 DEF UnregisterWalk
  <2>8. CASE UnregisterUnlink(t) BY <2>8 DEF UnregisterUnlink
  <2>9. CASE UnregisterFree(t) BY <2>9 DEF UnregisterFree
  <2>10. CASE UnregisterCount(t) BY <2>10 DEF UnregisterCount
  <2>. QED
    BY <2>1, <2>2, <2>3, <2>4, <2>5, <2>6, <2>7, <2>8, <2>9, <2>10
       DEF InsideStep
<1>2. \E p, q \in CriticalPC : Goto(t, p, q)
  BY DEF InsideStep, RegisterAlloc, RegisterNext, RegisterHead, RegisterCount,
         UnregisterTest, UnregisterFreeHead, UnregisterWalk, UnregisterUnlink,
         UnregisterFree, UnregisterCount, CriticalPC, RegisterPC, UnregisterPC
<1>3. UNCHANGED mutex
  BY DEF InsideStep, RegisterAlloc, RegisterNext, RegisterHead, RegisterCount,
         UnregisterTest, UnregisterFreeHead, UnregisterWalk, UnregisterUnlink,
         UnregisterFree, UnregisterCount, registry
<1>4. \A u \in Thread : InCritical(u)' <=> InCritical(u)
  BY <1>2 DEF TypeOK, Goto, InCritical
<1>. QED
  BY <1>1, <1>3, <1>4 DEF MutualExclusion

LEMMA NextLockInv == LockInv /\ [Next]_vars => LockInv'
<1> SUFFICES ASSUME LockInv, [Next]_vars PROVE LockInv'
  OBVIOUS
<1>1. CASE Main
  BY <1>1, MainLockInv
<1>2. ASSUME NEW t \in Thread, Service(t) PROVE LockInv'
  BY <1>2, OutsideLockInv, EnterLockInv, LeaveLockInv,
     InsideLockInv DEF Service, Register, Unregister, InsideStep
<1>3. CASE UNCHANGED vars
  BY <1>3 DEF vars, registry, cells, mainVars, threadVars, LockInv, TypeOK,
     PointersSet, MutualExclusion, InCritical
<1>. QED
  BY <1>1, <1>2, <1>3 DEF Next

LEMMA LockInvariant == Spec => []LockInv
<1>. QED
  BY InitLockInv, NextLockInv, PTL DEF Spec

\* The variables of the registry, of its callers and of the heap keep their
\* types whatever number of threads use it; cr->mutex stays a binary semaphore.
THEOREM TypeCorrect == Spec => []TypeOK
<1>1. LockInv => TypeOK
  BY DEF LockInv
<1>. QED
  BY <1>1, LockInvariant, PTL

\* At most one thread is between P() and V() of creg_register and
\* creg_unregister, for any number of threads.
THEOREM MutexExcludes == Spec => []MutualExclusion
<1>1. LockInv => MutualExclusion
  BY DEF LockInv
<1>. QED
  BY <1>1, LockInvariant, PTL

-----------------------------------------------------------------------------
(* The descriptors.  A thread's descriptor is in its argument cell until   *)
(* the thread has copied it.                                               *)
Connection(t) == IF pc[t] = "start" THEN curr_fd[ptr[t]] ELSE fd[t]
Live(t) == pc[t] # "idle"

FdInv ==
  /\ \A t, u \in Thread :
       Live(t) /\ Live(u) /\ Connection(t) = Connection(u) => t = u
  /\ main_pc = "create" =>
       \A t \in Thread : Live(t) => Connection(t) # curr_fd[connfdp]

(* They are open: that is why accept() returns a new one.  It is kept      *)
(* apart because the shutdown closes descriptors that threads still hold.  *)
OpenInv ==
  /\ \A t \in Thread : Live(t) => Connection(t) \in open_fds
  /\ main_pc = "create" => curr_fd[connfdp] \in open_fds

(* The cells outside the list, each of which has one owner.                *)
OwnPC == {"start", "r_next", "r_head", "u_free"}
Owns(t) == pc[t] \in OwnPC

OwnInv ==
  /\ main_pc # "malloc" => connfdp \in heap
  /\ \A t \in Thread : Owns(t) =>
       ptr[t] \in heap /\ (main_pc # "malloc" => ptr[t] # connfdp)
  /\ \A t, u \in Thread : Owns(t) /\ Owns(u) /\ ptr[t] = ptr[u] => t = u
  /\ \A t \in Thread : pc[t] \in {"r_next", "r_head"} => curr_fd[ptr[t]] = fd[t]
  /\ \A t \in Thread : pc[t] = "r_head" => next[ptr[t]] = SuccessorOfNew

(* The list c[1], ..., c[n]; it has a cell for each thread that is a       *)
(* member, and num_of_clients is late by one in UncountedPC.               *)
MemberPC == {"serve", "u_P", "r_count", "r_V", "u_test", "u_freehead", "u_walk",
             "u_unlink"}
Member(t) == pc[t] \in MemberPC
UncountedPC == {"r_count", "u_free", "u_count"}

Shape(c, n) ==
  /\ n > 0 => c[1] = registered_fds /\ next[c[n]] = NULL
  /\ \A i \in 1 .. n - 1 : next[c[i]] = c[i + 1]
Contents(c, n) ==
  /\ \A i, j \in 1 .. n : curr_fd[c[i]] = curr_fd[c[j]] => i = j
  /\ \A i \in 1 .. n : \E t \in Thread : Member(t) /\ fd[t] = curr_fd[c[i]]
  /\ \A t \in Thread : Member(t) => \E i \in 1 .. n : fd[t] = curr_fd[c[i]]
Apart(c, n) == \A i \in 1 .. n :
  /\ main_pc # "malloc" => c[i] # connfdp
  /\ \A t \in Thread : Owns(t) => c[i] # ptr[t]
Count(n) ==
  /\ \A t \in Thread : /\ pc[t] = "r_count" => num_of_clients = n - 1
                       /\ pc[t] \in {"u_free", "u_count"} => num_of_clients = n + 1
                       /\ pc[t] = "u_freehead" => num_of_clients = 1
  /\ (\A t \in Thread : pc[t] \notin UncountedPC) => num_of_clients = n
Walker(c, n) ==
  \A t \in Thread : pc[t] \in {"u_walk", "u_unlink"} =>
    \E k \in 1 .. n :
      /\ ptr[t] = c[k]
      /\ prev_fd[t] = (IF k = 1 THEN c[1] ELSE c[k - 1])
      /\ pc[t] = "u_walk" => \A j \in 1 .. k - 1 : curr_fd[c[j]] # fd[t]
      /\ pc[t] = "u_unlink" => curr_fd[c[k]] = fd[t]
IsList(c, n) ==
  /\ Shape(c, n)
  /\ Contents(c, n)
  /\ Apart(c, n)
  /\ Count(n)
  /\ Walker(c, n)
ListInv == \E n \in Nat : \E c \in [1 .. n -> heap] : IsList(c, n)

ExactInv == FdInv /\ OwnInv /\ ListInv

LEMMA InitExactInv == Init => ExactInv
<1> SUFFICES ASSUME Init PROVE ExactInv
  OBVIOUS
<1> USE DEF Init
<1>1. FdInv /\ OwnInv
  BY DEF FdInv, OwnInv, Live, Owns, OwnPC
<1>2. ListInv
  <2>1. [i \in 1 .. 0 |-> NULL] \in [1 .. 0 -> heap]
    OBVIOUS
  <2>2. IsList([i \in 1 .. 0 |-> NULL], 0)
    BY DEF IsList, Shape, Contents, Apart, Count, Walker, Member, MemberPC
  <2>. QED
    BY <2>1, <2>2 DEF ListInv
<1>. QED
  BY <1>1, <1>2 DEF ExactInv

-----------------------------------------------------------------------------
(* The accept loop.                                                        *)

LEMMA MallocExactInv ==
  ASSUME LockInv, ExactInv, MainMalloc PROVE ExactInv'
<1> USE DEF MainMalloc, registry, threadVars, LockInv, TypeOK
<1>1. FdInv'
  BY DEF ExactInv, FdInv, Live, Connection
<1>2. OwnInv'
  BY DEF ExactInv, OwnInv, Owns, SuccessorOfNew
<1>3. ListInv'
  <2>0. PICK n \in Nat : \E c \in [1 .. n -> heap] : IsList(c, n)
    BY DEF ExactInv, ListInv
  <2>1. PICK c \in [1 .. n -> heap] : IsList(c, n)
    BY <2>0
  <2>2. c \in [1 .. n -> heap']
    OBVIOUS
  <2>3. Shape(c, n)' /\ Contents(c, n)' /\ Count(n)' /\ Walker(c, n)'
    BY <2>1 DEF IsList, Shape, Contents, Count, Walker, Member
  <2>4. Apart(c, n)'
    BY <2>1 DEF IsList, Apart, Owns
  <2>. QED
    BY <2>2, <2>3, <2>4 DEF ListInv, IsList
<1>. QED
  BY <1>1, <1>2, <1>3 DEF ExactInv

LEMMA AcceptExactInv ==
  ASSUME LockInv, ExactInv, OpenInv, MainAccept PROVE ExactInv'
<1> USE DEF MainAccept, registry, threadVars, LockInv, TypeOK
<1>1. PICK f \in Fd \ open_fds : /\ open_fds' = open_fds \cup {f}
                                 /\ curr_fd' = [curr_fd EXCEPT ![connfdp] = f]
  OBVIOUS
<1>2. connfdp \in heap /\ curr_fd'[connfdp] = f
      /\ \A a \in Addr : a # connfdp => curr_fd'[a] = curr_fd[a]
  BY <1>1 DEF ExactInv, OwnInv
<1>3. \A t \in Thread : Owns(t) => curr_fd'[ptr[t]] = curr_fd[ptr[t]]
  BY <1>2 DEF ExactInv, OwnInv
<1>4. FdInv'
  <2>1. \A t \in Thread : Live(t) => Connection(t)' = Connection(t)
    BY <1>3 DEF Owns, OwnPC, Connection
  <2>. QED
    BY <1>1, <1>2, <2>1 DEF ExactInv, FdInv, OpenInv, Live
<1>5. OwnInv'
  BY <1>3 DEF ExactInv, OwnInv, Owns, OwnPC, SuccessorOfNew
<1>6. ListInv'
  <2>0. PICK n \in Nat : \E c \in [1 .. n -> heap] : IsList(c, n)
    BY DEF ExactInv, ListInv
  <2>1. PICK c \in [1 .. n -> heap] : IsList(c, n)
    BY <2>0
  <2>2. \A i \in 1 .. n : curr_fd'[c[i]] = curr_fd[c[i]]
    BY <2>1, <1>2 DEF IsList, Apart
  <2>3. Shape(c, n)' /\ Count(n)' /\ Apart(c, n)'
    BY <2>1 DEF IsList, Shape, Count, Apart, Owns
  <2>4. Contents(c, n)'
    BY <2>1, <2>2 DEF IsList, Contents, Member
  <2>5. Walker(c, n)'
    BY <2>1, <2>2 DEF IsList, Walker
  <2>. QED
    BY <2>3, <2>4, <2>5 DEF ListInv, IsList
<1>. QED
  BY <1>4, <1>5, <1>6 DEF ExactInv

LEMMA CreateExactInv ==
  ASSUME LockInv, ExactInv, MainCreate PROVE ExactInv'
<1> USE DEF MainCreate, registry, cells, LockInv, TypeOK
<1>1. PICK t \in Thread : /\ Goto(t, "idle", "start")
                          /\ ptr' = [ptr EXCEPT ![t] = connfdp]
  OBVIOUS
<1>2. /\ pc[t] = "idle" /\ pc'[t] = "start" /\ ptr'[t] = connfdp
      /\ \A u \in Thread \ {t} : pc'[u] = pc[u] /\ ptr'[u] = ptr[u]
  BY <1>1 DEF Goto
<1>3. FdInv'
  BY <1>2 DEF ExactInv, FdInv, Live, Connection
<1>4. OwnInv'
  BY <1>2 DEF ExactInv, OwnInv, Owns, OwnPC, SuccessorOfNew
<1>5. ListInv'
  <2>0. PICK n \in Nat : \E c \in [1 .. n -> heap] : IsList(c, n)
    BY DEF ExactInv, ListInv
  <2>1. PICK c \in [1 .. n -> heap] : IsList(c, n)
    BY <2>0
  <2>2. Shape(c, n)'
    BY <2>1 DEF IsList, Shape
  <2>3. Contents(c, n)'
    <3>1. \A u \in Thread : Member(u)' <=> Member(u)
      BY <1>2 DEF Member, MemberPC
    <3>. QED
      BY <2>1, <3>1 DEF IsList, Contents
  <2>4. Apart(c, n)'
    BY <2>1, <1>2 DEF IsList, Apart, Owns, OwnPC
  <2>5. Count(n)'
    BY <2>1, <1>2 DEF IsList, Count, UncountedPC
  <2>6. Walker(c, n)'
    BY <2>1, <1>2 DEF IsList, Walker
  <2>. QED
    BY <2>2, <2>3, <2>4, <2>5, <2>6 DEF ListInv, IsList
<1>. QED
  BY <1>3, <1>4, <1>5 DEF ExactInv

-----------------------------------------------------------------------------
(* The steps of a service thread that change no cell.                      *)

LEMMA Alone ==
  ASSUME NEW t \in Thread, LockInv, InCritical(t)
  PROVE  \A u \in Thread \ {t} : pc[u] \notin CriticalPC
BY DEF LockInv, MutualExclusion, InCritical

\* Steps that keep the thread's descriptor, its membership and its ownership.
QuietStep(t) == \/ ServiceEnds(t) \/ RegisterP(t) \/ UnregisterP(t)
                \/ RegisterV(t) \/ UnregisterV(t)

LEMMA QuietExactInv ==
  ASSUME NEW t \in Thread, LockInv, ExactInv, QuietStep(t)
  PROVE  ExactInv'
<1> USE DEF LockInv, TypeOK
<1>1. /\ UNCHANGED <<num_of_clients, registered_fds, heap, curr_fd, next,
                     open_fds, main_pc, connfdp, fd>>
      /\ \A u \in Thread \ {t} : /\ pc'[u] = pc[u] /\ ptr'[u] = ptr[u]
                                 /\ prev_fd'[u] = prev_fd[u]
  BY DEF QuietStep, ServiceEnds, RegisterP, UnregisterP, RegisterV,
         UnregisterV, Goto, registry, cells, mainVars
<1>2. \/ pc[t] = "serve" /\ pc'[t] = "u_P"
      \/ pc[t] = "r_P" /\ pc'[t] = "r_alloc"
      \/ pc[t] = "u_P" /\ pc'[t] = "u_test"
      \/ pc[t] = "r_V" /\ pc'[t] = "serve"
      \/ pc[t] = "u_V" /\ pc'[t] = "close"
  BY DEF QuietStep, ServiceEnds, RegisterP, UnregisterP, RegisterV,
         UnregisterV, Goto
<1>3. \A u \in Thread : /\ Member(u)' <=> Member(u)
                        /\ Live(u)' <=> Live(u)
                        /\ Owns(u)' <=> Owns(u)
                        /\ Owns(u) => u # t
                        /\ pc'[u] \in UncountedPC <=> pc[u] \in UncountedPC
                        /\ pc'[u] = "start" <=> pc[u] = "start"
  BY <1>1, <1>2 DEF Member, MemberPC, Live, Owns, OwnPC, UncountedPC
<1>4. \A u \in Thread : Connection(u)' = Connection(u)
  BY <1>1, <1>2 DEF Connection
<1>5. FdInv'
  BY <1>1, <1>3, <1>4 DEF ExactInv, FdInv
<1>6. OwnInv'
  BY <1>1, <1>2, <1>3 DEF ExactInv, OwnInv, SuccessorOfNew
<1>7. ListInv'
  <2>0. PICK n \in Nat : \E c \in [1 .. n -> heap] : IsList(c, n)
    BY DEF ExactInv, ListInv
  <2>1. PICK c \in [1 .. n -> heap] : IsList(c, n)
    BY <2>0
  <2>2. Shape(c, n)'
    BY <2>1, <1>1 DEF IsList, Shape
  <2>3. Contents(c, n)'
    BY <2>1, <1>1, <1>3 DEF IsList, Contents
  <2>4. Apart(c, n)'
    BY <2>1, <1>1, <1>3 DEF IsList, Apart
  <2>5. Count(n)'
    BY <2>1, <1>1, <1>2, <1>3 DEF IsList, Count
  <2>6. Walker(c, n)'
    BY <2>1, <1>1, <1>2 DEF IsList, Walker
  <2>. QED
    BY <1>1, <2>2, <2>3, <2>4, <2>5, <2>6 DEF ListInv, IsList
<1>. QED
  BY <1>5, <1>6, <1>7 DEF ExactInv

LEMMA CloseExactInv ==
  ASSUME NEW t \in Thread, LockInv, ExactInv, ThreadClose(t)
  PROVE  ExactInv'
<1> USE DEF ThreadClose, Goto, registry, cells, mainVars, LockInv, TypeOK
<1>1. /\ pc[t] = "close" /\ pc'[t] = "idle"
      /\ \A u \in Thread \ {t} : pc'[u] = pc[u] /\ fd'[u] = fd[u]
  OBVIOUS
<1>2. \A u \in Thread \ {t} : /\ Connection(u)' = Connection(u)
                              /\ Live(u)' <=> Live(u)
  BY <1>1 DEF Connection, Live
<1>3. ~Live(t)' /\ Live(t) /\ Connection(t) = fd[t]
  BY <1>1 DEF Live, Connection
<1>4. FdInv'
  BY <1>2, <1>3 DEF ExactInv, FdInv
<1>5. OwnInv'
  BY <1>1 DEF ExactInv, OwnInv, Owns, OwnPC, SuccessorOfNew
<1>6. ListInv'
  <2>0. PICK n \in Nat : \E c \in [1 .. n -> heap] : IsList(c, n)
    BY DEF ExactInv, ListInv
  <2>1. PICK c \in [1 .. n -> heap] : IsList(c, n)
    BY <2>0
  <2>2. Shape(c, n)'
    BY <2>1 DEF IsList, Shape
  <2>3. Contents(c, n)'
    <3>1. \A u \in Thread : /\ Member(u)' <=> Member(u)
                            /\ Member(u) => fd'[u] = fd[u]
      BY <1>1 DEF Member, MemberPC
    <3>. QED
      BY <2>1, <3>1 DEF IsList, Contents
  <2>4. Apart(c, n)'
    BY <2>1, <1>1 DEF IsList, Apart, Owns, OwnPC
  <2>5. Count(n)'
    BY <2>1, <1>1 DEF IsList, Count, UncountedPC
  <2>6. Walker(c, n)'
    BY <2>1, <1>1 DEF IsList, Walker
  <2>. QED
    BY <2>2, <2>3, <2>4, <2>5, <2>6 DEF ListInv, IsList
<1>. QED
  BY <1>4, <1>5, <1>6 DEF ExactInv

\* The counter catches up with the list.
LEMMA CountExactInv ==
  ASSUME NEW t \in Thread, LockInv, ExactInv,
         RegisterCount(t) \/ UnregisterCount(t)
  PROVE  ExactInv'
<1> USE DEF LockInv, TypeOK
<1>1. /\ UNCHANGED <<registered_fds, heap, curr_fd, next, open_fds, main_pc,
                     connfdp, fd, ptr, prev_fd>>
      /\ \A u \in Thread \ {t} : pc'[u] = pc[u]
  BY DEF RegisterCount, UnregisterCount, Goto, cells, mainVars
<1>2. \/ /\ pc[t] = "r_count" /\ pc'[t] = "r_V"
         /\ num_of_clients' = num_of_clients + 1
      \/ /\ pc[t] = "u_count" /\ pc'[t] = "u_V"
         /\ num_of_clients' = num_of_clients - 1
  BY DEF RegisterCount, UnregisterCount, Goto
<1>3. \A u \in Thread \ {t} : pc[u] \notin CriticalPC
  BY <1>2, Alone DEF InCritical, CriticalPC, RegisterPC, UnregisterPC
<1>4. \A u \in Thread : /\ Member(u)' <=> Member(u)
                        /\ Live(u)' <=> Live(u)
                        /\ Owns(u)' <=> Owns(u)
                        /\ Connection(u)' = Connection(u)
  BY <1>1, <1>2 DEF Member, MemberPC, Live, Owns, OwnPC, Connection
<1>5. FdInv'
  BY <1>1, <1>4 DEF ExactInv, FdInv
<1>6. OwnInv'
  BY <1>1, <1>2, <1>3, <1>4
     DEF ExactInv, OwnInv, CriticalPC, RegisterPC
<1>7. ListInv'
  <2>0. PICK n \in Nat : \E c \in [1 .. n -> heap] : IsList(c, n)
    BY DEF ExactInv, ListInv
  <2>1. PICK c \in [1 .. n -> heap] : IsList(c, n)
    BY <2>0
  <2>2. Shape(c, n)'
    BY <2>1, <1>1 DEF IsList, Shape
  <2>3. Contents(c, n)'
    BY <2>1, <1>1, <1>4 DEF IsList, Contents
  <2>4. Apart(c, n)'
    BY <2>1, <1>1, <1>4 DEF IsList, Apart
  <2>5. Count(n)'
    BY <2>1, <1>1, <1>2, <1>3
       DEF IsList, Count, CriticalPC, RegisterPC, UnregisterPC
  <2>6. Walker(c, n)'
    BY <2>1, <1>1, <1>2 DEF IsList, Walker
  <2>. QED
    BY <1>1, <2>2, <2>3, <2>4, <2>5, <2>6 DEF ListInv, IsList
<1>. QED
  BY <1>5, <1>6, <1>7 DEF ExactInv

-----------------------------------------------------------------------------
(* Cells that enter and leave the heap.                                    *)

LEMMA StartExactInv ==
  ASSUME NEW t \in Thread, LockInv, ExactInv, ThreadStart(t)
  PROVE  ExactInv'
<1> USE DEF ThreadStart, Goto, Free, registry, mainVars, LockInv, TypeOK
<1>1. /\ pc[t] = "start" /\ pc'[t] = "r_P" /\ fd'[t] = curr_fd[ptr[t]]
      /\ \A u \in Thread \ {t} : /\ pc'[u] = pc[u] /\ fd'[u] = fd[u]
                                 /\ ptr'[u] = ptr[u]
      /\ UNCHANGED <<num_of_clients, registered_fds, prev_fd, main_pc, connfdp>>
  OBVIOUS
<1>2. /\ Owns(t) /\ ptr[t] \in heap
      /\ main_pc # "malloc" => connfdp # ptr[t]
      /\ \A u \in Thread \ {t} : Owns(u) => ptr[u] # ptr[t]
  BY <1>1 DEF ExactInv, OwnInv, Owns, OwnPC
<1>3. \A a \in Addr : a # ptr[t] => curr_fd'[a] = curr_fd[a] /\ next'[a] = next[a]
  OBVIOUS
<1>4. \A u \in Thread \ {t} : Owns(u) => curr_fd'[ptr[u]] = curr_fd[ptr[u]]
                                         /\ next'[ptr[u]] = next[ptr[u]]
  BY <1>2, <1>3 DEF ExactInv, OwnInv
<1>5. \A u \in Thread : Connection(u)' = Connection(u) /\ (Live(u)' <=> Live(u))
  BY <1>1, <1>4 DEF Connection, Live, Owns, OwnPC
<1>6. FdInv'
  <2>1. main_pc = "create" => curr_fd'[connfdp] = curr_fd[connfdp]
    BY <1>2, <1>3 DEF ExactInv, OwnInv
  <2>. QED
    BY <1>5, <2>1 DEF ExactInv, FdInv
<1>7. OwnInv'
  <2>1. \A u \in Thread : Owns(u)' => u # t /\ Owns(u)
    BY <1>1 DEF Owns, OwnPC
  <2>. QED
    BY <1>1, <1>2, <1>4, <2>1 DEF ExactInv, OwnInv, Owns, OwnPC, SuccessorOfNew
<1>8. ListInv'
  <2>0. PICK n \in Nat : \E c \in [1 .. n -> heap] : IsList(c, n)
    BY DEF ExactInv, ListInv
  <2>1. PICK c \in [1 .. n -> heap] : IsList(c, n)
    BY <2>0
  <2>2. \A i \in 1 .. n : /\ c[i] # ptr[t] /\ c[i] \in heap' /\ c[i] \in Addr
                          /\ curr_fd'[c[i]] = curr_fd[c[i]]
                          /\ next'[c[i]] = next[c[i]]
    BY <2>1, <1>2, <1>3 DEF IsList, Apart
  <2> HIDE DEF ThreadStart, Goto, Free
  <2>3. c \in [1 .. n -> heap']
    BY <2>2
  <2>4. Shape(c, n)'
    BY <2>1, <2>2, <1>1 DEF IsList, Shape
  <2>5. Contents(c, n)'
    <3>1. \A u \in Thread : /\ Member(u)' <=> Member(u)
                            /\ Member(u) => fd'[u] = fd[u]
      BY <1>1 DEF Member, MemberPC
    <3>2. \A i, j \in 1 .. n : curr_fd'[c[i]] = curr_fd'[c[j]] => i = j
      BY <2>1, <2>2 DEF IsList, Contents
    <3>3. \A i \in 1 .. n : \E u \in Thread : Member(u)' /\ fd'[u] = curr_fd'[c[i]]
      BY <2>1, <2>2, <3>1 DEF IsList, Contents
    <3>4. \A u \in Thread : Member(u)' => \E i \in 1 .. n : fd'[u] = curr_fd'[c[i]]
      BY <2>1, <2>2, <3>1 DEF IsList, Contents
    <3>. QED
      BY <3>2, <3>3, <3>4 DEF Contents
  <2>6. Apart(c, n)'
    BY <2>1, <1>1 DEF IsList, Apart, Owns, OwnPC
  <2>7. Count(n)'
    BY <2>1, <1>1 DEF IsList, Count, UncountedPC
  <2>8. Walker(c, n)'
    BY <2>1, <2>2, <1>1 DEF IsList, Walker
  <2>. QED
    BY <2>3, <2>4, <2>5, <2>6, <2>7, <2>8 DEF ListInv, IsList
<1>. QED
  BY <1>6, <1>7, <1>8 DEF ExactInv

LEMMA AllocExactInv ==
  ASSUME NEW t \in Thread, LockInv, ExactInv, RegisterAlloc(t)
  PROVE  ExactInv'
<1> USE DEF RegisterAlloc, Goto, registry, mainVars, LockInv, TypeOK
<1>1. /\ pc[t] = "r_alloc" /\ pc'[t] = "r_next"
      /\ \A u \in Thread \ {t} : pc'[u] = pc[u] /\ ptr'[u] = ptr[u]
      /\ UNCHANGED <<num_of_clients, registered_fds, next, fd, prev_fd, main_pc,
                     connfdp>>
  OBVIOUS
<1>2. PICK a \in Addr \ heap : /\ heap' = heap \cup {a} /\ ptr'[t] = a
                               /\ curr_fd'[a] = fd[t]
                               /\ \A b \in Addr \ {a} : curr_fd'[b] = curr_fd[b]
  OBVIOUS
<1>3. \A u \in Thread \ {t} : Owns(u) => curr_fd'[ptr[u]] = curr_fd[ptr[u]]
  BY <1>2 DEF ExactInv, OwnInv
<1>4. \A u \in Thread : Connection(u)' = Connection(u) /\ (Live(u)' <=> Live(u))
  BY <1>1, <1>3 DEF Connection, Live, Owns, OwnPC
<1>5. FdInv'
  <2>1. main_pc = "create" => curr_fd'[connfdp] = curr_fd[connfdp]
    BY <1>2 DEF ExactInv, OwnInv
  <2>. QED
    BY <1>4, <2>1 DEF ExactInv, FdInv
<1>6. OwnInv'
  <2>1. \A u \in Thread \ {t} : Owns(u)' <=> Owns(u)
    BY <1>1 DEF Owns
  <2>. QED
    BY <1>1, <1>2, <1>3, <2>1 DEF ExactInv, OwnInv, Owns, OwnPC, SuccessorOfNew
<1>7. ListInv'
  <2>0. PICK n \in Nat : \E c \in [1 .. n -> heap] : IsList(c, n)
    BY DEF ExactInv, ListInv
  <2>1. PICK c \in [1 .. n -> heap] : IsList(c, n)
    BY <2>0
  <2>2. \A i \in 1 .. n : /\ c[i] # a /\ c[i] \in heap' /\ c[i] \in Addr
                          /\ curr_fd'[c[i]] = curr_fd[c[i]]
    BY <1>2
  <2> HIDE DEF RegisterAlloc, Goto
  <2>3. c \in [1 .. n -> heap']
    BY <2>2
  <2>4. Shape(c, n)'
    BY <2>1, <1>1 DEF IsList, Shape
  <2>5. Contents(c, n)'
    <3>1. \A u \in Thread : Member(u)' <=> Member(u)
      BY <1>1 DEF Member, MemberPC
    <3>. QED
      BY <2>1, <2>2, <3>1, <1>1 DEF IsList, Contents
  <2>6. Apart(c, n)'
    BY <2>1, <2>2, <1>1, <1>2 DEF IsList, Apart, Owns, OwnPC
  <2>7. Count(n)'
    BY <2>1, <1>1 DEF IsList, Count, UncountedPC
  <2>8. Walker(c, n)'
    <3>1. \A u \in Thread : pc'[u] \in {"u_walk", "u_unlink"} =>
            pc'[u] = pc[u] /\ ptr'[u] = ptr[u] /\ prev_fd'[u] = prev_fd[u]
      BY <1>1
    <3> SUFFICES ASSUME NEW u \in Thread, pc'[u] \in {"u_walk", "u_unlink"}
                 PROVE  \E k \in 1 .. n :
                          /\ ptr'[u] = c[k]
                          /\ prev_fd'[u] = (IF k = 1 THEN c[1] ELSE c[k - 1])
                          /\ pc'[u] = "u_walk" =>
                               \A j \in 1 .. k - 1 : curr_fd'[c[j]] # fd'[u]
                          /\ pc'[u] = "u_unlink" => curr_fd'[c[k]] = fd'[u]
      BY DEF Walker
    <3> HIDE DEF TypeOK
    <3>2. PICK k \in 1 .. n :
            /\ ptr[u] = c[k]
            /\ prev_fd[u] = (IF k = 1 THEN c[1] ELSE c[k - 1])
            /\ pc[u] = "u_walk" => \A j \in 1 .. k - 1 : curr_fd[c[j]] # fd[u]
            /\ pc[u] = "u_unlink" => curr_fd[c[k]] = fd[u]
      BY <2>1, <3>1 DEF IsList, Walker
    <3>3. \A j \in 1 .. k - 1 : j \in 1 .. n
      OBVIOUS
    <3>. QED
      BY <2>2, <3>1, <3>2, <3>3, <1>1
  <2>. QED
    BY <2>3, <2>4, <2>5, <2>6, <2>7, <2>8 DEF ListInv, IsList
<1>. QED
  BY <1>5, <1>6, <1>7 DEF ExactInv

\* free(the_fd) after the cell has been unlinked.
LEMMA FreeExactInv ==
  ASSUME NEW t \in Thread, LockInv, ExactInv, UnregisterFree(t)
  PROVE  ExactInv'
<1> USE DEF UnregisterFree, Goto, Free, registry, mainVars, LockInv, TypeOK
<1>1. /\ pc[t] = "u_free" /\ pc'[t] = "u_count"
      /\ \A u \in Thread \ {t} : pc'[u] = pc[u]
      /\ UNCHANGED <<num_of_clients, registered_fds, fd, ptr, prev_fd, main_pc,
                     connfdp>>
  OBVIOUS
<1>2. /\ Owns(t) /\ ptr[t] \in heap
      /\ main_pc # "malloc" => connfdp # ptr[t]
      /\ \A u \in Thread \ {t} : Owns(u) => ptr[u] # ptr[t]
  BY <1>1 DEF ExactInv, OwnInv, Owns, OwnPC
<1>3. \A a \in Addr : a # ptr[t] => curr_fd'[a] = curr_fd[a] /\ next'[a] = next[a]
  OBVIOUS
<1>4. \A u \in Thread \ {t} : Owns(u) => curr_fd'[ptr[u]] = curr_fd[ptr[u]]
                                         /\ next'[ptr[u]] = next[ptr[u]]
  BY <1>2, <1>3 DEF ExactInv, OwnInv
<1>5. \A u \in Thread : Connection(u)' = Connection(u) /\ (Live(u)' <=> Live(u))
  BY <1>1, <1>4 DEF Connection, Live, Owns, OwnPC
<1>6. FdInv'
  <2>1. main_pc = "create" => curr_fd'[connfdp] = curr_fd[connfdp]
    BY <1>2, <1>3 DEF ExactInv, OwnInv
  <2>. QED
    BY <1>5, <2>1 DEF ExactInv, FdInv
<1>7. OwnInv'
  <2>1. \A u \in Thread : Owns(u)' => u # t /\ Owns(u)
    BY <1>1 DEF Owns, OwnPC
  <2>. QED
    BY <1>1, <1>2, <1>4, <2>1 DEF ExactInv, OwnInv, Owns, OwnPC, SuccessorOfNew
<1>8. ListInv'
  <2>0. PICK n \in Nat : \E c \in [1 .. n -> heap] : IsList(c, n)
    BY DEF ExactInv, ListInv
  <2>1. PICK c \in [1 .. n -> heap] : IsList(c, n)
    BY <2>0
  <2>2. \A i \in 1 .. n : /\ c[i] # ptr[t] /\ c[i] \in heap' /\ c[i] \in Addr
                          /\ curr_fd'[c[i]] = curr_fd[c[i]]
                          /\ next'[c[i]] = next[c[i]]
    BY <2>1, <1>2, <1>3 DEF IsList, Apart
  <2> HIDE DEF UnregisterFree, Goto, Free
  <2>3. c \in [1 .. n -> heap']
    BY <2>2
  <2>4. Shape(c, n)'
    BY <2>1, <2>2, <1>1 DEF IsList, Shape
  <2>5. Contents(c, n)'
    <3>1. \A u \in Thread : Member(u)' <=> Member(u)
      BY <1>1 DEF Member, MemberPC
    <3>2. \A i, j \in 1 .. n : curr_fd'[c[i]] = curr_fd'[c[j]] => i = j
      BY <2>1, <2>2 DEF IsList, Contents
    <3>3. \A i \in 1 .. n : \E u \in Thread : Member(u) /\ fd[u] = curr_fd[c[i]]
      BY <2>1 DEF IsList, Contents
    <3>4. \A u \in Thread : Member(u) => \E i \in 1 .. n : fd[u] = curr_fd[c[i]]
      BY <2>1 DEF IsList, Contents
    <3>5. UNCHANGED fd
      BY <1>1
    <3>. QED
      BY <2>2, <3>1, <3>2, <3>3, <3>4, <3>5 DEF Contents
  <2>6. Apart(c, n)'
    BY <2>1, <1>1 DEF IsList, Apart, Owns, OwnPC
  <2>7. Count(n)'
    BY <2>1, <1>1 DEF IsList, Count, UncountedPC
  <2>8. Walker(c, n)'
    BY <2>1, <2>2, <1>1 DEF IsList, Walker
  <2>. QED
    BY <2>3, <2>4, <2>5, <2>6, <2>7, <2>8 DEF ListInv, IsList
<1>. QED
  BY <1>6, <1>7, <1>8 DEF ExactInv

-----------------------------------------------------------------------------
(* creg_register links the new cell.                                       *)

LEMMA NextCellExactInv ==
  ASSUME NEW t \in Thread, LockInv, ExactInv, RegisterNext(t)
  PROVE  ExactInv'
<1> USE DEF LockInv, TypeOK
<1>1. /\ pc[t] = "r_next" /\ pc'[t] = "r_head"
      /\ \A u \in Thread \ {t} : pc'[u] = pc[u]
      /\ UNCHANGED <<num_of_clients, registered_fds, heap, curr_fd, open_fds,
                     main_pc, connfdp, fd, ptr, prev_fd>>
  BY DEF RegisterNext, Goto, registry, mainVars
<1>2. Owns(t) /\ ptr[t] \in heap
  BY <1>1 DEF ExactInv, OwnInv, Owns, OwnPC
<1>3. /\ next'[ptr[t]] = SuccessorOfNew
      /\ \A a \in Addr : a # ptr[t] => next'[a] = next[a]
  BY <1>2 DEF RegisterNext
<1>4. \A u \in Thread : /\ Member(u)' <=> Member(u)
                        /\ Live(u)' <=> Live(u)
                        /\ Owns(u)' <=> Owns(u)
                        /\ Connection(u)' = Connection(u)
                        /\ u # t => pc[u] # "r_head"
  BY <1>1, Alone DEF Member, MemberPC, Live, Owns, OwnPC, Connection,
                     InCritical, CriticalPC, RegisterPC
<1>5. FdInv'
  BY <1>1, <1>4 DEF ExactInv, FdInv
<1>6. OwnInv'
  BY <1>1, <1>3, <1>4 DEF ExactInv, OwnInv, SuccessorOfNew
<1>7. ListInv'
  <2>0. PICK n \in Nat : \E c \in [1 .. n -> heap] : IsList(c, n)
    BY DEF ExactInv, ListInv
  <2>1. PICK c \in [1 .. n -> heap] : IsList(c, n)
    BY <2>0
  <2>2. \A i \in 1 .. n : next'[c[i]] = next[c[i]]
    BY <2>1, <1>2, <1>3 DEF IsList, Apart
  <2>3. Shape(c, n)'
    BY <2>1, <2>2, <1>1 DEF IsList, Shape
  <2>4. Contents(c, n)'
    BY <2>1, <1>1, <1>4 DEF IsList, Contents
  <2>5. Apart(c, n)'
    BY <2>1, <1>1, <1>4 DEF IsList, Apart
  <2>6. Count(n)'
    BY <2>1, <1>1 DEF IsList, Count, UncountedPC
  <2>7. Walker(c, n)'
    BY <2>1, <1>1 DEF IsList, Walker
  <2>. QED
    BY <1>1, <2>3, <2>4, <2>5, <2>6, <2>7 DEF ListInv, IsList
<1>. QED
  BY <1>5, <1>6, <1>7 DEF ExactInv

\* The new cell becomes the first of a list that is one longer.
LEMMA HeadExactInv ==
  ASSUME NEW t \in Thread, LockInv, ExactInv, RegisterHead(t)
  PROVE  ExactInv'
<1> USE DEF LockInv, TypeOK
<1>1. /\ pc[t] = "r_head" /\ pc'[t] = "r_count" /\ registered_fds' = ptr[t]
      /\ \A u \in Thread \ {t} : pc'[u] = pc[u]
      /\ UNCHANGED <<num_of_clients, heap, curr_fd, next, open_fds,
                     main_pc, connfdp, fd, ptr, prev_fd>>
  BY DEF RegisterHead, Goto, cells, mainVars
<1>2. /\ Owns(t) /\ ptr[t] \in heap
      /\ main_pc # "malloc" => ptr[t] # connfdp
      /\ curr_fd[ptr[t]] = fd[t] /\ next[ptr[t]] = SuccessorOfNew
  BY <1>1 DEF ExactInv, OwnInv, Owns, OwnPC
<1>3. \A u \in Thread \ {t} : pc[u] \notin CriticalPC
  BY <1>1, Alone DEF InCritical, CriticalPC, RegisterPC
<1>4. \A u \in Thread : /\ Live(u)' <=> Live(u)
                        /\ Owns(u)' <=> Owns(u) /\ u # t
                        /\ Connection(u)' = Connection(u)
                        /\ Member(u)' <=> Member(u) \/ u = t
  BY <1>1 DEF Live, Owns, OwnPC, Connection, Member, MemberPC
<1>5. FdInv'
  BY <1>1, <1>4 DEF ExactInv, FdInv
<1>6. OwnInv'
  BY <1>1, <1>3, <1>4 DEF ExactInv, OwnInv, CriticalPC, RegisterPC
<1>7. ListInv'
  <2>0. PICK n \in Nat : \E c \in [1 .. n -> heap] : IsList(c, n)
    BY DEF ExactInv, ListInv
  <2>1. PICK c \in [1 .. n -> heap] : IsList(c, n)
    BY <2>0
  <2>2. num_of_clients = n
    BY <2>1, <1>1, <1>3 DEF IsList, Count, UncountedPC, CriticalPC, RegisterPC,
                            UnregisterPC
  <2>3. PICK d \in [1 .. n + 1 -> heap] :
          /\ d[1] = ptr[t]
          /\ \A i \in 1 .. n : d[i + 1] = c[i]
          /\ \A i \in 2 .. n + 1 : d[i] = c[i - 1] /\ i - 1 \in 1 .. n
    <3> DEFINE e == [i \in 1 .. n + 1 |-> IF i = 1 THEN ptr[t] ELSE c[i - 1]]
    <3>1. /\ e \in [1 .. n + 1 -> heap]
          /\ e[1] = ptr[t]
          /\ \A i \in 1 .. n : e[i + 1] = c[i]
          /\ \A i \in 2 .. n + 1 : e[i] = c[i - 1] /\ i - 1 \in 1 .. n
      BY <1>2
    <3>. QED
      BY <3>1
  <2>4. Shape(d, n + 1)'
    <3>1. next[d[n + 1]] = NULL
      BY <2>1, <2>2, <2>3, <1>2 DEF IsList, Shape, SuccessorOfNew
    <3>2. ASSUME NEW i \in 1 .. n PROVE next[d[i]] = d[i + 1]
      <4>1. CASE i = 1
        BY <4>1, <2>1, <2>2, <2>3, <1>2 DEF IsList, Shape, SuccessorOfNew
      <4>2. CASE i # 1
        <5>1. d[i] = c[i - 1] /\ d[i + 1] = c[i] /\ i - 1 \in 1 .. n - 1
          BY <4>2, <2>3
        <5>2. next[c[i - 1]] = c[(i - 1) + 1]
          BY <5>1, <2>1 DEF IsList, Shape
        <5>. QED
          BY <5>1, <5>2
      <4>. QED
        BY <4>1, <4>2
    <3>. QED
      BY <3>1, <3>2, <2>3, <1>1 DEF Shape
  <2>5. \A i \in 1 .. n : curr_fd[c[i]] # fd[t]
    <3>1. \A u \in Thread : Member(u) => u # t /\ fd[u] # fd[t]
      BY <1>1 DEF ExactInv, FdInv, Member, MemberPC, Live, Connection
    <3>. QED
      BY <3>1, <2>1 DEF IsList, Contents
  <2>6. Contents(d, n + 1)'
    <3>1. ASSUME NEW i \in 1 .. n + 1, NEW j \in 1 .. n + 1,
                 curr_fd[d[i]] = curr_fd[d[j]]
          PROVE  i = j
      <4>1. i = 1 <=> j = 1
        BY <3>1, <2>3, <2>5, <1>2
      <4>2. CASE i # 1 /\ j # 1
        <5>1. i - 1 = j - 1
          BY <3>1, <4>2, <2>1, <2>3 DEF IsList, Contents
        <5>. QED
          BY <5>1
      <4>. QED
        BY <4>1, <4>2
    <3>2. ASSUME NEW i \in 1 .. n + 1
          PROVE  \E u \in Thread : Member(u)' /\ fd[u] = curr_fd[d[i]]
      <4>1. CASE i = 1
        BY <4>1, <2>3, <1>2, <1>4
      <4>2. CASE i # 1
        BY <4>2, <2>1, <2>3, <1>4 DEF IsList, Contents
      <4>. QED
        BY <4>1, <4>2
    <3>3. ASSUME NEW u \in Thread, Member(u)'
          PROVE  \E i \in 1 .. n + 1 : fd[u] = curr_fd[d[i]]
      <4>1. CASE u = t
        BY <4>1, <2>3, <1>2
      <4>2. CASE u # t
        <5>1. PICK i \in 1 .. n : fd[u] = curr_fd[c[i]]
          BY <3>3, <4>2, <2>1, <1>4 DEF IsList, Contents
        <5>. QED
          BY <5>1, <2>3
      <4>. QED
        BY <4>1, <4>2
    <3>. QED
      BY <3>1, <3>2, <3>3, <1>1 DEF Contents
  <2>7. Apart(d, n + 1)'
    <3>1. \A u \in Thread : Owns(u)' => ptr[u] # ptr[t]
      BY <1>2, <1>4 DEF ExactInv, OwnInv
    <3>. QED
      BY <3>1, <2>1, <2>3, <1>1, <1>2, <1>4 DEF IsList, Apart
  <2>8. Count(n + 1)'
    <3>1. \A u \in Thread \ {t} :
            pc'[u] \notin {"r_count", "u_free", "u_count", "u_freehead"}
      BY <1>1, <1>3 DEF CriticalPC, RegisterPC, UnregisterPC
    <3>2. num_of_clients' = (n + 1) - 1
      BY <2>2, <1>1
    <3>. QED
      BY <3>1, <3>2, <1>1 DEF Count, UncountedPC
  <2>9. Walker(d, n + 1)'
    <3>1. \A u \in Thread : pc'[u] \notin {"u_walk", "u_unlink"}
      BY <1>1, <1>3 DEF CriticalPC, UnregisterPC
    <3>. QED
      BY <3>1 DEF Walker
  <2>10. n + 1 \in Nat /\ d \in [1 .. n + 1 -> heap']
    BY <2>3, <1>1
  <2>. QED
    BY <2>4, <2>6, <2>7, <2>8, <2>9, <2>10 DEF ListInv, IsList
<1>. QED
  BY <1>5, <1>6, <1>7 DEF ExactInv

-----------------------------------------------------------------------------
(* creg_unregister: the test and the search.                               *)

LEMMA TestExactInv ==
  ASSUME NEW t \in Thread, LockInv, ExactInv, UnregisterTest(t)
  PROVE  ExactInv'
<1> USE DEF LockInv, TypeOK
<1>1. /\ pc[t] = "u_test"
      /\ \A u \in Thread \ {t} : /\ pc'[u] = pc[u] /\ ptr'[u] = ptr[u]
                                 /\ prev_fd'[u] = prev_fd[u]
      /\ UNCHANGED <<num_of_clients, registered_fds, heap, curr_fd, next,
                     open_fds, main_pc, connfdp, fd>>
  BY DEF UnregisterTest, Goto, registry, cells, mainVars
<1>2. \/ num_of_clients = 1 /\ pc'[t] = "u_freehead"
      \/ /\ num_of_clients # 1 /\ pc'[t] = "u_walk"
         /\ ptr'[t] = registered_fds /\ prev_fd'[t] = registered_fds
  BY DEF UnregisterTest, Goto, LastClient
<1>3. \A u \in Thread \ {t} : pc[u] \notin CriticalPC
  BY <1>1, Alone DEF InCritical, CriticalPC, UnregisterPC
<1>4. \A u \in Thread : /\ Live(u)' <=> Live(u)
                        /\ Owns(u)' <=> Owns(u)
                        /\ Owns(u) => u # t
                        /\ Connection(u)' = Connection(u)
                        /\ Member(u)' <=> Member(u)
                        /\ pc'[u] \in UncountedPC <=> pc[u] \in UncountedPC
  BY <1>1, <1>2 DEF Live, Owns, OwnPC, Connection, Member, MemberPC,
                    UncountedPC
<1>5. FdInv'
  BY <1>1, <1>4 DEF ExactInv, FdInv
<1>6. OwnInv'
  BY <1>1, <1>2, <1>4 DEF ExactInv, OwnInv, SuccessorOfNew
<1>7. ListInv'
  <2>0. PICK n \in Nat : \E c \in [1 .. n -> heap] : IsList(c, n)
    BY DEF ExactInv, ListInv
  <2>1. PICK c \in [1 .. n -> heap] : IsList(c, n)
    BY <2>0
  <2>2. num_of_clients = n
    BY <2>1, <1>1, <1>3 DEF IsList, Count, UncountedPC, CriticalPC, RegisterPC,
                            UnregisterPC
  <2>3. n > 0 /\ c[1] = registered_fds
    BY <2>1, <1>1 DEF IsList, Contents, Member, MemberPC, Shape
  <2>4. Shape(c, n)'
    BY <2>1, <1>1 DEF IsList, Shape
  <2>5. Contents(c, n)'
    BY <2>1, <1>1, <1>4 DEF IsList, Contents
  <2>6. Apart(c, n)'
    BY <2>1, <1>1, <1>4 DEF IsList, Apart
  <2>7. Count(n)'
    BY <2>2, <1>1, <1>2, <1>3 DEF Count, UncountedPC, CriticalPC, RegisterPC,
                                  UnregisterPC
  <2>8. Walker(c, n)'
    <3>1. \A u \in Thread : pc'[u] \in {"u_walk", "u_unlink"} =>
            /\ pc'[u] = "u_walk" /\ ptr'[u] = c[1] /\ prev_fd'[u] = c[1]
      BY <2>3, <1>1, <1>2, <1>3 DEF CriticalPC, UnregisterPC
    <3>2. 1 \in 1 .. n /\ 1 .. 1 - 1 = {}
      BY <2>3
    <3>. QED
      BY <3>1, <3>2 DEF Walker
  <2>. QED
    BY <1>1, <2>4, <2>5, <2>6, <2>7, <2>8 DEF ListInv, IsList
<1>. QED
  BY <1>5, <1>6, <1>7 DEF ExactInv

\* The search stays in the list, because its descriptor is there.
LEMMA WalkExactInv ==
  ASSUME NEW t \in Thread, LockInv, ExactInv, UnregisterWalk(t)
  PROVE  ExactInv'
<1> USE DEF LockInv, TypeOK
<1>1. /\ pc[t] = "u_walk"
      /\ \A u \in Thread \ {t} : /\ pc'[u] = pc[u] /\ ptr'[u] = ptr[u]
                                 /\ prev_fd'[u] = prev_fd[u]
      /\ UNCHANGED <<num_of_clients, registered_fds, heap, curr_fd, next,
                     open_fds, main_pc, connfdp, fd>>
  BY DEF UnregisterWalk, Goto, registry, cells, mainVars
<1>2. PICK n \in Nat : \E c \in [1 .. n -> heap] : IsList(c, n)
  BY DEF ExactInv, ListInv
<1>3. PICK c \in [1 .. n -> heap] : IsList(c, n)
  BY <1>2
<1>4. PICK k \in 1 .. n :
        /\ ptr[t] = c[k]
        /\ prev_fd[t] = (IF k = 1 THEN c[1] ELSE c[k - 1])
        /\ \A j \in 1 .. k - 1 : curr_fd[c[j]] # fd[t]
  BY <1>3, <1>1 DEF IsList, Walker
<1>5. ptr[t] # NULL
  BY <1>4, NullAssumption
<1>6. \/ /\ curr_fd[c[k]] = fd[t] /\ pc'[t] = "u_unlink"
         /\ ptr'[t] = ptr[t] /\ prev_fd'[t] = prev_fd[t]
      \/ /\ curr_fd[c[k]] # fd[t] /\ pc'[t] = "u_walk"
         /\ ptr'[t] = next[c[k]] /\ prev_fd'[t] = c[k]
  BY <1>1, <1>4, <1>5 DEF UnregisterWalk, Goto, Found
<1>7. \A u \in Thread : /\ Live(u)' <=> Live(u)
                        /\ Owns(u)' <=> Owns(u)
                        /\ Owns(u) => u # t
                        /\ Connection(u)' = Connection(u)
                        /\ Member(u)' <=> Member(u)
                        /\ pc'[u] \in UncountedPC <=> pc[u] \in UncountedPC
  BY <1>1, <1>6 DEF Live, Owns, OwnPC, Connection, Member, MemberPC,
                    UncountedPC
<1>8. FdInv'
  BY <1>1, <1>7 DEF ExactInv, FdInv
<1>9. OwnInv'
  BY <1>1, <1>6, <1>7 DEF ExactInv, OwnInv, SuccessorOfNew
<1>10. ListInv'
  <2>1. Shape(c, n)'
    BY <1>1, <1>3 DEF IsList, Shape
  <2>2. Contents(c, n)'
    BY <1>1, <1>3, <1>7 DEF IsList, Contents
  <2>3. Apart(c, n)'
    BY <1>1, <1>3, <1>7 DEF IsList, Apart
  <2>4. Count(n)'
    BY <1>1, <1>3, <1>6, <1>7 DEF IsList, Count, UncountedPC
  <2>5. ASSUME NEW u \in Thread, pc'[u] \in {"u_walk", "u_unlink"}
        PROVE  u = t
    BY <2>5, <1>1, Alone DEF InCritical, CriticalPC, UnregisterPC
  <2>6. CASE curr_fd[c[k]] = fd[t]
    <3>1. ptr'[t] = ptr[t] /\ prev_fd'[t] = prev_fd[t] /\ pc'[t] = "u_unlink"
      BY <2>6, <1>6
    <3>2. Walker(c, n)'
      BY <3>1, <2>5, <2>6, <1>1, <1>4 DEF Walker
    <3>. QED
      BY <2>1, <2>2, <2>3, <2>4, <3>2, <1>1 DEF ListInv, IsList
  <2>7. CASE curr_fd[c[k]] # fd[t]
    <3>1. PICK i \in 1 .. n : fd[t] = curr_fd[c[i]]
      BY <1>1, <1>3 DEF IsList, Contents, Member, MemberPC
    <3>2. k < i
      BY <3>1, <2>7, <1>4
    <3>3. /\ k \in 1 .. n - 1 /\ k + 1 \in 1 .. n /\ k + 1 # 1
          /\ (k + 1) - 1 = k
      BY <3>2
    <3>4. ptr'[t] = c[k + 1] /\ prev_fd'[t] = c[k] /\ pc'[t] = "u_walk"
      BY <3>3, <2>7, <1>3, <1>6 DEF IsList, Shape
    <3>5. \A j \in 1 .. k : curr_fd[c[j]] # fd[t]
      BY <2>7, <1>4
    <3>6. Walker(c, n)'
      BY <3>3, <3>4, <3>5, <2>5, <1>1 DEF Walker
    <3>. QED
      BY <2>1, <2>2, <2>3, <2>4, <3>6, <1>1 DEF ListInv, IsList
  <2>. QED
    BY <2>6, <2>7
<1>. QED
  BY <1>8, <1>9, <1>10 DEF ExactInv

\* The thread that frees the head blindly is the only member, so that the head
\* is its own cell.
LEMMA OnlyMember ==
  ASSUME NEW t \in Thread, LockInv, ExactInv, pc[t] = "u_freehead"
  PROVE  /\ num_of_clients = 1
         /\ registered_fds \in heap
         /\ curr_fd[registered_fds] = fd[t]
         /\ main_pc # "malloc" => connfdp # registered_fds
         /\ \A u \in Thread : Owns(u) => ptr[u] # registered_fds
         /\ \A u \in Thread \ {t} : ~Member(u) /\ pc[u] \notin CriticalPC
<1> USE DEF LockInv, TypeOK
<1>1. \A u \in Thread \ {t} : pc[u] \notin CriticalPC
  BY Alone DEF InCritical, CriticalPC, UnregisterPC
<1>2. PICK n \in Nat : \E c \in [1 .. n -> heap] : IsList(c, n)
  BY DEF ExactInv, ListInv
<1>3. PICK c \in [1 .. n -> heap] : IsList(c, n)
  BY <1>2
<1>4. num_of_clients = 1
  BY <1>3 DEF IsList, Count
<1>5. n = 1
  BY <1>1, <1>3, <1>4 DEF IsList, Count, UncountedPC, CriticalPC, RegisterPC,
                          UnregisterPC
<1>6. c[1] = registered_fds /\ c[1] \in heap /\ 1 \in 1 .. n
  BY <1>3, <1>5 DEF IsList, Shape
<1>7. \A u \in Thread : Member(u) => fd[u] = curr_fd[c[1]]
  BY <1>3, <1>5 DEF IsList, Contents
<1>8. curr_fd[registered_fds] = fd[t]
  BY <1>6, <1>7 DEF Member, MemberPC
<1>9. ASSUME NEW u \in Thread, Member(u) PROVE u = t
  <2>1. /\ Live(u) /\ Connection(u) = fd[u]
        /\ Live(t) /\ Connection(t) = fd[t]
    BY <1>9 DEF Member, MemberPC, Live, Connection
  <2>. QED
    BY <1>6, <1>7, <1>8, <1>9, <2>1 DEF ExactInv, FdInv
<1>10. /\ main_pc # "malloc" => connfdp # registered_fds
       /\ \A u \in Thread : Owns(u) => ptr[u] # registered_fds
  BY <1>3, <1>6 DEF IsList, Apart
<1>. QED
  BY <1>1, <1>4, <1>6, <1>8, <1>9, <1>10

LEMMA FreeHeadExactInv ==
  ASSUME NEW t \in Thread, LockInv, ExactInv, UnregisterFreeHead(t)
  PROVE  ExactInv'
<1> USE DEF LockInv, TypeOK
<1>1. /\ pc[t] = "u_freehead" /\ pc'[t] = "u_count"
      /\ \A u \in Thread \ {t} : pc'[u] = pc[u]
      /\ UNCHANGED <<num_of_clients, registered_fds, open_fds, main_pc,
                     connfdp, fd, ptr, prev_fd>>
      /\ heap' = heap \ {registered_fds}
      /\ \A a \in Addr : a # registered_fds => curr_fd'[a] = curr_fd[a]
                                               /\ next'[a] = next[a]
  BY DEF UnregisterFreeHead, Goto, Free, registry, mainVars
<1>2. /\ num_of_clients = 1
      /\ main_pc # "malloc" => connfdp # registered_fds
      /\ \A u \in Thread : Owns(u) => ptr[u] # registered_fds
      /\ \A u \in Thread \ {t} : ~Member(u) /\ pc[u] \notin CriticalPC
  BY <1>1, OnlyMember
<1>3. \A u \in Thread : Owns(u) => curr_fd'[ptr[u]] = curr_fd[ptr[u]]
                                   /\ next'[ptr[u]] = next[ptr[u]]
  BY <1>1, <1>2 DEF ExactInv, OwnInv
<1>4. \A u \in Thread : /\ Live(u)' <=> Live(u)
                        /\ Owns(u)' <=> Owns(u)
                        /\ Connection(u)' = Connection(u)
                        /\ ~Member(u)'
  BY <1>1, <1>2, <1>3 DEF Live, Owns, OwnPC, Connection, Member, MemberPC
<1>5. FdInv'
  <2>1. main_pc = "create" => curr_fd'[connfdp] = curr_fd[connfdp]
    BY <1>1, <1>2 DEF ExactInv, OwnInv
  <2>. QED
    BY <1>1, <1>4, <2>1 DEF ExactInv, FdInv
<1>6. OwnInv'
  <2>1. \A u \in Thread : pc'[u] \notin {"r_next", "r_head"}
    BY <1>1, <1>2 DEF CriticalPC, RegisterPC
  <2>. QED
    BY <1>1, <1>2, <1>4, <2>1 DEF ExactInv, OwnInv
<1>7. ListInv'
  <2>1. PICK d : d \in [1 .. 0 -> heap']
    <3>1. [i \in 1 .. 0 |-> NULL] \in [1 .. 0 -> heap']
      OBVIOUS
    <3>. QED
      BY <3>1
  <2>2. Shape(d, 0)' /\ Contents(d, 0)' /\ Apart(d, 0)'
    BY <1>4 DEF Shape, Contents, Apart
  <2>3. Count(0)'
    BY <1>1, <1>2 DEF Count, UncountedPC, CriticalPC, RegisterPC, UnregisterPC
  <2>4. Walker(d, 0)'
    <3>1. \A u \in Thread : pc'[u] \notin {"u_walk", "u_unlink"}
      BY <1>1, <1>2 DEF CriticalPC, UnregisterPC
    <3>. QED
      BY <3>1 DEF Walker
  <2>. QED
    BY <2>1, <2>2, <2>3, <2>4 DEF ListInv, IsList
<1>. QED
  BY <1>5, <1>6, <1>7 DEF ExactInv

-----------------------------------------------------------------------------
(* creg_unregister: the cell found is taken out of the list.               *)

LEMMA UnlinkExactInv ==
  ASSUME NEW t \in Thread, LockInv, ExactInv, UnregisterUnlink(t)
  PROVE  ExactInv'
<1> USE DEF LockInv, TypeOK
<1>1. /\ pc[t] = "u_unlink" /\ pc'[t] = "u_free"
      /\ \A u \in Thread \ {t} : pc'[u] = pc[u]
      /\ UNCHANGED <<num_of_clients, heap, curr_fd, open_fds, main_pc, connfdp,
                     fd, ptr, prev_fd>>
  BY DEF UnregisterUnlink, Goto, mainVars
<1>2. PICK n \in Nat : \E c \in [1 .. n -> heap] : IsList(c, n)
  BY DEF ExactInv, ListInv
<1>3. PICK c \in [1 .. n -> heap] : IsList(c, n)
  BY <1>2
<1>4. PICK k \in 1 .. n : /\ ptr[t] = c[k]
                          /\ prev_fd[t] = (IF k = 1 THEN c[1] ELSE c[k - 1])
                          /\ curr_fd[c[k]] = fd[t]
  BY <1>3, <1>1 DEF IsList, Walker
<1>5. \A i, j \in 1 .. n : c[i] = c[j] => i = j
  BY <1>3 DEF IsList, Contents
<1>6. registered_fds = c[1] /\ next[c[n]] = NULL /\ 1 \in 1 .. n
  BY <1>3, <1>4 DEF IsList, Shape
<1>7. \A u \in Thread \ {t} : pc[u] \notin CriticalPC
  BY <1>1, Alone DEF InCritical, CriticalPC, UnregisterPC
<1>8. \A u \in Thread : /\ Live(u)' <=> Live(u)
                        /\ Owns(u)' <=> Owns(u) \/ u = t
                        /\ Connection(u)' = Connection(u)
                        /\ Member(u)' <=> Member(u) /\ u # t
  BY <1>1 DEF Live, Owns, OwnPC, Connection, Member, MemberPC
<1>9. FdInv'
  BY <1>1, <1>8 DEF ExactInv, FdInv
<1>10. OwnInv'
  <2>1. /\ ptr[t] \in heap /\ ~Owns(t)
        /\ main_pc # "malloc" => ptr[t] # connfdp
        /\ \A u \in Thread : Owns(u) => ptr[u] # ptr[t]
    BY <1>1, <1>3, <1>4 DEF IsList, Apart, Owns, OwnPC
  <2>2. \A u \in Thread : pc'[u] \notin {"r_next", "r_head"}
    BY <1>1, <1>7 DEF CriticalPC, RegisterPC
  <2>. QED
    BY <1>1, <1>8, <2>1, <2>2 DEF ExactInv, OwnInv
\* The list without c[k].
<1>11. PICK m \in Nat : n = m + 1
  <2>1. n - 1 \in Nat /\ n = (n - 1) + 1
    BY <1>4
  <2>. QED
    BY <2>1
<1>12. PICK d \in [1 .. m -> heap] :
         \A i \in 1 .. m : d[i] = IF i < k THEN c[i] ELSE c[i + 1]
  <2> DEFINE e == [i \in 1 .. m |-> IF i < k THEN c[i] ELSE c[i + 1]]
  <2>1. e \in [1 .. m -> heap]
    BY <1>11
  <2>. QED
    BY <2>1
<1>13. Shape(d, m)'
  <2>1. CASE k = 1
    <3>1. registered_fds' = next[c[1]] /\ next' = next
      BY <2>1, <1>4, <1>6 DEF UnregisterUnlink
    <3>2. \A i \in 1 .. m : d[i] = c[i + 1]
      BY <2>1, <1>12
    <3>3. \A i \in 1 .. m : next[c[i]] = c[i + 1]
      BY <1>3, <1>11 DEF IsList, Shape
    <3>4. m > 0 => d[1] = next[c[1]] /\ d[m] = c[n]
      BY <3>2, <3>3, <1>11
    <3>5. \A i \in 1 .. m - 1 : next[d[i]] = d[i + 1]
      BY <3>2, <3>3, <1>11
    <3>. QED
      BY <3>1, <3>4, <3>5, <1>6 DEF Shape
  <2>2. CASE k # 1
    <3>1. k - 1 \in 1 .. m /\ k - 1 \in 1 .. n /\ (k - 1) + 1 = k
      BY <2>2, <1>11
    <3>2. ptr[t] # registered_fds
      BY <2>2, <1>4, <1>5, <1>6
    <3>3. /\ registered_fds' = registered_fds
          /\ next'[c[k - 1]] = next[c[k]]
          /\ \A a \in Addr : a # c[k - 1] => next'[a] = next[a]
      BY <2>2, <3>1, <3>2, <1>4 DEF UnregisterUnlink
    <3>4. \A i \in 1 .. m : next[c[i]] = c[i + 1]
      BY <1>3, <1>11 DEF IsList, Shape
    <3>5. \A i \in 1 .. n : i # k - 1 => next'[c[i]] = next[c[i]]
      BY <3>1, <3>3, <1>5
    <3>6. d[1] = registered_fds
      <4>1. 1 \in 1 .. m /\ 1 < k
        BY <2>2, <1>4, <1>11
      <4>2. d[1] = c[1]
        BY <4>1, <1>12
      <4>. QED
        BY <4>2, <1>6
    <3>7. next'[d[m]] = NULL
      <4>1. CASE k = n
        BY <4>1, <3>1, <3>3, <1>6, <1>11, <1>12
      <4>2. CASE k < n
        BY <4>2, <3>1, <3>5, <1>6, <1>11, <1>12
      <4>. QED
        BY <4>1, <4>2
    <3>8. ASSUME NEW i \in 1 .. m - 1 PROVE next'[d[i]] = d[i + 1]
      <4>1. CASE i < k - 1
        BY <4>1, <3>4, <3>5, <1>11, <1>12
      <4>2. CASE i = k - 1
        <5>1. d[i] = c[k - 1] /\ d[i + 1] = c[k + 1] /\ k \in 1 .. m
          BY <4>2, <1>11, <1>12
        <5>. QED
          BY <5>1, <3>3, <3>4
      <4>3. CASE i > k - 1
        <5>1. /\ d[i] = c[i + 1] /\ d[i + 1] = c[(i + 1) + 1]
              /\ i + 1 \in 1 .. m /\ i + 1 \in 1 .. n /\ i + 1 # k - 1
          BY <4>3, <1>11, <1>12
        <5>. QED
          BY <5>1, <3>4, <3>5
      <4>. QED
        BY <4>1, <4>2, <4>3
    <3>. QED
      BY <3>3, <3>6, <3>7, <3>8 DEF Shape
  <2>. QED
    BY <2>1, <2>2
<1>14. Contents(d, m)'
  <2>1. ASSUME NEW i \in 1 .. m, NEW j \in 1 .. m, curr_fd[d[i]] = curr_fd[d[j]]
        PROVE  i = j
    BY <2>1, <1>3, <1>11, <1>12 DEF IsList, Contents
  <2>2. \A i \in 1 .. m : curr_fd[d[i]] # fd[t]
    BY <1>3, <1>4, <1>11, <1>12 DEF IsList, Contents
  <2>3. ASSUME NEW i \in 1 .. m
        PROVE  \E u \in Thread : Member(u)' /\ fd[u] = curr_fd[d[i]]
    <3>1. \E u \in Thread : Member(u) /\ fd[u] = curr_fd[d[i]]
      BY <1>3, <1>11, <1>12 DEF IsList, Contents
    <3>. QED
      BY <3>1, <2>2, <1>8
  <2>4. ASSUME NEW u \in Thread, Member(u)'
        PROVE  \E i \in 1 .. m : fd[u] = curr_fd[d[i]]
    <3>1. PICK i \in 1 .. n : fd[u] = curr_fd[c[i]]
      BY <2>4, <1>3, <1>8 DEF IsList, Contents
    <3>2. fd[u] # fd[t]
      BY <2>4, <1>1, <1>8 DEF ExactInv, FdInv, Member, MemberPC, Live, Connection
    <3>3. CASE i < k
      BY <3>1, <3>3, <1>11, <1>12
    <3>4. CASE i > k
      <4>1. i - 1 \in 1 .. m /\ d[i - 1] = c[i]
        BY <3>4, <1>11, <1>12
      <4>. QED
        BY <3>1, <4>1
    <3>. QED
      BY <3>1, <3>2, <3>3, <3>4, <1>4
  <2>. QED
    BY <2>1, <2>3, <2>4, <1>1 DEF Contents
<1>15. Apart(d, m)'
  <2>1. ASSUME NEW i \in 1 .. m
        PROVE  /\ d[i] # c[k]
               /\ main_pc # "malloc" => d[i] # connfdp
               /\ \A u \in Thread : Owns(u) => d[i] # ptr[u]
    <3>1. PICK j \in 1 .. n : d[i] = c[j] /\ j # k
      BY <1>11, <1>12
    <3>. QED
      BY <3>1, <1>3, <1>5 DEF IsList, Apart
  <2>. QED
    BY <2>1, <1>1, <1>4, <1>8 DEF Apart
<1>16. Count(m)'
  <2>1. num_of_clients = n
    BY <1>1, <1>3, <1>7 DEF IsList, Count, UncountedPC, CriticalPC, RegisterPC,
                            UnregisterPC
  <2>2. num_of_clients' = m + 1
    BY <2>1, <1>1, <1>11
  <2>3. \A u \in Thread \ {t} :
          pc'[u] \notin {"r_count", "u_free", "u_count", "u_freehead"}
    BY <1>1, <1>7 DEF CriticalPC, RegisterPC, UnregisterPC
  <2>. QED
    BY <2>2, <2>3, <1>1 DEF Count, UncountedPC
<1>17. Walker(d, m)'
  <2>1. \A u \in Thread : pc'[u] \notin {"u_walk", "u_unlink"}
    BY <1>1, <1>7 DEF CriticalPC, UnregisterPC
  <2>. QED
    BY <2>1 DEF Walker
<1>18. ListInv'
  BY <1>1, <1>13, <1>14, <1>15, <1>16, <1>17 DEF ListInv, IsList
<1>. QED
  BY <1>9, <1>10, <1>18 DEF ExactInv

-----------------------------------------------------------------------------
LEMMA ServiceExactInv ==
  ASSUME NEW t \in Thread, LockInv, ExactInv, Service(t)
  PROVE  ExactInv'
<1>1. CASE ThreadStart(t) \/ ServiceEnds(t) \/ ThreadClose(t)
  BY <1>1, StartExactInv, QuietExactInv, CloseExactInv DEF QuietStep
<1>2. CASE Register(t)
  BY <1>2, QuietExactInv, AllocExactInv, NextCellExactInv, HeadExactInv,
     CountExactInv DEF Register, QuietStep
<1>3. CASE Unregister(t)
  BY <1>3, QuietExactInv, TestExactInv, FreeHeadExactInv, WalkExactInv,
     UnlinkExactInv, FreeExactInv, CountExactInv DEF Unregister, QuietStep
<1>. QED
  BY <1>1, <1>2, <1>3 DEF Service

LEMMA StillExactInv == ExactInv /\ UNCHANGED <<registry, cells, mainVars, threadVars>>
                         => ExactInv'
<1> SUFFICES ASSUME ExactInv, UNCHANGED <<registry, cells, mainVars, threadVars>>
             PROVE  ExactInv'
  OBVIOUS
<1> USE DEF registry, cells, mainVars, threadVars
<1>1. FdInv' /\ OwnInv'
  BY DEF ExactInv, FdInv, OwnInv, Live, Owns, Connection, SuccessorOfNew
<1>2. ListInv'
  <2>0. PICK n \in Nat : \E c \in [1 .. n -> heap] : IsList(c, n)
    BY DEF ExactInv, ListInv
  <2>1. PICK c \in [1 .. n -> heap] : IsList(c, n)
    BY <2>0
  <2>2. Shape(c, n)' /\ Contents(c, n)' /\ Apart(c, n)'
    BY <2>1 DEF IsList, Shape, Contents, Apart, Member, Owns
  <2>3. Count(n)' /\ Walker(c, n)'
    BY <2>1 DEF IsList, Count, Walker
  <2>. QED
    BY <2>2, <2>3 DEF ListInv, IsList
<1>. QED
  BY <1>1, <1>2 DEF ExactInv

LEMMA NextExactInv == LockInv /\ ExactInv /\ OpenInv /\ [Next]_vars => ExactInv'
<1> SUFFICES ASSUME LockInv, ExactInv, OpenInv, [Next]_vars PROVE ExactInv'
  OBVIOUS
<1>1. CASE Main
  BY <1>1, MallocExactInv, AcceptExactInv, CreateExactInv DEF Main
<1>2. CASE \E t \in Thread : Service(t)
  BY <1>2, ServiceExactInv
<1>3. CASE UNCHANGED vars
  BY <1>3, StillExactInv DEF vars
<1>. QED
  BY <1>1, <1>2, <1>3 DEF Next

(* What keeps the descriptors open: no step of another thread writes to    *)
(* the cell of an argument, and each thread closes its own only.           *)
LEMMA ArgumentsKept ==
  ASSUME NEW t \in Thread, LockInv, ExactInv, Service(t)
  PROVE  /\ UNCHANGED <<main_pc, connfdp>>
         /\ main_pc # "malloc" => curr_fd'[connfdp] = curr_fd[connfdp]
         /\ \A u \in Thread \ {t} : pc[u] = "start" =>
              curr_fd'[ptr[u]] = curr_fd[ptr[u]]
<1> USE DEF LockInv, TypeOK, Goto
<1>1. \A u \in Thread : pc[u] = "start" => Owns(u) /\ ptr[u] \in heap
  BY DEF Owns, OwnPC, ExactInv, OwnInv
<1>2. CASE ThreadStart(t) \/ UnregisterFree(t)
  <2>1. /\ \A a \in Addr : a # ptr[t] => curr_fd'[a] = curr_fd[a]
        /\ UNCHANGED <<main_pc, connfdp>>
    BY <1>2 DEF ThreadStart, UnregisterFree, Free, mainVars
  <2>2. Owns(t)
    BY <1>2 DEF ThreadStart, UnregisterFree, Owns, OwnPC
  <2>. QED
    BY <1>1, <2>1, <2>2 DEF ExactInv, OwnInv
<1>3. CASE RegisterAlloc(t)
  <2>1. PICK a \in Addr \ heap : curr_fd' = [curr_fd EXCEPT ![a] = fd[t]]
    BY <1>3 DEF RegisterAlloc
  <2>. QED
    BY <1>1, <1>3, <2>1 DEF RegisterAlloc, mainVars, ExactInv, OwnInv
<1>4. CASE UnregisterFreeHead(t)
  <2>1. /\ \A a \in Addr : a # registered_fds => curr_fd'[a] = curr_fd[a]
        /\ UNCHANGED <<main_pc, connfdp>>
    BY <1>4 DEF UnregisterFreeHead, Free, mainVars
  <2>2. pc[t] = "u_freehead"
    BY <1>4 DEF UnregisterFreeHead
  <2>. QED
    BY <1>1, <2>1, <2>2, OnlyMember DEF ExactInv, OwnInv
<1>5. CASE UNCHANGED <<curr_fd, mainVars>>
  BY <1>5 DEF mainVars
<1>. QED
  BY <1>2, <1>3, <1>4, <1>5
     DEF Service, Register, Unregister, ServiceEnds, ThreadClose, RegisterP,
         RegisterNext, RegisterHead, RegisterCount, RegisterV, UnregisterP,
         UnregisterTest, UnregisterWalk, UnregisterUnlink, UnregisterCount,
         UnregisterV, cells

\* A step of one thread leaves the variables of the others alone.
LEMMA OthersStay ==
  ASSUME NEW t \in Thread, LockInv, Service(t)
  PROVE  \A u \in Thread \ {t} : /\ pc'[u] = pc[u] /\ fd'[u] = fd[u]
                                 /\ ptr'[u] = ptr[u] /\ prev_fd'[u] = prev_fd[u]
BY DEF LockInv, TypeOK, Goto, Service, Register, Unregister, ThreadStart,
       ServiceEnds, ThreadClose, RegisterP, RegisterAlloc, RegisterNext,
       RegisterHead, RegisterCount, RegisterV, UnregisterP, UnregisterTest,
       UnregisterFreeHead, UnregisterWalk, UnregisterUnlink, UnregisterFree,
       UnregisterCount, UnregisterV

\* A thread keeps its connection until it closes it.
LEMMA OwnConnection ==
  ASSUME NEW t \in Thread, LockInv, Service(t)
  PROVE  /\ Live(t) /\ pc'[t] # "start"
         /\ \/ /\ Live(t)' /\ Connection(t)' = Connection(t)
               /\ open_fds' = open_fds
            \/ /\ ~Live(t)' /\ open_fds' = open_fds \ {Connection(t)}
               /\ UNCHANGED curr_fd
<1> USE DEF LockInv, TypeOK, Goto, Live, Connection
<1>1. CASE ThreadClose(t)
  BY <1>1 DEF ThreadClose, cells
<1>2. CASE ThreadStart(t) \/ ServiceEnds(t)
  BY <1>2 DEF ThreadStart, ServiceEnds
<1>3. CASE Register(t)
  BY <1>3 DEF Register, RegisterP, RegisterAlloc, RegisterNext, RegisterHead,
              RegisterCount, RegisterV
<1>4. CASE Unregister(t)
  BY <1>4 DEF Unregister, UnregisterP, UnregisterTest, UnregisterFreeHead,
              UnregisterWalk, UnregisterUnlink, UnregisterFree, UnregisterCount,
              UnregisterV
<1>. QED
  BY <1>1, <1>2, <1>3, <1>4 DEF Service

LEMMA ServiceOpenInv ==
  ASSUME NEW t \in Thread, LockInv, ExactInv, OpenInv, Service(t)
  PROVE  OpenInv'
<1>1. \A u \in Thread \ {t} : /\ Live(u)' <=> Live(u)
                              /\ Live(u) => Connection(u)' = Connection(u)
  BY OthersStay, ArgumentsKept DEF Live, Connection
<1>2. CASE Live(t)'
  BY <1>1, <1>2, OwnConnection, ArgumentsKept DEF OpenInv
<1>3. CASE ~Live(t)'
  <2>1. Live(t) /\ open_fds' = open_fds \ {Connection(t)}
    BY <1>3, OwnConnection
  <2>. QED
    BY <1>1, <1>3, <2>1, ArgumentsKept DEF OpenInv, ExactInv, FdInv
<1>. QED
  BY <1>2, <1>3

LEMMA NextOpenInv == LockInv /\ ExactInv /\ OpenInv /\ [Next]_vars => OpenInv'
<1> SUFFICES ASSUME LockInv, ExactInv, OpenInv, [Next]_vars PROVE OpenInv'
  OBVIOUS
<1> USE DEF LockInv, TypeOK
<1>1. CASE MainMalloc
  BY <1>1 DEF MainMalloc, threadVars, OpenInv, Live, Connection
<1>2. CASE MainAccept
  <2>1. PICK f \in Fd \ open_fds : /\ open_fds' = open_fds \cup {f}
                                   /\ curr_fd' = [curr_fd EXCEPT ![connfdp] = f]
    BY <1>2 DEF MainAccept
  <2>2. \A t \in Thread : Live(t) => Connection(t)' = Connection(t)
    BY <1>2, <2>1 DEF MainAccept, threadVars, Connection, ExactInv, OwnInv,
                     Owns, OwnPC
  <2>3. connfdp \in Addr /\ connfdp' = connfdp
    BY <1>2 DEF MainAccept, ExactInv, OwnInv
  <2>. QED
    BY <1>2, <2>1, <2>2, <2>3 DEF MainAccept, threadVars, OpenInv, Live
<1>3. CASE MainCreate
  BY <1>3 DEF MainCreate, Goto, cells, OpenInv, Live, Connection
<1>4. CASE \E t \in Thread : Service(t)
  BY <1>4, ServiceOpenInv
<1>5. CASE UNCHANGED vars
  BY <1>5 DEF vars, cells, mainVars, threadVars, OpenInv, Live, Connection
<1>. QED
  BY <1>1, <1>2, <1>3, <1>4, <1>5 DEF Next, Main

LEMMA ExactInvariant == Spec => [](LockInv /\ ExactInv /\ OpenInv)
<1>1. Init => LockInv /\ ExactInv /\ OpenInv
  BY InitLockInv, InitExactInv DEF Init, OpenInv, Live
<1>2. LockInv /\ ExactInv /\ OpenInv /\ [Next]_vars
        => (LockInv /\ ExactInv /\ OpenInv)'
  BY NextLockInv, NextExactInv, NextOpenInv
<1>. QED
  BY <1>1, <1>2, PTL DEF Spec

\* Two live service threads never serve the same descriptor, for any number of
\* threads and descriptors, and the descriptor of each is open.
THEOREM ConnectionsDistinct == Spec => []DistinctConnections
<1>1. LockInv /\ ExactInv /\ OpenInv => DistinctConnections
  <2>1. \A t \in Thread : HoldsFd(t) => Live(t) /\ Connection(t) = fd[t]
    BY DEF HoldsFd, Live, Connection
  <2>. QED
    BY <2>1 DEF ExactInv, FdInv, OpenInv, DistinctConnections
<1>. QED
  BY <1>1, ExactInvariant, PTL

\* No step of the registry or of its callers touches or frees a cell that is
\* not allocated, whatever the list holds.
THEOREM AccessSafe == Spec => []SafeAccess
<1>1. LockInv /\ ExactInv => SafeAccess
  <2> SUFFICES ASSUME LockInv, ExactInv, NEW t \in Thread PROVE AccessOK(t)
    BY DEF SafeAccess
  <2> USE DEF LockInv, TypeOK
  <2>0. PICK n \in Nat : \E c \in [1 .. n -> heap] : IsList(c, n)
    BY DEF ExactInv, ListInv
  <2>1. PICK c \in [1 .. n -> heap] : IsList(c, n)
    BY <2>0
  <2>2. pc[t] \in {"start", "r_next", "r_head", "u_free"} => ptr[t] \in heap
    BY DEF ExactInv, OwnInv, Owns, OwnPC
  <2>3. pc[t] = "u_freehead" => registered_fds \in heap
    BY OnlyMember
  <2>4. pc[t] \in {"u_walk", "u_unlink"} => ptr[t] \in heap /\ prev_fd[t] \in heap
    BY <2>1 DEF IsList, Walker
  <2>. QED
    BY <2>2, <2>3, <2>4 DEF AccessOK
<1>. QED
  BY <1>1, ExactInvariant, PTL

\* The search of creg_unregister finds its descriptor, however long the list
\* is, and the cell freed blindly for the last client is the caller's own.
THEOREM DescriptorFound == Spec => []UnregisterFinds
<1>1. LockInv /\ ExactInv => UnregisterFinds
  <2> SUFFICES ASSUME LockInv, ExactInv, NEW t \in Thread
               PROVE  /\ pc[t] = "u_walk" => ptr[t] # NULL
                      /\ pc[t] = "u_freehead" => curr_fd[registered_fds] = fd[t]
    BY DEF UnregisterFinds
  <2>1. PICK n \in Nat : \E c \in [1 .. n -> heap] : IsList(c, n)
    BY DEF ExactInv, ListInv
  <2>2. PICK c \in [1 .. n -> heap] : IsList(c, n)
    BY <2>1
  <2>3. pc[t] = "u_walk" => ptr[t] # NULL
    BY <2>2, NullAssumption DEF LockInv, TypeOK, IsList, Walker
  <2>. QED
    BY <2>3, OnlyMember
<1>. QED
  BY <1>1, ExactInvariant, PTL

\* Whenever nobody holds cr->mutex the registry is a list of num_of_clients
\* cells that holds the descriptors of the registered threads, each one once.
THEOREM RegistryIsExact == Spec => []RegistryExact
<1>1. LockInv /\ ExactInv => RegistryExact
  <2> SUFFICES ASSUME LockInv, ExactInv, mutex = 1 PROVE RegistryExact
    BY DEF RegistryExact
  <2> USE DEF LockInv, TypeOK
  <2>1. PICK n \in Nat : \E c \in [1 .. n -> heap] : IsList(c, n)
    BY DEF ExactInv, ListInv
  <2>2. PICK c \in [1 .. n -> heap] : IsList(c, n)
    BY <2>1
  <2>3. \A t \in Thread : pc[t] \notin CriticalPC
    BY DEF MutualExclusion, InCritical
  <2>4. num_of_clients = n
    BY <2>2, <2>3 DEF IsList, Count, UncountedPC, CriticalPC, RegisterPC,
                      UnregisterPC
  <2>5. \A t \in Thread : Member(t) <=> t \in RegisteredThread
    BY <2>3 DEF Member, MemberPC, RegisteredThread, CriticalPC, RegisterPC,
                UnregisterPC
  <2>6. \A i \in 1 .. n : \E t \in RegisteredThread : fd[t] = curr_fd[c[i]]
    BY <2>2, <2>5 DEF IsList, Contents
  <2>7. \A t \in RegisteredThread : \E i \in 1 .. n : fd[t] = curr_fd[c[i]]
    BY <2>2, <2>5 DEF IsList, Contents, RegisteredThread
  <2>8. \A i, j \in 1 .. n : curr_fd[c[i]] = curr_fd[c[j]] => i = j
    BY <2>2 DEF IsList, Contents
  <2>9. \A t, u \in RegisteredThread : fd[t] = fd[u] => t = u
    BY DEF ExactInv, FdInv, RegisteredThread, Live, Connection
  <2>10. Cardinality(RegisteredThread) = n
    <3> DEFINE f == [i \in 1 .. n |->
                       CHOOSE t \in RegisteredThread : fd[t] = curr_fd[c[i]]]
    <3>1. \A i \in 1 .. n : f[i] \in RegisteredThread /\ fd[f[i]] = curr_fd[c[i]]
      BY <2>6
    <3>2. f \in [1 .. n -> RegisteredThread]
      BY <3>1
    <3> HIDE DEF f
    <3>3. \A i, j \in 1 .. n : f[i] = f[j] => i = j
      BY <3>1, <2>8
    <3>4. \A t \in RegisteredThread : \E i \in 1 .. n : f[i] = t
      BY <3>1, <2>7, <2>9
    <3>5. f \in Bijection(1 .. n, RegisteredThread)
      BY <3>2, <3>3, <3>4, Fun_IsBij
    <3>. QED
      BY <3>5, FS_CountingElements DEF ExistsBijection
  <2>11. IsListing(c, n)
    BY <2>2, <2>8 DEF IsList, Shape, IsListing
  <2>12. {curr_fd[c[i]] : i \in 1 .. n} = {fd[t] : t \in RegisteredThread}
    BY <2>6, <2>7
  <2>. QED
    BY <2>4, <2>10, <2>11, <2>12 DEF RegistryExact
<1>. QED
  BY <1>1, ExactInvariant, PTL

-----------------------------------------------------------------------------
(* The cells reached from the head are those of the list.                  *)

\* A set of positions has a least one.  The initial segments 1 .. k are
\* well-founded under strict inclusion, which makes an induction unnecessary.
LEMMA LeastIndex ==
  ASSUME NEW n \in Nat, NEW T \in SUBSET (1 .. n), T # {}
  PROVE  \E m \in T : \A k \in T : m <= k
<1> DEFINE W == {1 .. k : k \in T}
<1>1. W \subseteq FiniteSubsetsOf(1 .. n)
  <2>1. ASSUME NEW k \in T PROVE IsFiniteSet(1 .. k) /\ (1 .. k) \in SUBSET (1 .. n)
    <3>1. k \in Int /\ 1 \in Int
      OBVIOUS
    <3>2. IsFiniteSet(1 .. k)
      BY ONLY <3>1, FS_Interval
    <3>. QED
      BY <3>2
  <2>. QED
    BY <2>1 DEF FiniteSubsetsOf
<1>2. W # {}
  OBVIOUS
<1> HIDE DEF W
<1>3. PICK x \in W : \A y \in W : ~(<<y, x>> \in StrictSubsetOrdering(1 .. n))
  BY <1>1, <1>2, WFMin, FS_StrictSubsetOrderingWellFounded
<1>4. PICK m \in T : x = 1 .. m
  BY DEF W
<1>5. ASSUME NEW k \in T, ~(m <= k) PROVE FALSE
  <2>1. 1 .. k \in W
    BY DEF W
  <2>2. /\ (1 .. k) \in SUBSET (1 .. n) /\ (1 .. m) \in SUBSET (1 .. n)
        /\ (1 .. k) \subseteq (1 .. m) /\ m \in 1 .. m /\ m \notin 1 .. k
    BY <1>5
  <2>3. <<1 .. k, 1 .. m>> \in StrictSubsetOrdering(1 .. n)
    BY <2>2 DEF StrictSubsetOrdering
  <2>. QED
    BY <1>3, <1>4, <2>1, <2>3
<1>. QED
  BY <1>5

LEMMA ReachedIsList ==
  ASSUME LockInv, NEW n \in Nat, n > 0, NEW c \in [1 .. n -> heap], Shape(c, n)
  PROVE  Reached = {c[i] : i \in 1 .. n}
<1> DEFINE C == {c[i] : i \in 1 .. n}
<1>1. C \subseteq Addr /\ c[1] \in C /\ NULL \notin Addr
  BY NullAssumption DEF LockInv, TypeOK
<1>2. Closed(C)
  <2>1. registered_fds \in C
    BY <1>1 DEF Shape
  <2>2. ASSUME NEW i \in 1 .. n PROVE next[c[i]] \in C \cup {NULL}
    <3>1. CASE i = n
      BY <3>1 DEF Shape
    <3>2. CASE i # n
      <4>1. i \in 1 .. n - 1 /\ i + 1 \in 1 .. n
        BY <3>2
      <4>2. next[c[i]] = c[i + 1]
        BY <4>1 DEF Shape
      <4>. QED
        BY <4>1, <4>2
    <3>. QED
      BY <3>1, <3>2
  <2>. QED
    BY <2>1, <2>2 DEF Closed
<1>3. ASSUME NEW S \in SUBSET Addr, Closed(S), NEW i \in 1 .. n
      PROVE  c[i] \in S
  <2> DEFINE T == {k \in 1 .. n : c[k] \notin S}
  <2>1. ASSUME T # {} PROVE FALSE
    <3>1. T \in SUBSET (1 .. n)
      OBVIOUS
    <3> HIDE DEF T
    <3>2. PICK m \in T : \A k \in T : m <= k
      BY <2>1, <3>1, LeastIndex
    <3>3. m \in 1 .. n /\ c[m] \notin S /\ c[m] \in Addr
      BY <1>1, <3>2 DEF T
    <3>4. m # 1
      BY <1>1, <1>3, <3>3 DEF Shape, Closed
    <3>5. m - 1 \in 1 .. n - 1 /\ m - 1 \in 1 .. n /\ (m - 1) + 1 = m /\ ~(m <= m - 1)
      BY <3>3, <3>4
    <3>6. c[m - 1] \in S
      BY <3>2, <3>5 DEF T
    <3>7. next[c[m - 1]] = c[m]
      BY <3>5 DEF Shape
    <3>. QED
      BY <1>1, <1>3, <3>3, <3>6, <3>7 DEF Closed
  <2>. QED
    BY <2>1
<1>4. C \subseteq Reached
  BY <1>1, <1>3 DEF Reached
<1>5. Reached \subseteq C
  BY <1>1, <1>2 DEF Reached
<1>. QED
  BY <1>4, <1>5

\* Who searches has not found itself alone.
SearchPC == {"u_walk", "u_unlink", "u_free"}
SearchInv == \A t \in Thread : pc[t] \in SearchPC => num_of_clients # 1

LEMMA NextSearchInv ==
  ASSUME LockInv, SearchInv, [Next]_vars PROVE SearchInv'
<1> USE DEF SearchInv, SearchPC, LockInv, TypeOK
<1>1. CASE UNCHANGED vars
  BY <1>1 DEF vars, registry, threadVars
<1>2. CASE MainMalloc \/ MainAccept
  BY <1>2 DEF MainMalloc, MainAccept, registry, threadVars
<1>3. CASE MainCreate
  BY <1>3 DEF MainCreate, registry, Goto
<1>4. ASSUME NEW t \in Thread, Service(t) PROVE SearchInv'
  <2>1. CASE RegisterCount(t) \/ UnregisterCount(t)
    <3>1. pc[t] \in CriticalPC
      BY <2>1 DEF RegisterCount, UnregisterCount, Goto, CriticalPC, RegisterPC,
                  UnregisterPC
    <3>2. \A u \in Thread \ {t} : pc[u] \notin CriticalPC
      BY <3>1, Alone DEF InCritical
    <3>3. pc'[t] \in {"r_V", "u_V"} /\ \A u \in Thread \ {t} : pc'[u] = pc[u]
      BY <2>1 DEF RegisterCount, UnregisterCount, Goto
    <3>. QED
      BY <3>2, <3>3 DEF CriticalPC, UnregisterPC
  <2>2. CASE UnregisterTest(t)
    BY <2>2 DEF UnregisterTest, LastClient, Goto, registry
  <2>3. CASE ThreadStart(t) \/ ServiceEnds(t) \/ ThreadClose(t) \/ RegisterP(t)
             \/ RegisterAlloc(t) \/ RegisterNext(t)
    BY <2>3 DEF ThreadStart, ServiceEnds, ThreadClose, RegisterP, RegisterAlloc,
            RegisterNext, Goto, registry
  <2>4. CASE RegisterHead(t) \/ RegisterV(t) \/ UnregisterP(t)
             \/ UnregisterFreeHead(t) \/ UnregisterWalk(t)
    BY <2>4 DEF RegisterHead, RegisterV, UnregisterP, UnregisterFreeHead,
            UnregisterWalk, Goto, registry
  <2>5. CASE UnregisterUnlink(t) \/ UnregisterFree(t) \/ UnregisterV(t)
    BY <2>5 DEF UnregisterUnlink, UnregisterFree, UnregisterV, Goto, registry
  <2>. QED
    BY <1>4, <2>1, <2>2, <2>3, <2>4, <2>5 DEF Service, Register, Unregister
<1>. QED
  BY <1>1, <1>2, <1>3, <1>4 DEF Next, Main

ListedInv == LockInv /\ ExactInv /\ OpenInv /\ SearchInv

LEMMA ListedInvariant == Spec => []ListedInv
<1>1. Init => SearchInv
  BY DEF Init, SearchInv, SearchPC
<1>2. LockInv /\ SearchInv /\ [Next]_vars => SearchInv'
  BY NextSearchInv
<1>3. Spec => []SearchInv
  BY <1>1, <1>2, LockInvariant, PTL DEF Spec
<1>. QED
  BY <1>3, ExactInvariant, PTL DEF ListedInv

\* The threads whose descriptor is in the registry: the call of the first
\* client takes effect when it is counted, those of the others when they are
\* linked.
Listed == {t \in Thread : Member(t) /\ ~(pc[t] = "r_count" /\ num_of_clients = 0)}

\* The list c[1], ..., c[n] and ListCells.
LEMMA ListCellsAre ==
  ASSUME ListedInv, NEW n \in Nat, NEW c \in [1 .. n -> heap], IsList(c, n)
  PROVE  \/ ListCells = {c[i] : i \in 1 .. n} /\ Listed = {t \in Thread : Member(t)}
         \/ ListCells = {} /\ Listed = {} /\ n = 1 /\ \E t \in Thread : pc[t] = "r_count"
<1>1. /\ LockInv /\ ExactInv /\ SearchInv /\ Shape(c, n) /\ Contents(c, n) /\ Count(n)
      /\ num_of_clients \in Int /\ pc \in [Thread -> PC]
  BY DEF ListedInv, IsList, LockInv, TypeOK
<1>2. \A t \in Thread : Member(t) => n > 0
  BY <1>1 DEF Contents
<1>3. CASE num_of_clients = 0
  <2>1. ListCells = {}
    BY <1>3 DEF ListCells
  <2>2. CASE n = 0
    BY <1>2, <2>1, <2>2 DEF Listed
  <2>3. CASE n # 0
    <3>1. PICK u \in Thread : pc[u] = "r_count"
      <4>1. PICK u \in Thread : pc[u] \in UncountedPC
        BY <1>1, <1>3, <2>3 DEF Count
      <4>. QED
        BY <1>1, <1>3, <4>1 DEF Count, UncountedPC
    <3>2. n = 1
      BY <1>1, <1>3, <3>1 DEF Count
    <3>3. ASSUME NEW t \in Thread, Member(t) PROVE t = u
      <4>1. Member(u)
        BY <3>1 DEF Member, MemberPC
      <4>2. fd[t] = curr_fd[c[1]] /\ fd[u] = curr_fd[c[1]]
        BY <1>1, <3>2, <3>3, <4>1 DEF Contents
      <4>3. Live(t) /\ Live(u) /\ Connection(t) = fd[t] /\ Connection(u) = fd[u]
        BY <3>3, <4>1 DEF Member, MemberPC, Live, Connection
      <4>. QED
        BY <1>1, <4>2, <4>3 DEF ExactInv, FdInv
    <3>4. Listed = {}
      BY <1>3, <3>1, <3>3 DEF Listed
    <3>. QED
      BY <2>1, <3>1, <3>2, <3>4
  <2>. QED
    BY <2>2, <2>3
<1>4. CASE num_of_clients # 0
  <2>1. Listed = {t \in Thread : Member(t)}
    BY <1>4 DEF Listed
  <2>2. CASE HeadFreed
    <3>1. n = 0
      BY <1>1, <2>2 DEF HeadFreed, Count
    <3>. QED
      BY <2>1, <2>2, <3>1 DEF ListCells
  <2>3. CASE ~HeadFreed
    <3>1. n > 0
      <4>1. ASSUME n = 0 PROVE FALSE
        <5>1. PICK u \in Thread : pc[u] \in UncountedPC
          BY <1>1, <1>4, <4>1 DEF Count
        <5>2. pc[u] # "r_count"
          BY <1>2, <4>1 DEF Member, MemberPC
        <5>3. pc[u] \in {"u_free", "u_count"} /\ num_of_clients = 1
          BY <1>1, <4>1, <5>1, <5>2 DEF Count, UncountedPC
        <5>. QED
          BY <1>1, <2>3, <5>3 DEF SearchInv, SearchPC, HeadFreed
      <4>. QED
        BY <4>1
    <3>2. Reached = {c[i] : i \in 1 .. n}
      BY <1>1, <3>1, ReachedIsList
    <3>. QED
      BY <1>4, <2>1, <2>3, <3>2 DEF ListCells
  <2>. QED
    BY <2>2, <2>3
<1>. QED
  BY <1>3, <1>4

\* The descriptors in the list are those of the listed threads.
LEMMA DescriptorsAre ==
  ASSUME ListedInv
  PROVE  {curr_fd[a] : a \in ListCells} = {fd[t] : t \in Listed}
<1>1. PICK n \in Nat : \E c \in [1 .. n -> heap] : IsList(c, n)
  BY DEF ListedInv, ExactInv, ListInv
<1>2. PICK c \in [1 .. n -> heap] : IsList(c, n)
  BY <1>1
<1>3. CASE ListCells = {} /\ Listed = {}
  BY <1>3
<1>4. CASE ListCells = {c[i] : i \in 1 .. n} /\ Listed = {t \in Thread : Member(t)}
  <2>1. \A i \in 1 .. n : \E t \in Listed : fd[t] = curr_fd[c[i]]
    BY <1>2, <1>4 DEF IsList, Contents
  <2>2. \A t \in Listed : \E i \in 1 .. n : fd[t] = curr_fd[c[i]]
    BY <1>2, <1>4 DEF IsList, Contents
  <2>3. ASSUME NEW a \in ListCells PROVE curr_fd[a] \in {fd[t] : t \in Listed}
    BY <1>4, <2>1
  <2>4. ASSUME NEW t \in Listed PROVE fd[t] \in {curr_fd[a] : a \in ListCells}
    BY <1>4, <2>2
  <2>. QED
    BY <2>3, <2>4
<1>. QED
  BY <1>2, <1>3, <1>4, ListCellsAre

-----------------------------------------------------------------------------
(* The registry implements the set of descriptors.                         *)

Descriptors == {fd[t] : t \in Listed}
CallPC == {"r_P", "serve", "u_P"} \cup CriticalPC

LEMMA Calls ==
  ASSUME ListedInv
  PROVE  /\ \A t \in Thread : Stage(t) # "out" <=> pc[t] \in CallPC
         /\ \A t \in Listed : pc[t] \in CallPC
         /\ \A t, u \in Thread :
              pc[t] \in CallPC /\ pc[u] \in CallPC /\ fd[t] = fd[u] => t = u
         /\ \A t \in Thread : pc[t] \in CallPC => fd[t] \in Fd
<1>0. pc \in [Thread -> PC] /\ open_fds \subseteq Fd /\ FdInv /\ OpenInv
  BY DEF ListedInv, LockInv, TypeOK, ExactInv
<1>1. \A t \in Thread : Stage(t) # "out" <=> pc[t] \in CallPC
  BY <1>0 DEF Stage, CallPC, CriticalPC, RegisterPC, UnregisterPC, PC
<1>2. \A t \in Listed : pc[t] \in CallPC
  BY DEF Listed, Member, MemberPC, CallPC, CriticalPC, RegisterPC, UnregisterPC
<1>3. \A t \in Thread : pc[t] \in CallPC => Live(t) /\ Connection(t) = fd[t]
  BY DEF CallPC, CriticalPC, RegisterPC, UnregisterPC, Live, Connection
<1>. QED
  BY <1>0, <1>1, <1>2, <1>3 DEF FdInv, OpenInv

SetInv == ListedInv /\ {curr_fd[a] : a \in ListCells} = Descriptors

LEMMA SetInvariant == Spec => []SetInv
<1>1. ListedInv => SetInv
  BY DescriptorsAre DEF SetInv, Descriptors
<1>. QED
  BY <1>1, ListedInvariant, PTL

\* A step that moves no thread with respect to the registry.
LEMMA MapsToStutter ==
  ASSUME SetInv, SetInv', Listed' = Listed,
         \A t \in Thread : Stage(t)' = Stage(t),
         \A t \in Thread : pc[t] \in CallPC => fd'[t] = fd[t]
  PROVE  UNCHANGED Abstract!vars
<1>1. Descriptors' = Descriptors
  <2>1. \A t \in Listed : fd'[t] = fd[t]
    BY Calls DEF SetInv, Listed
  <2>2. {fd'[t] : t \in Listed} = {fd[t] : t \in Listed}
    BY ONLY <2>1
  <2>. QED
    BY <2>2 DEF Descriptors
<1>2. {curr_fd[a] : a \in ListCells}' = {curr_fd[a] : a \in ListCells}
  BY <1>1 DEF SetInv
<1>3. \A t \in Thread : (IF Stage(t) = "out" THEN NULL ELSE fd[t])'
                          = (IF Stage(t) = "out" THEN NULL ELSE fd[t])
  BY Calls DEF SetInv
<1>4. [t \in Thread |-> Stage(t)]' = [t \in Thread |-> Stage(t)]
  OBVIOUS
<1>. QED
  BY <1>2, <1>3, <1>4 DEF Abstract!vars

\* A step that enters t in the list, and one that removes it.
LEMMA MapsToAdd ==
  ASSUME SetInv, SetInv', NEW t \in Thread, Stage(t) = "adding",
         t \notin Listed, Listed' = Listed \cup {t}, UNCHANGED fd,
         \A u \in Thread : Stage(u)' = Stage(u)
  PROVE  Abstract!Add(t)
<1>1. fd[t] \notin Descriptors
  BY Calls DEF SetInv, Descriptors, Listed
<1>2. Descriptors' = Descriptors \cup {fd[t]}
  <2>1. {fd[u] : u \in Listed \cup {t}} = {fd[u] : u \in Listed} \cup {fd[t]}
    OBVIOUS
  <2>. QED
    BY <2>1 DEF Descriptors
<1>3. {curr_fd[a] : a \in ListCells}' = {curr_fd[a] : a \in ListCells} \cup {fd[t]}
      /\ fd[t] \notin {curr_fd[a] : a \in ListCells}
  BY <1>1, <1>2 DEF SetInv
<1>4. [u \in Thread |-> Stage(u)]' = [u \in Thread |-> Stage(u)]
  OBVIOUS
<1>5. [u \in Thread |-> IF Stage(u) = "out" THEN NULL ELSE fd[u]]'
        = [u \in Thread |-> IF Stage(u) = "out" THEN NULL ELSE fd[u]]
  OBVIOUS
<1>. QED
  BY <1>3, <1>4, <1>5 DEF Abstract!Add

LEMMA MapsToRemove ==
  ASSUME SetInv, SetInv', NEW t \in Thread, Stage(t) = "removing",
         t \in Listed, Listed' = Listed \ {t}, UNCHANGED fd,
         \A u \in Thread : Stage(u)' = Stage(u)
  PROVE  Abstract!Remove(t)
<1>1. fd[t] \in Descriptors
  BY DEF Descriptors
<1>2. Descriptors' = Descriptors \ {fd[t]}
  <2>1. \A u \in Listed \ {t} : fd[u] # fd[t]
    BY Calls DEF SetInv, Listed
  <2>2. {fd[u] : u \in Listed \ {t}} = {fd[u] : u \in Listed} \ {fd[t]}
    BY <2>1
  <2>. QED
    BY <2>2 DEF Descriptors
<1>3. {curr_fd[a] : a \in ListCells}' = {curr_fd[a] : a \in ListCells} \ {fd[t]}
      /\ fd[t] \in {curr_fd[a] : a \in ListCells}
  BY <1>1, <1>2 DEF SetInv
<1>4. [u \in Thread |-> Stage(u)]' = [u \in Thread |-> Stage(u)]
  OBVIOUS
<1>5. [u \in Thread |-> IF Stage(u) = "out" THEN NULL ELSE fd[u]]'
        = [u \in Thread |-> IF Stage(u) = "out" THEN NULL ELSE fd[u]]
  OBVIOUS
<1>. QED
  BY <1>3, <1>4, <1>5 DEF Abstract!Remove

\* Where the threads are after a step of one of them.
LEMMA OneMoves ==
  ASSUME ListedInv, NEW t \in Thread, NEW from, NEW to, Goto(t, from, to)
  PROVE  /\ pc[t] = from /\ pc'[t] = to
         /\ \A u \in Thread \ {t} : pc'[u] = pc[u] /\ Stage(u)' = Stage(u)
                                    /\ (Member(u)' <=> Member(u))
BY DEF ListedInv, LockInv, TypeOK, Goto, Stage, Member

LEMMA QuietSteps ==
  ASSUME SetInv, SetInv', NEW t \in Thread,
         \/ RegisterP(t) \/ RegisterAlloc(t) \/ RegisterNext(t)
         \/ UnregisterP(t) \/ UnregisterTest(t) \/ UnregisterWalk(t)
         \/ UnregisterFree(t)
  PROVE  UNCHANGED Abstract!vars
<1>1. UNCHANGED <<num_of_clients, fd>>
  BY DEF RegisterP, RegisterAlloc, RegisterNext, UnregisterP, UnregisterTest,
         UnregisterWalk, UnregisterFree, registry
<1>2. ~(UnregisterWalk(t) /\ ptr[t] = NULL)
  BY NullAssumption DEF SetInv, ListedInv, ExactInv, ListInv, IsList, Walker,
     UnregisterWalk, Goto, LockInv, TypeOK
<1>3. PICK from \in PC, to \in PC :
        /\ Goto(t, from, to)
        /\ <<from, to>> \in {<<"r_P", "r_alloc">>, <<"r_alloc", "r_next">>,
             <<"r_next", "r_head">>, <<"u_P", "u_test">>, <<"u_test", "u_freehead">>,
             <<"u_test", "u_walk">>, <<"u_walk", "u_walk">>, <<"u_walk", "u_unlink">>,
             <<"u_free", "u_count">>}
  BY <1>2 DEF RegisterP, RegisterAlloc, RegisterNext, UnregisterP, UnregisterTest,
         UnregisterWalk, UnregisterFree, PC, CriticalPC, RegisterPC, UnregisterPC
<1>4. pc[t] = from /\ pc'[t] = to
  BY <1>3, OneMoves DEF SetInv
<1>5. Stage(t)' = Stage(t) /\ (Member(t)' <=> Member(t)) /\ from # "r_count" /\ to # "r_count"
  BY <1>3, <1>4 DEF Stage, Member, MemberPC, RegisterPC, UnregisterPC
<1>6. Listed' = Listed
  BY <1>1, <1>3, <1>4, <1>5, OneMoves DEF SetInv, Listed
<1>. QED
  BY <1>1, <1>3, <1>5, <1>6, OneMoves, MapsToStutter DEF SetInv

LEMMA HeadStep ==
  ASSUME SetInv, SetInv', NEW t \in Thread, RegisterHead(t)
  PROVE  Abstract!Add(t) \/ UNCHANGED Abstract!vars
<1>1. pc[t] = "r_head" /\ pc'[t] = "r_count" /\ UNCHANGED <<num_of_clients, fd>>
  BY OneMoves DEF SetInv, RegisterHead
<1>2. \A u \in Thread \ {t} : pc'[u] = pc[u] /\ (Member(u)' <=> Member(u))
  BY OneMoves DEF SetInv, RegisterHead
<1>3. ~Member(t) /\ Member(t)' /\ t \notin Listed
  BY <1>1 DEF Member, MemberPC, Listed
<1>4. Stage(t) = "adding" /\ \A u \in Thread : Stage(u)' = Stage(u)
  <2>1. Stage(t) = "adding" /\ Stage(t)' = "adding"
    BY <1>1 DEF Stage, RegisterPC, UnregisterPC
  <2>. QED
    BY <2>1, OneMoves DEF SetInv, RegisterHead
<1>5. CASE num_of_clients = 0
  <2>1. Listed' = Listed
    BY <1>1, <1>2, <1>3, <1>5 DEF Listed
  <2>. QED
    BY <1>1, <1>4, <2>1, MapsToStutter
<1>6. CASE num_of_clients # 0
  <2>1. Listed' = Listed \cup {t}
    BY <1>1, <1>2, <1>3, <1>6 DEF Listed
  <2>. QED
    BY <1>1, <1>3, <1>4, <2>1, MapsToAdd
<1>. QED
  BY <1>5, <1>6

LEMMA CountStep ==
  ASSUME SetInv, SetInv', NEW t \in Thread, RegisterCount(t)
  PROVE  Abstract!Add(t) \/ UNCHANGED Abstract!vars
<1>1. pc[t] = "r_count" /\ pc'[t] = "r_V" /\ UNCHANGED fd
      /\ num_of_clients' = num_of_clients + 1
  BY OneMoves DEF SetInv, RegisterCount
<1>2. \A u \in Thread \ {t} : pc'[u] = pc[u] /\ (Member(u)' <=> Member(u))
  BY OneMoves DEF SetInv, RegisterCount
<1>3. Member(t) /\ Member(t)'
  BY <1>1 DEF Member, MemberPC
<1>4. Stage(t) = "adding" /\ \A u \in Thread : Stage(u)' = Stage(u)
  <2>1. Stage(t) = "adding" /\ Stage(t)' = "adding"
    BY <1>1 DEF Stage, RegisterPC, UnregisterPC
  <2>. QED
    BY <2>1, OneMoves DEF SetInv, RegisterCount
<1>5. \A u \in Thread \ {t} : pc[u] # "r_count"
  BY <1>1, Alone DEF SetInv, ListedInv, InCritical, CriticalPC, RegisterPC
<1>6. CASE num_of_clients = 0
  <2>1. t \notin Listed /\ Listed' = Listed \cup {t}
    BY <1>1, <1>2, <1>3, <1>5, <1>6 DEF Listed
  <2>. QED
    BY <1>1, <1>4, <2>1, MapsToAdd
<1>7. CASE num_of_clients # 0
  <2>1. Listed' = Listed
    BY <1>1, <1>2, <1>3, <1>5, <1>7 DEF Listed
  <2>. QED
    BY <1>1, <1>4, <2>1, MapsToStutter
<1>. QED
  BY <1>6, <1>7

LEMMA RemoveStep ==
  ASSUME SetInv, SetInv', NEW t \in Thread,
         UnregisterFreeHead(t) \/ UnregisterUnlink(t)
  PROVE  Abstract!Remove(t)
<1>1. PICK from \in {"u_freehead", "u_unlink"}, to \in {"u_count", "u_free"} :
        Goto(t, from, to)
  BY DEF UnregisterFreeHead, UnregisterUnlink
<1>2. pc[t] = from /\ pc'[t] = to /\ UNCHANGED <<num_of_clients, fd>>
  BY <1>1, OneMoves DEF SetInv, UnregisterFreeHead, UnregisterUnlink, registry
<1>3. \A u \in Thread \ {t} : pc'[u] = pc[u] /\ (Member(u)' <=> Member(u))
  BY <1>1, OneMoves DEF SetInv
<1>4. Member(t) /\ ~Member(t)'
  BY <1>2 DEF Member, MemberPC
<1>5. Stage(t) = "removing" /\ \A u \in Thread : Stage(u)' = Stage(u)
  BY <1>1, <1>2, OneMoves DEF SetInv, Stage, RegisterPC, UnregisterPC
<1>6. t \in Listed /\ Listed' = Listed \ {t}
  BY <1>2, <1>3, <1>4 DEF Listed
<1>. QED
  BY <1>2, <1>5, <1>6, MapsToRemove

LEMMA UncountStep ==
  ASSUME SetInv, SetInv', NEW t \in Thread, UnregisterCount(t)
  PROVE  UNCHANGED Abstract!vars
<1>1. pc[t] = "u_count" /\ pc'[t] = "u_V" /\ UNCHANGED fd
  BY OneMoves DEF SetInv, UnregisterCount
<1>2. \A u \in Thread \ {t} : pc'[u] = pc[u] /\ (Member(u)' <=> Member(u))
  BY OneMoves DEF SetInv, UnregisterCount
<1>3. ~Member(t) /\ ~Member(t)' /\ \A u \in Thread : Stage(u)' = Stage(u)
  BY <1>1, OneMoves DEF SetInv, UnregisterCount, Member, MemberPC, Stage,
     RegisterPC, UnregisterPC
<1>4. \A u \in Thread \ {t} : pc[u] # "r_count"
  BY <1>1, Alone DEF SetInv, ListedInv, InCritical, CriticalPC, RegisterPC,
     UnregisterPC
<1>5. Listed' = Listed
  BY <1>2, <1>3, <1>4 DEF Listed
<1>. QED
  BY <1>1, <1>3, <1>5, MapsToStutter

\* The calls and the returns.
LEMMA OtherStages ==
  ASSUME SetInv, SetInv', NEW t \in Thread, NEW from, NEW to, Goto(t, from, to),
         \A u \in Thread \ {t} : Stage(u) # "out" => fd'[u] = fd[u]
  PROVE  /\ [u \in Thread |-> Stage(u)]'
              = [[u \in Thread |-> Stage(u)] EXCEPT ![t] = Stage(t)']
         /\ [u \in Thread |-> IF Stage(u) = "out" THEN NULL ELSE fd[u]]'
              = [[u \in Thread |-> IF Stage(u) = "out" THEN NULL ELSE fd[u]] EXCEPT
                   ![t] = IF Stage(t)' = "out" THEN NULL ELSE fd'[t]]
BY OneMoves DEF SetInv

LEMMA ListedKept ==
  ASSUME SetInv, SetInv', UNCHANGED num_of_clients, Listed' = Listed,
         \A t \in Listed : fd'[t] = fd[t]
  PROVE  {curr_fd[a] : a \in ListCells}' = {curr_fd[a] : a \in ListCells}
<1>1. {fd'[t] : t \in Listed} = {fd[t] : t \in Listed}
  OBVIOUS
<1>. QED
  BY <1>1 DEF SetInv, Descriptors

LEMMA ReturnSteps ==
  ASSUME SetInv, SetInv', NEW t \in Thread,
         RegisterV(t) \/ ServiceEnds(t) \/ UnregisterV(t)
  PROVE  Abstract!ReturnRegister(t) \/ Abstract!CallUnregister(t)
         \/ Abstract!ReturnUnregister(t)
<1>1. UNCHANGED <<num_of_clients, fd>>
  BY DEF RegisterV, ServiceEnds, UnregisterV, registry
<1>2. PICK from \in PC, to \in PC :
        /\ Goto(t, from, to)
        /\ <<from, to>> \in {<<"r_V", "serve">>, <<"serve", "u_P">>, <<"u_V", "close">>}
  BY DEF RegisterV, ServiceEnds, UnregisterV, PC, CriticalPC, RegisterPC, UnregisterPC
<1>3. pc[t] = from /\ pc'[t] = to
      /\ \A u \in Thread \ {t} : pc'[u] = pc[u] /\ (Member(u)' <=> Member(u))
  BY <1>2, OneMoves DEF SetInv
<1>4. Listed' = Listed
  BY <1>1, <1>2, <1>3 DEF Listed, Member, MemberPC
<1>5. {curr_fd[a] : a \in ListCells}' = {curr_fd[a] : a \in ListCells}
  BY <1>1, <1>4, ListedKept
<1>6. /\ [u \in Thread |-> Stage(u)]'
           = [[u \in Thread |-> Stage(u)] EXCEPT ![t] = Stage(t)']
      /\ [u \in Thread |-> IF Stage(u) = "out" THEN NULL ELSE fd[u]]'
           = [[u \in Thread |-> IF Stage(u) = "out" THEN NULL ELSE fd[u]] EXCEPT
                ![t] = IF Stage(t)' = "out" THEN NULL ELSE fd[t]]
  BY <1>1, <1>2, OtherStages
<1>7. CASE from = "r_V" /\ to = "serve"
  <2>1. Stage(t) = "adding" /\ Stage(t)' = "member" /\ t \in Listed
    BY <1>3, <1>7 DEF Stage, RegisterPC, UnregisterPC, Listed, Member, MemberPC
  <2>2. fd[t] \in {curr_fd[a] : a \in ListCells}
    BY <2>1 DEF SetInv, Descriptors
  <2>3. [u \in Thread |-> IF Stage(u) = "out" THEN NULL ELSE fd[u]]'
          = [u \in Thread |-> IF Stage(u) = "out" THEN NULL ELSE fd[u]]
    BY <1>6, <2>1
  <2>. QED
    BY <1>5, <1>6, <2>1, <2>2, <2>3 DEF Abstract!ReturnRegister, Abstract!To
<1>8. CASE from = "serve" /\ to = "u_P"
  <2>1. Stage(t) = "member" /\ Stage(t)' = "removing"
    BY <1>3, <1>8 DEF Stage, RegisterPC, UnregisterPC
  <2>2. [u \in Thread |-> IF Stage(u) = "out" THEN NULL ELSE fd[u]]'
          = [u \in Thread |-> IF Stage(u) = "out" THEN NULL ELSE fd[u]]
    BY <1>6, <2>1
  <2>. QED
    BY <1>5, <1>6, <2>1, <2>2 DEF Abstract!CallUnregister, Abstract!To
<1>9. CASE from = "u_V" /\ to = "close"
  <2>1. Stage(t) = "removing" /\ Stage(t)' = "out" /\ t \notin Listed
    BY <1>3, <1>9 DEF Stage, RegisterPC, UnregisterPC, Listed, Member, MemberPC
  <2>2. fd[t] \notin Descriptors
    BY <2>1, Calls DEF SetInv, Descriptors, Listed
  <2>3. fd[t] \notin {curr_fd[a] : a \in ListCells}
    BY <2>2 DEF SetInv
  <2>. QED
    BY <1>5, <1>6, <2>1, <2>3 DEF Abstract!ReturnUnregister, Abstract!To
<1>. QED
  BY <1>2, <1>7, <1>8, <1>9

LEMMA StartStep ==
  ASSUME SetInv, SetInv', NEW t \in Thread, ThreadStart(t)
  PROVE  Abstract!CallRegister(t)
<1>1. pc[t] = "start" /\ pc'[t] = "r_P" /\ UNCHANGED num_of_clients
      /\ \A u \in Thread \ {t} : pc'[u] = pc[u] /\ (Member(u)' <=> Member(u))
  BY OneMoves DEF SetInv, ThreadStart, registry
<1>2. fd'[t] = Connection(t) /\ \A u \in Thread \ {t} : fd'[u] = fd[u]
  BY <1>1 DEF ThreadStart, Connection, SetInv, ListedInv, LockInv, TypeOK
<1>3. ~Member(t) /\ ~Member(t)' /\ Stage(t) = "out" /\ Stage(t)' = "adding"
  BY <1>1 DEF Member, MemberPC, Stage, RegisterPC, UnregisterPC
<1>4. {curr_fd[a] : a \in ListCells}' = {curr_fd[a] : a \in ListCells}
  <2>1. Listed' = Listed /\ t \notin Listed
    BY <1>1, <1>3 DEF Listed
  <2>. QED
    BY <1>1, <1>2, <2>1, ListedKept DEF Listed
<1>5. /\ [u \in Thread |-> Stage(u)]'
           = [[u \in Thread |-> Stage(u)] EXCEPT ![t] = "adding"]
      /\ [u \in Thread |-> IF Stage(u) = "out" THEN NULL ELSE fd[u]]'
           = [[u \in Thread |-> IF Stage(u) = "out" THEN NULL ELSE fd[u]] EXCEPT
                ![t] = fd'[t]]
  BY <1>2, <1>3, OtherStages DEF ThreadStart
<1>6. fd'[t] \in Fd
  BY <1>1, <1>2 DEF SetInv, ListedInv, LockInv, TypeOK, OpenInv, Live
<1>7. ASSUME NEW u \in Thread, fd'[t] = (IF Stage(u) = "out" THEN NULL ELSE fd[u])
      PROVE  FALSE
  <2>1. Stage(u) # "out" /\ fd[u] = Connection(t)
    BY <1>2, <1>6, <1>7, NullAssumption
  <2>2. Live(u) /\ Connection(u) = fd[u] /\ u # t
    BY <1>1, <2>1 DEF Stage, Live, Connection, RegisterPC, UnregisterPC
  <2>. QED
    BY <1>1, <2>1, <2>2 DEF SetInv, ListedInv, ExactInv, FdInv, Live
<1>8. \E f \in Fd \ {[u \in Thread |-> IF Stage(u) = "out" THEN NULL ELSE fd[u]][v] :
                      v \in Thread} :
        [u \in Thread |-> IF Stage(u) = "out" THEN NULL ELSE fd[u]]'
          = [[u \in Thread |-> IF Stage(u) = "out" THEN NULL ELSE fd[u]] EXCEPT ![t] = f]
  BY <1>5, <1>6, <1>7
<1>. QED
  BY <1>3, <1>4, <1>5, <1>8 DEF Abstract!CallRegister, Abstract!To

LEMMA CloseStep ==
  ASSUME SetInv, SetInv', NEW t \in Thread, ThreadClose(t)
  PROVE  UNCHANGED Abstract!vars
<1>1. pc[t] = "close" /\ pc'[t] = "idle" /\ UNCHANGED num_of_clients
      /\ \A u \in Thread \ {t} : pc'[u] = pc[u] /\ (Member(u)' <=> Member(u))
                                 /\ Stage(u)' = Stage(u)
  BY OneMoves DEF SetInv, ThreadClose, registry
<1>2. \A u \in Thread \ {t} : fd'[u] = fd[u]
  BY DEF ThreadClose, SetInv, ListedInv, LockInv, TypeOK
<1>3. ~Member(t) /\ ~Member(t)' /\ Stage(t) = "out" /\ Stage(t)' = "out"
  BY <1>1 DEF Member, MemberPC, Stage, RegisterPC, UnregisterPC
<1>4. pc[t] \notin CallPC
  BY <1>1 DEF CallPC, CriticalPC, RegisterPC, UnregisterPC
<1>5. Listed' = Listed
  BY <1>1, <1>3 DEF Listed
<1>6. \A u \in Thread : Stage(u)' = Stage(u)
  BY <1>1, <1>3
<1>7. \A u \in Thread : pc[u] \in CallPC => fd'[u] = fd[u]
  BY <1>2, <1>4
<1>. QED
  BY <1>5, <1>6, <1>7, MapsToStutter

LEMMA MainStep ==
  ASSUME SetInv, SetInv', Main PROVE UNCHANGED Abstract!vars
<1>1. UNCHANGED <<num_of_clients, fd>>
  BY DEF Main, MainMalloc, MainAccept, MainCreate, registry, threadVars
<1>2. CASE UNCHANGED pc
  <2>1. Listed' = Listed /\ \A u \in Thread : Stage(u)' = Stage(u)
    BY <1>1, <1>2 DEF Listed, Member, Stage
  <2>. QED
    BY <1>1, <2>1, MapsToStutter
<1>3. ASSUME NEW t \in Thread, Goto(t, "idle", "start")
      PROVE  UNCHANGED Abstract!vars
  <2>1. pc[t] = "idle" /\ pc'[t] = "start"
        /\ \A u \in Thread \ {t} : pc'[u] = pc[u] /\ (Member(u)' <=> Member(u))
                                   /\ Stage(u)' = Stage(u)
    BY <1>3, OneMoves DEF SetInv
  <2>2. ~Member(t) /\ ~Member(t)' /\ Stage(t) = "out" /\ Stage(t)' = "out"
    BY <2>1 DEF Member, MemberPC, Stage, RegisterPC, UnregisterPC
  <2>3. Listed' = Listed
    BY <1>1, <2>1, <2>2 DEF Listed
  <2>4. \A u \in Thread : Stage(u)' = Stage(u)
    BY <2>1, <2>2
  <2>. QED
    BY <1>1, <2>3, <2>4, MapsToStutter
<1>. QED
  BY <1>2, <1>3 DEF Main, MainMalloc, MainAccept, MainCreate, threadVars

LEMMA NextImplements ==
  ASSUME SetInv, SetInv', [Next]_vars PROVE [Abstract!Next]_(Abstract!vars)
<1>1. CASE UNCHANGED vars
  <2>1. UNCHANGED <<num_of_clients, fd, pc>>
    BY <1>1 DEF vars, registry, threadVars
  <2>2. Listed' = Listed /\ \A u \in Thread : Stage(u)' = Stage(u)
    BY <2>1 DEF Listed, Member, Stage
  <2>. QED
    BY <2>1, <2>2, MapsToStutter
<1>2. ASSUME NEW t \in Thread, Service(t)
      PROVE  [Abstract!Next]_(Abstract!vars)
  <2>1. CASE \/ RegisterP(t) \/ RegisterAlloc(t) \/ RegisterNext(t)
             \/ UnregisterP(t) \/ UnregisterTest(t) \/ UnregisterWalk(t)
             \/ UnregisterFree(t)
    BY <2>1, QuietSteps
  <2>2. CASE RegisterHead(t) \/ RegisterCount(t)
    BY <2>2, HeadStep, CountStep DEF Abstract!Next
  <2>3. CASE UnregisterFreeHead(t) \/ UnregisterUnlink(t)
    BY <2>3, RemoveStep DEF Abstract!Next
  <2>4. CASE RegisterV(t) \/ ServiceEnds(t) \/ UnregisterV(t)
    BY <2>4, ReturnSteps DEF Abstract!Next
  <2>5. CASE ThreadStart(t)
    BY <2>5, StartStep DEF Abstract!Next
  <2>6. CASE UnregisterCount(t) \/ ThreadClose(t)
    BY <2>6, UncountStep, CloseStep
  <2>. QED
    BY <1>2, <2>1, <2>2, <2>3, <2>4, <2>5, <2>6 DEF Service, Register, Unregister
<1>. QED
  BY <1>1, <1>2, MainStep DEF Next

LEMMA InitImplements == Init => Abstract!Init
<1> SUFFICES ASSUME Init PROVE Abstract!Init
  OBVIOUS
<1>1. ListCells = {} /\ \A t \in Thread : Stage(t) = "out"
  BY DEF Init, ListCells, Stage, RegisterPC, UnregisterPC
<1>. QED
  BY <1>1 DEF Abstract!Init

\* Every creg_register and creg_unregister takes effect at one instant between
\* its call and its return, on the set of the registered descriptors: to the
\* callers the counter and the list are RegistrySet (client_registry.c:35-101).
THEOREM RegistryImplementsSet == Spec => ImplementsSet
<1>. QED
  BY InitImplements, NextImplements, SetInvariant, PTL
     DEF Spec, ImplementsSet, Abstract!Spec

-----------------------------------------------------------------------------
(* Nothing leaks: every allocated cell has an owner or holds the           *)
(* descriptor of a member, and no two cells the same one.                  *)

Owned(a) == \/ \E t \in Thread : Owns(t) /\ ptr[t] = a
            \/ main_pc # "malloc" /\ a = connfdp
Unowned == {a \in heap : ~Owned(a)}
LeakInv ==
  /\ \A a \in Unowned : \E t \in Thread : Member(t) /\ fd[t] = curr_fd[a]
  /\ \A a, b \in Unowned : curr_fd[a] = curr_fd[b] => a = b

\* A step that makes no cell ownerless and removes no member.
LEMMA KeepsLeakInv ==
  ASSUME LeakInv, Unowned' \subseteq Unowned,
         \A a \in Unowned' : curr_fd'[a] = curr_fd[a],
         \A t \in Thread : Member(t) => Member(t)' /\ fd'[t] = fd[t]
  PROVE  LeakInv'
BY DEF LeakInv

\* A step that takes the cell of a member out of the list.
LEMMA TakesLeakInv ==
  ASSUME LeakInv, NEW t \in Thread, NEW b \in Unowned, curr_fd[b] = fd[t],
         Unowned' \subseteq Unowned \ {b},
         \A a \in Unowned' : curr_fd'[a] = curr_fd[a],
         \A u \in Thread \ {t} : Member(u) => Member(u)' /\ fd'[u] = fd[u]
  PROVE  LeakInv'
<1>1. \A a \in Unowned' : curr_fd[a] # fd[t]
  BY DEF LeakInv
<1>. QED
  BY <1>1 DEF LeakInv

LEMMA MainLeakInv ==
  ASSUME ListedInv, LeakInv, Main PROVE LeakInv'
<1> USE DEF ListedInv, LockInv, TypeOK
<1>1. CASE MainMalloc
  <2>1. Unowned' \subseteq Unowned
    BY <1>1 DEF MainMalloc, threadVars, Unowned, Owned, Owns
  <2>. QED
    BY <1>1, <2>1, KeepsLeakInv DEF MainMalloc, threadVars, Member
<1>2. CASE MainAccept
  <2>1. Unowned' \subseteq Unowned /\ \A a \in Unowned' : a # connfdp
    BY <1>2 DEF MainAccept, threadVars, Unowned, Owned, Owns
  <2>2. \A a \in Unowned' : curr_fd'[a] = curr_fd[a]
    BY <1>2, <2>1 DEF MainAccept, Unowned
  <2>. QED
    BY <1>2, <2>1, <2>2, KeepsLeakInv DEF MainAccept, threadVars, Member
<1>3. CASE MainCreate
  <2>1. PICK t \in Thread : /\ Goto(t, "idle", "start")
                            /\ ptr' = [ptr EXCEPT ![t] = connfdp]
    BY <1>3 DEF MainCreate
  <2>2. /\ pc[t] = "idle" /\ pc'[t] = "start" /\ ptr'[t] = connfdp
        /\ \A u \in Thread \ {t} : pc'[u] = pc[u] /\ ptr'[u] = ptr[u]
    BY <2>1 DEF Goto
  <2>3. /\ ~Owns(t) /\ Owns(t)' /\ ~Member(t)
        /\ \A u \in Thread \ {t} : (Owns(u)' <=> Owns(u)) /\ (Member(u)' <=> Member(u))
    BY <2>2 DEF Owns, OwnPC, Member, MemberPC
  <2>4. Unowned' \subseteq Unowned
    BY <1>3, <2>2, <2>3 DEF MainCreate, cells, Unowned, Owned
  <2>. QED
    BY <1>3, <2>3, <2>4, KeepsLeakInv DEF MainCreate, cells
<1>. QED
  BY <1>1, <1>2, <1>3 DEF Main

\* Steps that leave the cells to their owners.
LEMMA QuietLeakInv ==
  ASSUME ListedInv, LeakInv, NEW t \in Thread,
         \/ RegisterP(t) \/ RegisterNext(t) \/ RegisterCount(t) \/ RegisterV(t)
         \/ ServiceEnds(t) \/ UnregisterP(t) \/ UnregisterTest(t)
         \/ UnregisterWalk(t) \/ UnregisterCount(t) \/ UnregisterV(t)
         \/ ThreadClose(t)
  PROVE  LeakInv'
<1> USE DEF ListedInv, LockInv, TypeOK
<1>1. UNCHANGED <<heap, curr_fd, main_pc, connfdp>>
  BY DEF RegisterP, RegisterNext, RegisterCount, RegisterV, ServiceEnds, UnregisterP,
         UnregisterTest, UnregisterWalk, UnregisterCount, UnregisterV, ThreadClose,
         cells, mainVars
<1>2. ~(UnregisterWalk(t) /\ ptr[t] = NULL)
  BY NullAssumption DEF ExactInv, ListInv, IsList, Walker, UnregisterWalk, Goto
<1>3. PICK from \in PC, to \in PC :
        /\ Goto(t, from, to)
        /\ <<from, to>> \in {<<"r_P", "r_alloc">>, <<"r_next", "r_head">>,
             <<"r_count", "r_V">>, <<"r_V", "serve">>, <<"serve", "u_P">>,
             <<"u_P", "u_test">>, <<"u_test", "u_freehead">>, <<"u_test", "u_walk">>,
             <<"u_walk", "u_walk">>, <<"u_walk", "u_unlink">>, <<"u_count", "u_V">>,
             <<"u_V", "close">>, <<"close", "idle">>}
  BY <1>2 DEF RegisterP, RegisterNext, RegisterCount, RegisterV, ServiceEnds,
     UnregisterP, UnregisterTest, UnregisterWalk, UnregisterCount, UnregisterV,
     ThreadClose, PC, CriticalPC, RegisterPC, UnregisterPC
<1>4. /\ pc[t] = from /\ pc'[t] = to
      /\ \A u \in Thread \ {t} : pc'[u] = pc[u] /\ (Member(u)' <=> Member(u))
  BY <1>3, OneMoves
<1>5. /\ Owns(t) => Owns(t)' /\ from = "r_next"
      /\ Member(t) => Member(t)' /\ from # "close"
  BY <1>3, <1>4 DEF Owns, OwnPC, Member, MemberPC
<1>6. \A u \in Thread \ {t} : ptr'[u] = ptr[u] /\ fd'[u] = fd[u]
  BY DEF RegisterP, RegisterNext, RegisterCount, RegisterV, ServiceEnds,
     UnregisterP, UnregisterTest, UnregisterWalk, UnregisterCount, UnregisterV,
     ThreadClose
<1>7. from = "r_next" => ptr'[t] = ptr[t]
  BY <1>4 DEF RegisterP, RegisterNext, RegisterCount, RegisterV, ServiceEnds,
     UnregisterP, UnregisterTest, UnregisterWalk, UnregisterCount, UnregisterV,
     ThreadClose, Goto
<1>8. from # "close" => fd'[t] = fd[t]
  BY <1>4 DEF RegisterP, RegisterNext, RegisterCount, RegisterV, ServiceEnds,
     UnregisterP, UnregisterTest, UnregisterWalk, UnregisterCount, UnregisterV,
     ThreadClose, Goto
<1>9. \A u \in Thread : Owns(u) => Owns(u)' /\ ptr'[u] = ptr[u]
  BY <1>4, <1>5, <1>6, <1>7 DEF Owns
<1>10. Unowned' \subseteq Unowned
  BY <1>1, <1>9 DEF Unowned, Owned
<1>. QED
  BY <1>1, <1>4, <1>5, <1>6, <1>8, <1>10, KeepsLeakInv

\* Steps that allocate a cell or free one that is owned.
LEMMA AllocLeakInv ==
  ASSUME ListedInv, LeakInv, NEW t \in Thread, RegisterAlloc(t)
  PROVE  LeakInv'
<1> USE DEF ListedInv, LockInv, TypeOK
<1>1. PICK b \in Addr \ heap : /\ heap' = heap \cup {b}
                               /\ ptr' = [ptr EXCEPT ![t] = b]
                               /\ curr_fd' = [curr_fd EXCEPT ![b] = fd[t]]
  BY DEF RegisterAlloc
<1>2. /\ pc[t] = "r_alloc" /\ pc'[t] = "r_next" /\ UNCHANGED <<fd, main_pc, connfdp>>
      /\ \A u \in Thread \ {t} : pc'[u] = pc[u] /\ (Member(u)' <=> Member(u))
  BY OneMoves DEF RegisterAlloc, mainVars
<1>3. ~Owns(t) /\ Owns(t)' /\ ~Member(t) /\ ptr'[t] = b
      /\ \A u \in Thread \ {t} : (Owns(u)' <=> Owns(u)) /\ ptr'[u] = ptr[u]
  BY <1>1, <1>2 DEF Owns, OwnPC, Member, MemberPC
<1>4. Unowned' \subseteq Unowned
  BY <1>1, <1>2, <1>3 DEF Unowned, Owned
<1>5. \A a \in Unowned : curr_fd'[a] = curr_fd[a]
  BY <1>1 DEF Unowned
<1>. QED
  BY <1>2, <1>3, <1>4, <1>5, KeepsLeakInv

LEMMA FreeLeakInv ==
  ASSUME ListedInv, LeakInv, NEW t \in Thread, ThreadStart(t) \/ UnregisterFree(t)
  PROVE  LeakInv'
<1> USE DEF ListedInv, LockInv, TypeOK
<1>1. /\ Free(ptr[t]) /\ UNCHANGED <<main_pc, connfdp>>
      /\ \A u \in Thread \ {t} : fd'[u] = fd[u] /\ ptr'[u] = ptr[u]
  BY DEF ThreadStart, UnregisterFree, mainVars
<1>2. PICK from \in {"start", "u_free"}, to \in {"r_P", "u_count"} : Goto(t, from, to)
  BY DEF ThreadStart, UnregisterFree
<1>3. /\ pc[t] = from /\ pc'[t] = to
      /\ \A u \in Thread \ {t} : pc'[u] = pc[u] /\ (Member(u)' <=> Member(u))
  BY <1>2, OneMoves
<1>4. ~Member(t) /\ \A u \in Thread \ {t} : Owns(u)' <=> Owns(u)
  BY <1>3 DEF Owns, Member, MemberPC
<1>5. Unowned' \subseteq Unowned
  BY <1>1, <1>4 DEF Free, Unowned, Owned
<1>6. \A a \in Unowned' : curr_fd'[a] = curr_fd[a]
  BY <1>1 DEF Free, Unowned
<1>. QED
  BY <1>1, <1>3, <1>4, <1>5, <1>6, KeepsLeakInv

\* The new cell becomes the head: its descriptor is that of the new member.
LEMMA HeadLeakInv ==
  ASSUME ListedInv, LeakInv, NEW t \in Thread, RegisterHead(t)
  PROVE  LeakInv'
<1> USE DEF ListedInv, LockInv, TypeOK
<1> DEFINE b == ptr[t]
<1>1. /\ pc[t] = "r_head" /\ pc'[t] = "r_count"
      /\ UNCHANGED <<heap, curr_fd, main_pc, connfdp, fd, ptr>>
      /\ \A u \in Thread \ {t} : pc'[u] = pc[u] /\ (Member(u)' <=> Member(u))
  BY OneMoves DEF RegisterHead, cells, mainVars
<1>2. ~Member(t) /\ Member(t)' /\ Owns(t) /\ \A u \in Thread \ {t} : Owns(u)' <=> Owns(u)
  BY <1>1 DEF Owns, OwnPC, Member, MemberPC
<1>3. curr_fd[b] = fd[t] /\ b \in heap
  BY <1>1, <1>2 DEF ExactInv, OwnInv
<1>4. Unowned' \subseteq Unowned \cup {b}
  BY <1>1, <1>2 DEF Unowned, Owned
<1>5. \A u \in Thread \ {t} : Member(u) => fd[u] # fd[t]
  <2>1. Live(t) /\ Connection(t) = fd[t]
        /\ \A u \in Thread : Member(u) => Live(u) /\ Connection(u) = fd[u]
    BY <1>1 DEF Live, Connection, Member, MemberPC
  <2>. QED
    BY <2>1 DEF ExactInv, FdInv
<1>6. \A a \in Unowned : curr_fd[a] # curr_fd[b]
  BY <1>2, <1>3, <1>5 DEF LeakInv
<1>7. \A a \in Unowned' : \E u \in Thread : Member(u)' /\ fd'[u] = curr_fd'[a]
  BY <1>1, <1>2, <1>3, <1>4 DEF LeakInv
<1>8. \A a, d \in Unowned' : curr_fd'[a] = curr_fd'[d] => a = d
  BY <1>1, <1>4, <1>6 DEF LeakInv
<1>. QED
  BY <1>7, <1>8 DEF LeakInv

\* The cell of the caller leaves the list, and is freed at once or owned.
LEMMA UnlinkLeakInv ==
  ASSUME ListedInv, LeakInv, NEW t \in Thread,
         UnregisterFreeHead(t) \/ UnregisterUnlink(t)
  PROVE  LeakInv'
<1> USE DEF ListedInv, LockInv, TypeOK
<1>1. PICK from \in {"u_freehead", "u_unlink"}, to \in {"u_count", "u_free"} :
        /\ Goto(t, from, to)
        /\ from = "u_freehead" => UnregisterFreeHead(t)
        /\ from = "u_unlink" => UnregisterUnlink(t) /\ to = "u_free"
  BY DEF UnregisterFreeHead, UnregisterUnlink
<1>2. /\ pc[t] = from /\ pc'[t] = to /\ UNCHANGED <<main_pc, connfdp, fd, ptr>>
      /\ \A u \in Thread \ {t} : pc'[u] = pc[u] /\ (Member(u)' <=> Member(u))
  BY <1>1, OneMoves DEF UnregisterFreeHead, UnregisterUnlink, mainVars
<1>3. ~Owns(t) /\ \A u \in Thread \ {t} : Owns(u)' <=> Owns(u)
  BY <1>2 DEF Owns, OwnPC
<1>4. CASE from = "u_freehead"
  <2>1. registered_fds \in Unowned /\ curr_fd[registered_fds] = fd[t]
    BY <1>2, <1>4, OnlyMember DEF Unowned, Owned
  <2>2. Unowned' \subseteq Unowned \ {registered_fds}
    BY <1>1, <1>2, <1>3, <1>4 DEF UnregisterFreeHead, Free, Unowned, Owned
  <2>3. \A a \in Unowned' : curr_fd'[a] = curr_fd[a]
    BY <1>1, <1>4, <2>2 DEF UnregisterFreeHead, Free, Unowned
  <2>. QED
    BY <1>2, <2>1, <2>2, <2>3, TakesLeakInv
<1>5. CASE from = "u_unlink"
  <2>1. PICK n \in Nat : \E c \in [1 .. n -> heap] : IsList(c, n)
    BY DEF ExactInv, ListInv
  <2>2. PICK c \in [1 .. n -> heap] : IsList(c, n)
    BY <2>1
  <2>3. PICK k \in 1 .. n : ptr[t] = c[k] /\ curr_fd[c[k]] = fd[t]
    BY <1>2, <1>5, <2>2 DEF IsList, Walker
  <2>4. ptr[t] \in Unowned /\ curr_fd[ptr[t]] = fd[t]
    BY <2>2, <2>3 DEF IsList, Apart, Unowned, Owned
  <2>5. UNCHANGED <<heap, curr_fd>> /\ Owns(t)'
    BY <1>1, <1>2, <1>5 DEF UnregisterUnlink, Owns, OwnPC
  <2>6. Unowned' \subseteq Unowned \ {ptr[t]}
    BY <1>2, <1>3, <2>5 DEF Unowned, Owned
  <2>. QED
    BY <1>2, <2>4, <2>5, <2>6, TakesLeakInv
<1>. QED
  BY <1>4, <1>5

LEMMA NextLeakInv ==
  ASSUME ListedInv, LeakInv, [Next]_vars PROVE LeakInv'
<1>1. CASE UNCHANGED vars
  BY <1>1 DEF vars, cells, mainVars, threadVars, LeakInv, Unowned, Owned, Owns, Member
<1>2. ASSUME NEW t \in Thread, Service(t) PROVE LeakInv'
  BY <1>2, QuietLeakInv, AllocLeakInv, FreeLeakInv, HeadLeakInv, UnlinkLeakInv
     DEF Service, Register, Unregister
<1>. QED
  BY <1>1, <1>2, MainLeakInv DEF Next

\* While nobody is inside the registry every allocated cell is a list cell, the
\* argument of a thread that has not read it, or the accept loop's connfdp
\* (main.c:171-173, server.c:15-17, client_registry.c:35-101).
THEOREM NothingLeaks == Spec => []NoLeak
<1>1. ListedInv /\ LeakInv => NoLeak
  <2> SUFFICES ASSUME ListedInv, LeakInv, mutex = 1
               PROVE  heap = ListCells
                        \cup {ptr[t] : t \in {u \in Thread : pc[u] = "start"}}
                        \cup (IF main_pc = "malloc" THEN {} ELSE {connfdp})
    BY DEF NoLeak
  <2> USE DEF ListedInv, LockInv, TypeOK
  <2>1. PICK n \in Nat : \E c \in [1 .. n -> heap] : IsList(c, n)
    BY DEF ExactInv, ListInv
  <2>2. PICK c \in [1 .. n -> heap] : IsList(c, n)
    BY <2>1
  <2>3. \A t \in Thread : pc[t] \notin CriticalPC
    BY DEF MutualExclusion, InCritical
  <2>4. \A t \in Thread : Owns(t) <=> pc[t] = "start"
    BY <2>3 DEF Owns, OwnPC, CriticalPC, RegisterPC, UnregisterPC
  <2>5. ListCells = {c[i] : i \in 1 .. n}
    <3>1. \A t \in Thread : pc[t] # "r_count"
      BY <2>3 DEF CriticalPC, RegisterPC
    <3>. QED
      BY <2>2, <3>1, ListCellsAre
  <2>6. Unowned \subseteq ListCells
    <3> SUFFICES ASSUME NEW a \in Unowned PROVE a \in ListCells
      OBVIOUS
    <3>1. PICK t \in Thread : Member(t) /\ fd[t] = curr_fd[a]
      BY DEF LeakInv
    <3>2. PICK i \in 1 .. n : fd[t] = curr_fd[c[i]]
      BY <2>2, <3>1 DEF IsList, Contents
    <3>3. c[i] \in Unowned
      BY <2>2 DEF IsList, Apart, Unowned, Owned
    <3>4. a = c[i]
      BY <3>1, <3>2, <3>3 DEF LeakInv
    <3>. QED
      BY <2>5, <3>4
  <2>7. ListCells \subseteq heap
    BY <2>5
  <2>8. \A a \in heap : Owned(a) <=>
          \/ a \in {ptr[t] : t \in {u \in Thread : pc[u] = "start"}}
          \/ a \in (IF main_pc = "malloc" THEN {} ELSE {connfdp})
    BY <2>4 DEF Owned
  <2>9. /\ {ptr[t] : t \in {u \in Thread : pc[u] = "start"}} \subseteq heap
        /\ (IF main_pc = "malloc" THEN {} ELSE {connfdp}) \subseteq heap
    BY <2>4 DEF ExactInv, OwnInv
  <2>10. heap \subseteq ListCells \cup {ptr[t] : t \in {u \in Thread : pc[u] = "start"}}
                       \cup (IF main_pc = "malloc" THEN {} ELSE {connfdp})
    BY <2>6, <2>8 DEF Unowned
  <2>. QED
    BY <2>7, <2>9, <2>10
<1>2. Init => LeakInv
  BY DEF Init, LeakInv, Unowned
<1>3. ListedInv /\ LeakInv /\ [Next]_vars => LeakInv'
  BY NextLeakInv
<1>. QED
  BY <1>1, <1>2, <1>3, ListedInvariant, PTL DEF Spec
=============================================================================
