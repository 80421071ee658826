--------------------------- MODULE ClientRegistry ---------------------------
(***************************************************************************)
(* The client registry (src/src/client_registry.c) as it is used by the    *)
(* accept loop of main() (src/src/main.c:170-175) and by the life of a     *)
(* service thread (src/src/server.c:14-18, 96-101), until a SIGHUP.        *)
(*                                                                         *)
(* The registry is a counter and a singly linked list of file descriptors  *)
(* in malloc'ed cells.  One step of a thread is one write to shared memory *)
(* with the reads that it needs, or a test; so what the semaphore protects *)
(* is a result, not an assumption.  The two or three accesses of a step    *)
(* (num_of_clients++, a test and the load of the head, an unlinking) are   *)
(* all between a P and its V, which exclude each other whatever the data:  *)
(* taking them for one leaves out no behaviour here.  Module Shutdown, in  *)
(* which creg_shutdown_all walks the list without the semaphore, states    *)
(* what becomes of the list only where this walk does not meet them.       *)
(* The list keeps its pointers: unregistering the last client frees the    *)
(* head cell and leaves registered_fds dangling, and what makes that       *)
(* harmless (the test of num_of_clients in creg_register) is in the model. *)
(*                                                                         *)
(* Abstractions: what a client does between registration and the end of    *)
(* its connection is the single step ServiceEnds (module Service has the   *)
(* service loop); accept() returns any descriptor that is not open;        *)
(* malloc() returns any free cell and never NULL; a freed cell, and a      *)
(* local variable whose function has returned, holds NULL.                 *)
(***************************************************************************)
EXTENDS Integers, FiniteSets

CONSTANTS Thread,   \* service threads that may live at the same time
          Fd,       \* file descriptors accept() may return
          Addr,     \* heap cells
          NULL

ASSUME NullAssumption == NULL \notin Addr /\ NULL \notin Fd

VARIABLES
  num_of_clients,   \* cr->num_of_clients
  registered_fds,   \* cr->registered_fds: the head of the list, or NULL
  mutex,            \* cr->mutex: the value of the semaphore
  heap,             \* the allocated cells
  curr_fd, next,    \* the two fields of every cell (an int cell uses curr_fd)
  open_fds,         \* the open client descriptors of the process
  main_pc, connfdp, \* the accept loop and its pointer
  pc, fd,           \* each service thread: location, variable fd
  ptr, prev_fd      \* each service thread: arg, the_fd or temp_fd; prev_fd

cells == <<heap, curr_fd, next>>
registry == <<num_of_clients, registered_fds, mutex>>
mainVars == <<main_pc, connfdp>>
threadVars == <<pc, fd, ptr, prev_fd>>
vars == <<registry, cells, open_fds, mainVars, threadVars>>

RegisterPC == {"r_alloc", "r_next", "r_head", "r_count", "r_V"}
UnregisterPC == {"u_test", "u_freehead", "u_walk", "u_unlink", "u_free",
                 "u_count", "u_V"}
CriticalPC == RegisterPC \cup UnregisterPC
PC == {"idle", "start", "r_P", "serve", "u_P", "close"} \cup CriticalPC

TypeOK ==
  /\ num_of_clients \in Int
  /\ registered_fds \in Addr \cup {NULL}
  /\ mutex \in {0, 1}
  /\ heap \subseteq Addr
  /\ curr_fd \in [Addr -> Fd \cup {NULL}]
  /\ next \in [Addr -> Addr \cup {NULL}]
  /\ open_fds \subseteq Fd
  /\ main_pc \in {"malloc", "accept", "create"}
  /\ connfdp \in Addr \cup {NULL}
  /\ pc \in [Thread -> PC]
  /\ fd \in [Thread -> Fd \cup {NULL}]
  /\ ptr \in [Thread -> Addr \cup {NULL}]
  /\ prev_fd \in [Thread -> Addr \cup {NULL}]

\* creg_init() and the state of main() when it enters the accept loop.
Init ==
  /\ num_of_clients = 0
  /\ registered_fds = NULL
  /\ mutex = 1
  /\ heap = {}
  /\ curr_fd = [a \in Addr |-> NULL]
  /\ next = [a \in Addr |-> NULL]
  /\ open_fds = {}
  /\ main_pc = "malloc"
  /\ connfdp = NULL
  /\ pc = [t \in Thread |-> "idle"]
  /\ fd = [t \in Thread |-> NULL]
  /\ ptr = [t \in Thread |-> NULL]
  /\ prev_fd = [t \in Thread |-> NULL]

Goto(t, from, to) == pc[t] = from /\ pc' = [pc EXCEPT ![t] = to]

\* free(NULL) changes nothing.
Free(a) ==
  /\ heap' = heap \ {a}
  /\ curr_fd' = [b \in Addr |-> IF b = a THEN NULL ELSE curr_fd[b]]
  /\ next' = [b \in Addr |-> IF b = a THEN NULL ELSE next[b]]

-----------------------------------------------------------------------------
(* The accept loop of main().                                              *)

\* Mutant: one connfdp for all connections.
MainMallocOnce ==
  /\ main_pc = "malloc"
  /\ main_pc' = "accept"
  /\ \/ connfdp = NULL
        /\ \E a \in Addr \ heap : connfdp' = a /\ heap' = heap \cup {a}
     \/ connfdp # NULL /\ UNCHANGED <<connfdp, heap>>
  /\ UNCHANGED <<registry, curr_fd, next, open_fds, threadVars>>

\* connfdp = Malloc(sizeof(int)): a cell of its own for every connection.
MainMalloc ==
  /\ main_pc = "malloc"
  /\ main_pc' = "accept"
  /\ \E a \in Addr \ heap : connfdp' = a /\ heap' = heap \cup {a}
  /\ UNCHANGED <<registry, curr_fd, next, open_fds, threadVars>>

MainAccept ==
  /\ main_pc = "accept"
  /\ main_pc' = "create"
  /\ \E f \in Fd \ open_fds :
        /\ open_fds' = open_fds \cup {f}
        /\ curr_fd' = [curr_fd EXCEPT ![connfdp] = f]
  /\ UNCHANGED <<registry, heap, next, connfdp, threadVars>>

MainCreate ==
  /\ main_pc = "create"
  /\ main_pc' = "malloc"
  /\ \E t \in Thread : /\ Goto(t, "idle", "start")
                       /\ ptr' = [ptr EXCEPT ![t] = connfdp]
  /\ UNCHANGED <<registry, cells, open_fds, connfdp, fd, prev_fd>>

-----------------------------------------------------------------------------
(* The life of a service thread outside the registry.                      *)

\* fd = *arg; free(arg).
ThreadStart(t) ==
  /\ Goto(t, "start", "r_P")
  /\ fd' = [fd EXCEPT ![t] = curr_fd[ptr[t]]]
  /\ Free(ptr[t])
  /\ ptr' = [ptr EXCEPT ![t] = NULL]
  /\ UNCHANGED <<registry, open_fds, mainVars, prev_fd>>

\* The service loop ends.
ServiceEnds(t) ==
  /\ Goto(t, "serve", "u_P")
  /\ UNCHANGED <<registry, cells, open_fds, mainVars, fd, ptr, prev_fd>>

\* close(fd) and the end of the detached thread.
ThreadClose(t) ==
  /\ Goto(t, "close", "idle")
  /\ open_fds' = open_fds \ {fd[t]}
  /\ fd' = [fd EXCEPT ![t] = NULL]
  /\ UNCHANGED <<registry, cells, mainVars, ptr, prev_fd>>

-----------------------------------------------------------------------------
(* The semaphore cr->mutex.                                                *)

\* Mutant: the P() is missing.
PForgotten == mutex' = mutex

P == mutex > 0 /\ mutex' = mutex - 1
V == mutex' = mutex + 1

RegisterP(t) ==
  /\ Goto(t, "r_P", "r_alloc") /\ P
  /\ UNCHANGED <<num_of_clients, registered_fds, cells, open_fds, mainVars,
                 fd, ptr, prev_fd>>

RegisterV(t) ==
  /\ Goto(t, "r_V", "serve") /\ V
  /\ ptr' = [ptr EXCEPT ![t] = NULL]
  /\ UNCHANGED <<num_of_clients, registered_fds, cells, open_fds, mainVars,
                 fd, prev_fd>>

UnregisterP(t) ==
  /\ Goto(t, "u_P", "u_test") /\ P
  /\ UNCHANGED <<num_of_clients, registered_fds, cells, open_fds, mainVars,
                 fd, ptr, prev_fd>>

UnregisterV(t) ==
  /\ Goto(t, "u_V", "close") /\ V
  /\ ptr' = [ptr EXCEPT ![t] = NULL]
  /\ prev_fd' = [prev_fd EXCEPT ![t] = NULL]
  /\ UNCHANGED <<num_of_clients, registered_fds, cells, open_fds, mainVars, fd>>

-----------------------------------------------------------------------------
(* creg_register                                                           *)

RegisterAlloc(t) ==
  /\ Goto(t, "r_alloc", "r_next")
  /\ \E a \in Addr \ heap :
        /\ heap' = heap \cup {a}
        /\ ptr' = [ptr EXCEPT ![t] = a]
        /\ curr_fd' = [curr_fd EXCEPT ![a] = fd[t]]
  /\ UNCHANGED <<registry, next, open_fds, mainVars, fd, prev_fd>>

\* Mutant: the new cell is always linked to the old head.
SuccessorAlwaysHead == registered_fds

\* An empty registry has a dangling head: its value is not used.
SuccessorOfNew == IF num_of_clients = 0 THEN NULL ELSE registered_fds

RegisterNext(t) ==
  /\ Goto(t, "r_next", "r_head")
  /\ next' = [next EXCEPT ![ptr[t]] = SuccessorOfNew]
  /\ UNCHANGED <<registry, heap, curr_fd, open_fds, mainVars, fd, ptr, prev_fd>>

RegisterHead(t) ==
  /\ Goto(t, "r_head", "r_count")
  /\ registered_fds' = ptr[t]
  /\ UNCHANGED <<num_of_clients, mutex, cells, open_fds, mainVars,
                 fd, ptr, prev_fd>>

RegisterCount(t) ==
  /\ Goto(t, "r_count", "r_V")
  /\ num_of_clients' = num_of_clients + 1
  /\ UNCHANGED <<registered_fds, mutex, cells, open_fds, mainVars,
                 fd, ptr, prev_fd>>

-----------------------------------------------------------------------------
(* creg_unregister                                                         *)

\* Mutant: off by one.
LastClientOffByOne == num_of_clients <= 2

LastClient == num_of_clients = 1

\* One client left: its cell is freed without looking at the descriptor.
UnregisterTest(t) ==
  /\ \/ LastClient /\ Goto(t, "u_test", "u_freehead")
        /\ UNCHANGED <<ptr, prev_fd>>
     \/ ~LastClient /\ Goto(t, "u_test", "u_walk")
        /\ ptr' = [ptr EXCEPT ![t] = registered_fds]
        /\ prev_fd' = [prev_fd EXCEPT ![t] = registered_fds]
  /\ UNCHANGED <<registry, cells, open_fds, mainVars, fd>>

UnregisterFreeHead(t) ==
  /\ Goto(t, "u_freehead", "u_count")
  /\ Free(registered_fds)
  /\ UNCHANGED <<registry, open_fds, mainVars, fd, ptr, prev_fd>>

\* Mutant: the comparison is inverted.
FoundInverted(t) == curr_fd[ptr[t]] # fd[t]

Found(t) == curr_fd[ptr[t]] = fd[t]

\* One turn of the search: the end of the list ("unregister error"), the
\* descriptor found, or on to the next cell.
UnregisterWalk(t) ==
  /\ \/ ptr[t] = NULL /\ Goto(t, "u_walk", "u_V")
        /\ UNCHANGED <<ptr, prev_fd>>
     \/ ptr[t] # NULL /\ Found(t)
        /\ Goto(t, "u_walk", "u_unlink")
        /\ UNCHANGED <<ptr, prev_fd>>
     \/ ptr[t] # NULL /\ ~Found(t)
        /\ Goto(t, "u_walk", "u_walk")
        /\ prev_fd' = [prev_fd EXCEPT ![t] = ptr[t]]
        /\ ptr' = [ptr EXCEPT ![t] = next[ptr[t]]]
  /\ UNCHANGED <<registry, cells, open_fds, mainVars, fd>>

\* The middle branch of the source (i == last_index - 1) is dead: i stays 0
\* and last_index is not 1 here.
UnregisterUnlink(t) ==
  /\ Goto(t, "u_unlink", "u_free")
  /\ \/ ptr[t] = registered_fds
        /\ registered_fds' = next[ptr[t]]
        /\ UNCHANGED next
     \/ ptr[t] # registered_fds
        /\ next' = [next EXCEPT ![prev_fd[t]] = next[ptr[t]]]
        /\ UNCHANGED registered_fds
  /\ UNCHANGED <<num_of_clients, mutex, heap, curr_fd, open_fds, mainVars,
                 fd, ptr, prev_fd>>

\* Mutant: the cell is unlinked but not freed.
UnregisterFreeForgotten(t) ==
  /\ Goto(t, "u_free", "u_count")
  /\ UNCHANGED <<registry, cells, open_fds, mainVars, fd, ptr, prev_fd>>

UnregisterFree(t) ==
  /\ Goto(t, "u_free", "u_count")
  /\ Free(ptr[t])
  /\ UNCHANGED <<registry, open_fds, mainVars, fd, ptr, prev_fd>>

UnregisterCount(t) ==
  /\ Goto(t, "u_count", "u_V")
  /\ num_of_clients' = num_of_clients - 1
  /\ UNCHANGED <<registered_fds, mutex, cells, open_fds, mainVars,
                 fd, ptr, prev_fd>>

-----------------------------------------------------------------------------
Main == MainMalloc \/ MainAccept \/ MainCreate

Register(t) == \/ RegisterP(t) \/ RegisterAlloc(t) \/ RegisterNext(t)
               \/ RegisterHead(t) \/ RegisterCount(t) \/ RegisterV(t)

Unregister(t) == \/ UnregisterP(t) \/ UnregisterTest(t)
                 \/ UnregisterFreeHead(t) \/ UnregisterWalk(t)
                 \/ UnregisterUnlink(t) \/ UnregisterFree(t)
                 \/ UnregisterCount(t) \/ UnregisterV(t)

Service(t) == ThreadStart(t) \/ Register(t) \/ ServiceEnds(t)
              \/ Unregister(t) \/ ThreadClose(t)

Next == Main \/ \E t \in Thread : Service(t)

Spec == Init /\ [][Next]_vars

-----------------------------------------------------------------------------
(* Properties                                                              *)

InCritical(t) == pc[t] \in CriticalPC

\* Of the calls of creg_register and creg_unregister in progress one at most
\* is past its P(&cr->mutex), and the semaphore is 0 exactly while one is.
MutualExclusion ==
  /\ \A t, u \in Thread : InCritical(t) /\ InCritical(u) => t = u
  /\ mutex = 0 <=> \E t \in Thread : InCritical(t)

\* The threads between the return of creg_register and creg_unregister's P.
RegisteredThread == {t \in Thread : pc[t] \in {"serve", "u_P"}}

\* c[1], c[2], ... are the cells of the list in order, without a repetition.
IsListing(c, n) ==
  /\ n > 0 => c[1] = registered_fds /\ next[c[n]] = NULL
  /\ \A i \in 1 .. n - 1 : next[c[i]] = c[i + 1]
  /\ \A i, j \in 1 .. n : c[i] = c[j] => i = j

\* Whenever nobody holds the semaphore the registry is a well-formed list of
\* num_of_clients allocated cells that holds the descriptors of the registered
\* service threads, each one once.
RegistryExact == mutex = 1 =>
  /\ num_of_clients = Cardinality(RegisteredThread)
  /\ \E c \in [1 .. num_of_clients -> heap] :
       /\ IsListing(c, num_of_clients)
       /\ {curr_fd[c[i]] : i \in 1 .. num_of_clients}
            = {fd[t] : t \in RegisteredThread}

\* No thread touches or frees a cell that is not allocated: arg when it is
\* read and freed, the new cell, the head freed blindly when one client is
\* left, and the cells the search of creg_unregister visits and unlinks.
AccessOK(t) ==
  /\ pc[t] \in {"start", "r_next", "r_head", "u_unlink", "u_free"}
       => ptr[t] \in heap
  /\ pc[t] = "u_walk" => ptr[t] \in heap \cup {NULL}
  /\ pc[t] = "u_freehead" => registered_fds \in heap
  /\ pc[t] = "u_unlink" => prev_fd[t] \in heap
SafeAccess == \A t \in Thread : AccessOK(t)

\* creg_unregister always finds its descriptor: the search never reaches the
\* end of the list ("unregister error", client_registry.c:97), and the cell
\* freed blindly when one client is left is the caller's own.
UnregisterFinds == \A t \in Thread :
  /\ pc[t] = "u_walk" => ptr[t] # NULL
  /\ pc[t] = "u_freehead" => curr_fd[registered_fds] = fd[t]

\* Two live service threads never serve the same descriptor, and a thread's
\* descriptor stays open until the thread closes it.
HoldsFd(t) == pc[t] \notin {"idle", "start"}
DistinctConnections ==
  \A t, u \in Thread : HoldsFd(t) =>
    /\ fd[t] \in open_fds
    /\ HoldsFd(u) /\ fd[t] = fd[u] => t = u

\* The cells reached from the head of the list: those that are in every set
\* that holds the head and with each cell the next one.
Closed(S) == /\ registered_fds \in S \cup {NULL}
             /\ \A a \in S : next[a] \in S \cup {NULL}
Reached == {a \in Addr : \A S \in SUBSET Addr : Closed(S) => a \in S}
\* A head that is freed and not yet uncounted is no longer in the list.
HeadFreed == num_of_clients = 1 /\ \E t \in Thread : pc[t] = "u_count"
ListCells == IF num_of_clients = 0 \/ HeadFreed THEN {} ELSE Reached

\* While nobody is inside the registry every allocated cell is a list cell or
\* a descriptor on its way from accept() to its thread: nothing leaks.
NoLeak == mutex = 1 =>
  heap = ListCells
         \cup {ptr[t] : t \in {u \in Thread : pc[u] = "start"}}
         \cup (IF main_pc = "malloc" THEN {} ELSE {connfdp})

\* The registry implements the set of descriptors, call by call.
Stage(t) == CASE pc[t] \in {"r_P"} \cup RegisterPC -> "adding"
              [] pc[t] = "serve" -> "member"
              [] pc[t] \in {"u_P"} \cup UnregisterPC -> "removing"
              [] OTHER -> "out"
Abstract == INSTANCE RegistrySet WITH
  registered <- {curr_fd[a] : a \in ListCells},
  stage <- [t \in Thread |-> Stage(t)],
  own <- [t \in Thread |-> IF Stage(t) = "out" THEN NULL ELSE fd[t]]
ImplementsSet == Abstract!Spec
=============================================================================
