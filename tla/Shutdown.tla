------------------------------ MODULE Shutdown ------------------------------
(***************************************************************************)
(* The clean shutdown: one SIGHUP interrupts any thread of the server, the *)
(* accept loop of main() or a service thread (no thread blocks it), and    *)
(* the handler runs terminate() (src/src/main.c:186-208) in the place of   *)
(* what that thread was doing, while the other threads go on running.      *)
(* A second SIGHUP, which would be handled by another thread at the same   *)
(* time, is not modelled.                                                  *)
(*                                                                         *)
(* terminate() uses the registry without its semaphore, so this module     *)
(* composes the steps of ClientRegistry with those of creg_shutdown_all,   *)
(* creg_wait_for_empty and creg_fini.  A step of a service thread inside   *)
(* the semaphore may be two or three accesses (the test and the unlinking  *)
(* of creg_unregister): nothing is stated of the walk where it overlaps    *)
(* one (quiet is then FALSE).  An access to a cell that is NULL or freed,  *)
(* or to the registry after creg_fini, sets fault and ends the behaviour:  *)
(* nothing can be said of what the program does next.                      *)
(*                                                                         *)
(* close() in creg_shutdown_all does not wake a thread that is blocked in  *)
(* read(): ServiceEnds stays what it was, a step the client may cause or   *)
(* not.  The handler calls free(), which is not async-signal-safe; that    *)
(* the interrupted malloc() holds the arena's lock is not modelled.        *)
(***************************************************************************)
EXTENDS ClientRegistry

VARIABLES
  mutex_e,          \* cr->mutex_e: the value of the semaphore
  term_pc,          \* where terminate() is; "none" until SIGHUP
  temp_fd, i,       \* the local variables of creg_shutdown_all
  cr_freed,         \* creg_fini has run
  handler,          \* the service thread that runs the handler; {}: main()
  fault,            \* the invalid access that ended the behaviour, or "none"
  quiet,            \* history: no registry call overlapped creg_shutdown_all
  closed            \* history: how often creg_shutdown_all closed each one

history == <<handler, quiet, closed>>
termVars == <<mutex_e, term_pc, temp_fd, i, cr_freed, handler, quiet, closed>>
shutdownVars == <<vars, termVars, fault>>

ShutdownAllPC == {"s_start", "s_loop", "s_advance", "s_head", "s_zero"}
FinishPC == {"creg_fini", "finish", "exited"}

ShutdownTypeOK ==
  /\ TypeOK
  /\ mutex_e \in Nat
  /\ term_pc \in {"none", "w_test", "w_P", "w_V"} \cup ShutdownAllPC \cup FinishPC
  /\ temp_fd \in Addr \cup {NULL}
  /\ i \in Nat
  /\ cr_freed \in BOOLEAN
  /\ fault \in {"none", "invalid_cell", "freed_registry"}
  /\ handler \subseteq Thread
  /\ quiet \in BOOLEAN
  /\ closed \in [Fd -> Nat]

\* Mutant: mutex_e starts at 0, as the name of the function it serves suggests.
MutexEZero == 0

\* Sem_init(&client->mutex_e, 0, 1)
MutexEInit == 1

ShutdownInit ==
  /\ Init
  /\ mutex_e = MutexEInit
  /\ term_pc = "none"
  /\ temp_fd = NULL /\ i = 0
  /\ cr_freed = FALSE /\ fault = "none"
  /\ handler = {}
  /\ quiet = TRUE /\ closed = [f \in Fd |-> 0]

Running == fault = "none" /\ term_pc # "exited"

Advance(from, to) == term_pc = from /\ term_pc' = to

-----------------------------------------------------------------------------
(* The threads of the server go on as before.                              *)

\* Mutant: the handler leaves the accept loop running.
AcceptsDuringShutdown == TRUE

\* On the stack of main() the handler never returns to the loop; on that of a
\* service thread it leaves the loop running.
Accepts == term_pc = "none" \/ handler # {}

AcceptStep ==
  /\ Running /\ Accepts /\ Main
  /\ UNCHANGED <<termVars, fault>>

\* The locations whose next step reads or writes *cr.
ReferencesRegistry(t) ==
  pc[t] \in {"r_P", "u_P"} \cup (CriticalPC \ {"r_alloc", "u_walk", "u_free"})

\* free(NULL) is harmless, any other cell must be allocated.
BadCell(t) ==
  ~AccessOK(t) /\ ~(pc[t] = "u_freehead" /\ registered_fds = NULL)

ServiceStep(t) ==
  /\ Running /\ t \notin handler /\ Service(t)
  /\ ~(cr_freed /\ ReferencesRegistry(t)) /\ ~BadCell(t)
  /\ quiet' = (quiet /\ (term_pc \in ShutdownAllPC =>
                           ~(Register(t) \/ Unregister(t))))
  /\ UNCHANGED <<mutex_e, term_pc, temp_fd, i, cr_freed, handler, closed, fault>>

\* A service thread uses the registry that creg_fini has freed, or a list
\* that creg_shutdown_all has changed under it.
ServiceFault(t) ==
  /\ Running /\ t \notin handler
  /\ \/ cr_freed /\ ReferencesRegistry(t) /\ fault' = "freed_registry"
     \/ BadCell(t) /\ fault' = "invalid_cell"
  /\ UNCHANGED <<vars, termVars>>

-----------------------------------------------------------------------------
(* terminate()                                                             *)

\* SIGHUP is delivered to main() or to any live service thread, which does
\* not go on.
SigHup ==
  /\ Running /\ Advance("none", "s_start")
  /\ handler' \in {{}} \cup {{t} : t \in {u \in Thread : pc[u] # "idle"}}
  /\ quiet' = \A t \in Thread : ~InCritical(t)
  /\ UNCHANGED <<vars, mutex_e, temp_fd, i, cr_freed, closed, fault>>

\* struct fd* temp_fd = cr->registered_fds; int i = 0.
ShutdownStart ==
  /\ Running /\ Advance("s_start", "s_loop")
  /\ temp_fd' = registered_fds
  /\ i' = 0
  /\ UNCHANGED <<vars, mutex_e, cr_freed, history, fault>>

\* Mutant: the first client is skipped.
MoreClientsOffByOne == i + 1 < num_of_clients

MoreClients == i < num_of_clients

\* close(temp_fd->curr_fd)
ShutdownClose ==
  /\ Running /\ MoreClients /\ temp_fd \in heap
  /\ Advance("s_loop", "s_advance")
  /\ open_fds' = open_fds \ {curr_fd[temp_fd]}
  /\ closed' = [closed EXCEPT ![curr_fd[temp_fd]] = @ + 1]
  /\ UNCHANGED <<registry, cells, mainVars, threadVars, mutex_e, temp_fd, i,
                 cr_freed, handler, quiet, fault>>

\* temp_fd = temp_fd->next; i++
ShutdownAdvance ==
  /\ Running /\ temp_fd \in heap
  /\ Advance("s_advance", "s_loop")
  /\ temp_fd' = next[temp_fd]
  /\ i' = i + 1
  /\ UNCHANGED <<vars, mutex_e, cr_freed, history, fault>>

\* The list is shorter than the counter says, or a cell of it was freed.
ShutdownFault ==
  /\ Running /\ temp_fd \notin heap
  /\ \/ term_pc = "s_advance"
     \/ term_pc = "s_loop" /\ MoreClients
  /\ fault' = "invalid_cell"
  /\ UNCHANGED <<vars, termVars>>

ShutdownDone ==
  /\ Running /\ ~MoreClients
  /\ Advance("s_loop", "s_head")
  /\ UNCHANGED <<vars, mutex_e, temp_fd, i, cr_freed, history, fault>>

\* cr->registered_fds = NULL
ShutdownHead ==
  /\ Running /\ Advance("s_head", "s_zero")
  /\ registered_fds' = NULL
  /\ UNCHANGED <<num_of_clients, mutex, cells, open_fds, mainVars, threadVars,
                 mutex_e, temp_fd, i, cr_freed, history, fault>>

\* cr->num_of_clients = 0
ShutdownZero ==
  /\ Running /\ Advance("s_zero", "w_test")
  /\ num_of_clients' = 0
  /\ UNCHANGED <<registered_fds, mutex, cells, open_fds, mainVars, threadVars,
                 mutex_e, temp_fd, i, cr_freed, history, fault>>

\* The same store, lost between the load and the store of a thread's
\* num_of_clients++ or num_of_clients--: the data race on the counter.
ShutdownZeroLost ==
  /\ Running /\ Advance("s_zero", "w_test")
  /\ \E t \in Thread \ handler : RegisterCount(t) \/ UnregisterCount(t)
  /\ quiet' = FALSE
  /\ UNCHANGED <<mutex_e, temp_fd, i, cr_freed, handler, closed, fault>>

\* if(cr->num_of_clients != 0), the first line of creg_wait_for_empty.
WaitTest ==
  /\ Running /\ term_pc = "w_test"
  /\ term_pc' = IF num_of_clients # 0 THEN "w_P" ELSE "w_V"
  /\ UNCHANGED <<vars, mutex_e, temp_fd, i, cr_freed, history, fault>>

WaitP ==
  /\ Running /\ Advance("w_P", "creg_fini")
  /\ mutex_e > 0 /\ mutex_e' = mutex_e - 1
  /\ UNCHANGED <<vars, temp_fd, i, cr_freed, history, fault>>

WaitV ==
  /\ Running /\ Advance("w_V", "creg_fini")
  /\ mutex_e' = mutex_e + 1
  /\ UNCHANGED <<vars, temp_fd, i, cr_freed, history, fault>>

CregFini ==
  /\ Running /\ Advance("creg_fini", "finish")
  /\ cr_freed' = TRUE
  /\ UNCHANGED <<vars, mutex_e, temp_fd, i, history, fault>>

\* player_fini(), maze_fini() and exit().
Finish ==
  /\ Running /\ Advance("finish", "exited")
  /\ UNCHANGED <<vars, mutex_e, temp_fd, i, cr_freed, history, fault>>

Terminate ==
  \/ ShutdownStart \/ ShutdownClose \/ ShutdownAdvance \/ ShutdownFault
  \/ ShutdownDone \/ ShutdownHead \/ ShutdownZero \/ ShutdownZeroLost
  \/ WaitTest \/ WaitP \/ WaitV \/ CregFini \/ Finish

ShutdownNext ==
  \/ AcceptStep \/ SigHup \/ Terminate
  \/ \E t \in Thread : ServiceStep(t) \/ ServiceFault(t)

ShutdownSpec == ShutdownInit /\ [][ShutdownNext]_shutdownVars

\* The main thread is scheduled; nothing else is promised.
FairShutdownSpec == ShutdownSpec /\ WF_shutdownVars(Terminate)

-----------------------------------------------------------------------------
(* Properties                                                              *)

\* The unlocked walk of creg_shutdown_all is unsafe only against a concurrent
\* creg_register or creg_unregister: when no thread is inside one of them from
\* the SIGHUP to the end of the walk, no access is invalid meanwhile, and the
\* walk has closed each registered client once and no other descriptor,
\* whichever thread runs it.
WalkEnded == term_pc \in {"s_head", "s_zero"}
QuietShutdownExact ==
  quiet => /\ term_pc \in ShutdownAllPC => fault # "invalid_cell"
           /\ WalkEnded => \A f \in Fd :
                closed[f] = IF \E t \in RegisteredThread : fd[t] = f THEN 1 ELSE 0

\* A service thread that outlives creg_shutdown_all closes its descriptor a
\* second time: where main() runs the handler, the number never belongs to
\* another connection by then.
NoSharedDescriptor == handler = {} => \A t, u \in Thread :
  HoldsFd(t) /\ HoldsFd(u) /\ fd[t] = fd[u] => t = u

\* tests/mazewar_tests.c asserts that the server terminates after SIGHUP:
\* terminate() always comes to its end, or to an invalid access.
SigHupTerminates == term_pc # "none" ~> ~Running

\* main.c:193, after creg_wait_for_empty: "All service threads terminated.",
\* said of the threads whose connection creg_shutdown_all has closed, with no
\* thread inside the registry meanwhile.
AllServiceThreadsTerminated ==
  quiet /\ term_pc \in FinishPC =>
    \A t \in RegisteredThread \ handler : closed[fd[t]] = 0
=============================================================================
