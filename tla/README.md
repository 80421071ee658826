# MazeWar server: formal specification

This directory holds a TLA+ model of the MazeWar game server in `src/`: modules
that follow the C code, TLC configurations that check them on small instances,
and proofs checked by TLAPS. File and line references are to the repository
(`server.c:24` is `src/src/server.c`, line 24).

## 1. The system

The server is one process. The main thread accepts connections and starts one
detached thread for each; that thread registers its descriptor, serves requests
until the connection ends, unregisters and closes. The threads share four
things: the client registry, the maze, the players map, and a signal.

    client --TCP--> proto_recv_packet --> mzw_client_service --> player module
                                            |        ^                | |
                          creg_(un)register |        | SIGUSR1        | | maze_*
                                            v        +----------------+ v
    SIGHUP --> handler --> terminate --> registry                      maze

### Inventory

| component | state | operations | correct when |
|---|---|---|---|
| client registry (`client_registry.c`) | counter, linked list of descriptors, `mutex`, `mutex_e` | `creg_init`, `creg_register`, `creg_unregister`, `creg_shutdown_all`, `creg_wait_for_empty`, `creg_fini` | list and counter describe the connected clients, each call takes effect at once, no cell is used after it is freed or lost |
| start of the server and accept loop (`main.c:20-175`) | options, handlers, `connfdp` | `getopt` loop, initialisation, `Open_listenfd`, `Accept`, `Pthread_create` | nobody meets a module that is not initialized; every thread gets its own descriptor |
| shutdown (`main.c:183-208`) | position in `terminate()` | SIGHUP handler | all clients are closed, it comes to an end, nothing is used after it is finalized |
| maze template (`main.c:79-110`, `maze.c:12-35`) | row pointers, `the_row`, `the_col` | two passes over the file, `maze_init` | the maze is the file |
| maze (`maze.c`) | the array, `mutex` | `maze_set_player(_random)`, `maze_remove_player`, `maze_move`, `maze_find_target`, `maze_get_view` | array and player locations agree, walls stay, a target is a player in the line of fire, a view is the patch ahead |
| protocol (`protocol.c`) | `*pkt`, `*datap`, `errno` | `proto_send_packet`, `proto_recv_packet` | every packet sent is received once, in order, unchanged |
| service loop (`server.c:20-94`) | `loged_in`, `pkt`, `new_player` | LOGIN, MOVE, TURN, FIRE, REFRESH, SEND, hit check, end of connection | flag, players map and maze agree; hits are noticed; who leaves is logged out |
| player module (`player.h`, binary `lib/mazewar.a`) | players map, locations, hit flags, views, scores, reference counts, locks | `player_*` | see plan |
| csapp wrappers (`csapp.c`) | `errno`, exit status | one wrapper for each call of the system, `P`, `V` | no failure returns to the caller, and what is printed is the error that occurred |
| Rio (`csapp.c:741-935`) | `rio_t`, the locals of a call | `rio_readn`, `rio_writen`, `rio_readnb`, `rio_readlineb` and their wrappers | no byte is lost, doubled or moved, results tell the truth, calls return |
| socket helpers (`csapp.c:937-1065`) | the list of addresses, the sockets | `open_clientfd`, `open_listenfd` | no socket is left open wherever they fail |
| Sio (`csapp.c:217-315`) | - | `sio_puts`, `sio_putl`, `sio_error` | the text of a number is that number |
| tests, clients | none | `tests/mazewar_tests.c`, `util/` | not modelled |

`src/src/player.c` is commented out as a whole, all its 418 lines: the player
module that runs is a binary. What it does is modelled as external code, from how
`server.c` uses it, from what `maze.c` sees of it, and from its contract in
`player.h`. Three facts about the binary are visible in the calls it links: the
handler of SIGUSR1 is installed with `sigaction` and no `SA_RESTART`, so that it
interrupts blocking calls; `player_check_for_laser_hit` blocks SIGUSR1 while it
runs; and `player_login` passes to another letter if the one asked for is taken.

### Behaviours that are hard

* service threads in the registry at the same time, with heap cells that are
  freed and handed out again, and descriptors that are closed and reused;
* `terminate()` in the signal handler, using the registry without its semaphore
  while service threads go on, and in whichever thread takes the signal;
* two maze operations that take no semaphore (`maze_set_player`, `maze_move`)
  and two that do;
* SIGUSR1 at every point of the service loop: before, in and after `read()`, in
  `sem_wait()`;
* `read()` that returns part of a packet, fails, or leaves an old `errno`;
* a retry loop with no exit, and arithmetic at the border of the maze;
* `errno`, which no call sets to zero, read by wrappers that must tell the end of
  a directory or of a file from an error;
* loops that retry after a short count or `EINTR`, over a buffer whose counter
  also carries the result of `read()`;
* every order of failures and of SIGHUP while the server starts, and template
  files whose lines are not alike.

`PROJECT.json` lists each of them at its line with the properties that cover it.

## 2. Modules

| module | models | main abstractions |
|---|---|---|
| `ClientRegistry` | registry, accept loop, life of a service thread | a cell is a heap address; the service loop is the step `ServiceEnds` |
| `RegistrySet` | the abstract registry: a set, calls atomic | - |
| `Shutdown` (extends `ClientRegistry`) | one SIGHUP, taken by any thread, `terminate()` and the three unlocked registry functions | no second SIGHUP; `free()` inside a signal handler has no effect on the allocator's own locks |
| `Maze` | the computations of `maze.c` as operators | objects are EMPTY, avatars, solids |
| `MazeViews` | any maze, to check those operators against each other | - |
| `MazeThreads` (extends `Maze`) | maze operations access by access, several threads | a player has one operation in progress |
| `MazeTemplate` | reading the template file into its row buffers, `maze_init` | a line is a sequence of objects; the slot behind the array of rows, used at `main.c:99` and `:104`, is free |
| `Startup` (extends `MazeTemplate`, `Sockets`) | `main()`: options, initialisation, handlers, listening socket, accept loop, SIGHUP | `terminate()` is the end (module `Shutdown` goes on from there) |
| `ProtocolRecv` | `proto_recv_packet` over TCP | header in two units, size in two digits to the base `BYTE` |
| `Service` | the service loop of several threads, SIGUSR1, `proto_send_packet`'s result | `proto_recv_packet` is one step; MOVE, TURN, REFRESH and SEND are "act" |
| `Wrappers` | the wrappers of `csapp.c` | arguments and data; a call is what it may return and leave in `errno` |
| `Rio` (extends `Wrappers`) | the Rio package, one `read()`, `write()` or copy a step | - |
| `Sockets` (extends `Wrappers`) | `open_clientfd`, `open_listenfd`, one system call a step | an address is a position in the list |
| `Sio` (extends `Wrappers`) | output for signal handlers | text is a sequence of codes |
| `Csapp` (extends the last three) | a program that makes any calls of the library | see the bounds |
| `ClientRegistryProofs` | theorems about `ClientRegistry`: the semaphore, list, descriptors, cells, refinement of `RegistrySet` | - |
| `ShutdownProofs` (extends `ClientRegistryProofs`) | theorems about `Shutdown` | - |
| `MazeThreadsProofs`, `MazeViewsProofs`, `ServiceProofs`, `ProtocolRecvProofs`, `StartupProofs` | theorems about the modules of these names | - |
| `CsappProofs` | theorems about `Csapp`, and about its Rio package, socket helpers and Sio | - |
| `MC*` | constants, symmetry sets and mazes for TLC | - |

How the code appears in them:

* **`ClientRegistry`.** One step is one write to shared memory with the reads it
  needs, or a test. Steps of two or three accesses (`num_of_clients++`, the test
  and the load of the head, an unlinking) are all between a `P` and its `V`, which
  exclude each other whatever the data, so nothing is lost by taking them for one.
  A program counter names the next access: `r_P ... r_V` are `creg_register`, `u_P
  ... u_V` `creg_unregister`, `malloc/accept/create` the accept loop.
  `registered_fds` is a real pointer: it dangles after the last client has left
  (`client_registry.c:64-71` frees the head without resetting it), as in the code,
  and `SuccessorOfNew` is the test of the counter that makes this harmless. The
  branch `i == last_index - 1` (`:82-84`) is dead, because `i` is never
  incremented; the model says so and leaves it out. `ImplementsSet` is the
  refinement: the list, read through its pointers, is the set of `RegistrySet`; a
  call takes effect when the counter or the head is written, and every other step
  is a stutter.
* **`Shutdown`.** The process gets one SIGHUP. `main.c:121-126` installs its
  handler with an empty mask and no thread blocks the signal, so that `main()` or
  a service thread may take it. `SigHup` puts `terminate()` in the place of what
  that thread was doing (the handler never returns): the accept loop stops if it
  was `main()`, and goes on, accepting, if `handler` is a service thread. A second
  SIGHUP, which another thread could take at the same time, is not modelled.
  `terminate()` makes one shared access per step. A step of a service thread inside
  the semaphore may be two or three: nothing is stated of a walk of
  `creg_shutdown_all` that overlaps one (`quiet`). `closed` counts what the walk
  has closed. The store
  `num_of_clients = 0` can also be lost between the load and store of a thread's
  `++` or `--` (`ShutdownZeroLost`): it is a data race, and both outcomes are
  possible. An invalid access sets `fault` and ends the behaviour.
* **`MazeThreads`.** Each operation is split at its reads and writes of the array.
  The player's location is set to the destination before `maze_move` and taken
  back if it fails (`player.h:189-193`; `TakeBack`). `Templates` are the mazes;
  `overlap` (chosen at the start, then fixed) says whether operations may overlap,
  so that one state space answers both "what does an operation do" and "what
  survives the missing locks".
* **`MazeViews`.** The state is a maze, edited one cell at a time, so that the
  checked operators are evaluated in every maze of the size.
* **`MazeTemplate`.** Both passes of `main.c:79-110` with what they take for
  granted: `col` is the length of the *last* line, every row gets a buffer of
  that length, and `getline()` is told the size of another buffer. What each row
  buffer holds afterwards, the terminating NUL and what `malloc()` left there
  included, is what `maze_init` copies; it copies as many rows as a pointer has
  bytes (`maze.c:16`). An access outside a buffer sets `fault`. One slot is
  excepted: for *every* file the last `getline()` (`main.c:99`) is given the slot
  behind the array of rows, and `main.c:104` stores NULL in it. What that does
  depends on the build; the model follows one in which the slot is free, and
  nothing is stated of these two accesses.
* **`Startup`.** `main_pc` names the next call of `main()`, and `After` is the
  order in which they come. Each call may fail in the ways its wrapper knows;
  `Open_listenfd` runs as the steps of `Sockets`, loading the maze as those of
  `MazeTemplate`; SIGHUP may come at any point and ends the process until
  `sigaction()` has been called.
* **`Wrappers`.** The calls tell of a failure in a few ways (-1, NULL, a nonzero
  code, a value together with `ferror()` or with `errno`), and each wrapper is
  one of these tests applied to one set of results. `errno` keeps what earlier
  calls have left, which is what `Readdir` depends on. `cause` is a history
  variable, the error that the call really had.
* **`Rio`**, `Sio`, and `Readdir` and others of `Wrappers`, have no caller in the
  server: what is shown of them is about the library, not the game. In `Rio`, `fn`
  is the function that runs; `nleft`, `bufp` and `n` are its locals; the kernel
  chooses how many bytes a `read()` or `write()` takes. `got` collects what
  callers were handed; `gap` says that bytes were lost with an error or passed by,
  by `rio_readn` over a filled buffer.
* **`Sockets`.** Both functions walk the list with `open_pc`; the caller keeps
  or closes what it gets; `close()` may report an error. `why` is a history
  variable, the error of the system call that has made the walk give up.
* **`ProtocolRecv`.** The client sends packets as tokens, the network delivers
  any prefix, `read()` returns what is there, EOF or -1 with an `errno`. `pkt`,
  `datap` and `errno` live across calls, as in the code, and `Swap` is `ntohs`
  applied to whatever the size field holds, after a failed read too.
* **`Service`.** The program counter follows one turn of the loop. SIGUSR1 is
  pending until delivered: between two calls, inside `read()` (the call returns
  zero with the old packet), or inside `sem_wait()` (`P()` calls `unix_error()`,
  which exits). `SendReturnsZero` is `proto_send_packet`'s comparison of the
  bytes written with the size that was exchanged in place.

Names follow the source, `loged_in` and `temp_fd` (a cell pointer there)
included. Definitions with the comment "Mutant" are small plausible bugs; each
is used in place of the definition that follows it to see that a property
notices (`PROJECT.json`, `mutants`). No specification uses one.

## 3. What the runs show

Every run takes less than five minutes on two workers.

| run | question | result |
|---|---|---|
| `registry` | do three threads and the accept loop keep the registry exact? | holds: mutual exclusion, exact list and counter, no access to a freed cell, search always finds, no shared descriptor, no leak, refinement of a set |
| `shutdown` | what does SIGHUP guarantee, whenever it comes and whoever takes it? | if no registry call overlaps `creg_shutdown_all`, it closes each registered descriptor once, no other, and makes no invalid access; no descriptor number is shared if `main()` runs the handler; `terminate()` ends, or makes an invalid access |
| `shutdown_threads` | are all service threads gone when modules are finalized? | violated |
| `maze_views` | do laser and view agree, in each direction, in every maze? | holds |
| `maze` | do array and players agree; what survives missing locks? | holds: see below |
| `maze_full` | does every placement come to an end? | violated |
| `startup` | which maze does the server get, and who can meet a module that is not initialized? | the first rows of the file, if its lines fit; nobody does |
| `recv` | are packets received, in order, once, with signals and fragments? | holds as stated |
| `recv_replay` | is every packet received once, whatever signals come? | violated |
| `service` | do flag, map and maze agree; are hits seen, do clients leave? | holds as stated |
| `service_hits` | is a hit noticed promptly? | violated |
| `csapp` | what does the library promise when calls fail, are cut short or interrupted? | errors are fatal, and truthful where `errno` or a code tells them; streams and results exact, no socket lost, calls return |

Reading the properties that hold:

* `RegistryExact`, `SafeAccess`, `UnregisterFinds` depend on each other: with
  one client left `creg_unregister` frees the head without comparing, which is
  right only because every caller has registered its own descriptor, which is
  why no two live threads may have the same one (`DistinctConnections`), which
  holds because `creg_unregister` comes before `close()` (`server.c:96-97`).
* `QuietShutdownExact` states the exact condition under which the unlocked walk
  of `creg_shutdown_all` is safe and complete; outside it the model reaches
  `fault`. `NoSharedDescriptor` says why the second `close()` of a
  descriptor by its service thread does no harm: by then `accept()` has stopped.
  That is so only where `main()` has taken the SIGHUP, and the property says no
  more: under a service thread `accept()` goes on, and the number may by then
  belong to a new connection.
* `SigHupTerminates` takes an invalid access for an end, because nothing can be
  said of what the program does after it.
* `MazeMatchesPlayers` and `TargetIsThere` are about operations one at a time.
  `SolidStays`, `NoGhost`, `TargetNeverSolid`, `InBounds`, `MazeReleased` and
  `PlacementFindsRoom` hold for overlapping operations too: races can put two
  players in a cell or hide one, but never create or remove a wall, leave an
  abandoned avatar, make a wall a target, or block the semaphore for ever.
  `PlacementFindsRoom` is what the placement loop does promise: it ends while a
  cell is empty again and again. In a full maze it does not (`maze_full`).
* `ReceivedInOrder` holds for any fragmentation without signals, and
  `NothingSkipped` and `OneRepetitionPerSignal` for any signals without
  fragmentation. With both, a header cut in two and an interrupted `read()`, the
  stream loses its packet boundaries, and nothing is claimed.
* `PlayersExact` holds although READY packets count as unsent in many cases.
* `FirstRowsLoaded` says for which files loading stays in the rows and their
  buffers, no row longer than the last one and enough of them (`Fits`), and that
  the maze is then the first `POINTER` rows cut to the width of the first one. For
  other files the model reaches an overflow of a row buffer or a row that is not
  there. It does not say that the maze is the file, which the code does not keep
  for files of more rows (`MazeIsTemplate`, section 5).
* `NothingBeforeInit` depends on the order of `main()`: the handler comes after
  the three modules, the listening socket after the handler.
* `StreamExact` relates three places at once: what callers have, what the call
  in progress has stored and what the buffer holds. `ResultsExact` is about the
  number returned: a short count only at the end of the file, a line that ends
  where lines end, no `EINTR` for the caller. `CallReturns` is that no loop of
  the package goes round for ever once interruptions stop.
* `NoDescriptorLost` holds on every path through the two walks over addresses,
  the failure of `close()` and of `listen()` included.
* `ErrorsAreFatal` covers the wrappers that look at `errno` or `ferror()` after
  a value that is not an error in itself, and the walks over addresses, where the
  error printed is that of the last address. It says of every failure that the
  call does not return, an interrupted `sem_wait()` or `accept()` included; it
  says what is printed only where the failure has a code or `errno` still tells
  it. Excepted are a failed `getaddrinfo()`, a `close()` that fails after
  `listen()` has, and a `write()` of 0 bytes (`cause = UNSET`).
* `ResultsExact` excepts the least `long`, whose text is wrong (below).

### Findings

The violated runs are disagreements between the code and what the repository
says of it:

1. `shutdown_threads`: `creg_shutdown_all` sets the counter to zero itself, so
   `creg_wait_for_empty` waits for nobody, and `terminate()` frees the registry
   and the maze under threads that were registered and are still served;
   `main.c:193` says "All service threads terminated."
2. `maze_full`: `maze_set_player_random` never increments its counter, so that in
   a full maze it goes on for ever; `maze.h:160-161` says that it can fail after a
   large number of attempts.
3. `recv_replay`: an interrupted `read()` returns success with the old packet;
   `protocol.h:111-112` says zero means successful reception.
4. `service_hits`: a signal between the hit check and `read()` wakes nobody;
   `player.h:279-283` says the check there is what makes hits noticed promptly.

Other disagreements met while modelling, visible in the models without a run of
their own:

* two placements that find the same cell empty both succeed in it (`maze.c:55`),
  against `maze.h:145-146`, and a player who is placed in the destination of a move
  between its test and its write (`maze.c:103`) disappears from the maze, against
  `maze.h:183-184`. What such races leave intact is in `NoGhost` and `SolidStays`;
* the number of rows is `sizeof` of a pointer (`maze.c:16`): the rows of a template
  behind the eighth are dropped, while in `maze.h:110-113` the NULL-terminated
  template defines the maze;
* `Open_listenfd` prints `errno` after a failed `getaddrinfo()` (`csapp.c:1062`),
  which has not set it, though `csapp.c:992-994` tells the two kinds of failure
  apart;
* the text of the least `long` is a minus and one character that is no digit
  (`csapp.c:244`); `csapp.c:4-5` says that negative numbers are covered;
* `maze_find_target` reads the cell again after `V()` (`maze.c:149-151`), and
  `maze_move` does not test the bounds (`maze.c:103`);
* a packet that arrives in pieces logs the player out (`protocol.c:33-39`), and the
  bytes written are compared with an exchanged size (`protocol.c:18`);
* `P()` takes an interrupted `sem_wait()` for an error and exits (`csapp.c:731`), so
  that the loop does not only end at EOF (`server.h:39-40`);
* the port is called required (`main.c:38`) and not demanded, and the variable is
  used uninitialized without it (`main.c:169`); a failure of `Accept` or
  `Pthread_create` ends the server with status 0 (`csapp.c:35`);
* lines that are longer than the last one, or a last line without newline, overflow
  their row buffer (`main.c:95-100`).

## 4. Bounds, deadlock, symmetry, fairness

| run | bounds | why they are enough |
|---|---|---|
| `registry` | 3 threads, 3 descriptors, 4 cells | a list of three has a head, a middle and a last cell; the fourth cell is the argument of the next thread; freed cells and descriptors are reused at once |
| `shutdown` | 2 threads, 2 descriptors, 2 cells | the walk meets lists of none, one and two, while the accept loop or a thread is at any other step; cells and descriptors that are freed are handed out again at once |
| `shutdown_threads` | the same, 3 cells | both may be registered while the accept loop has the argument of the next thread |
| `maze_views` | 3x3 interior, depth 3, 2 avatars | interior cells next to the border and one that is not; views cut off and not |
| `maze` | 3x4, three mazes, 2 avatars | every race in the code is between two accesses; one maze has a solid border, one an exit, one a single empty cell, so that it is full |
| `maze_full` | 3x3, one empty cell | the smallest full maze |
| `startup` | `POINTER` 2, up to 3 lines of up to 2 objects, with and without a last newline; 2 options, 2 addresses, 1 descriptor, 2 error codes | fewer, as many and more lines than `sizeof` says; a line shorter and longer than the last; an option given twice; an address that fails before one that works; an interrupted call and another error |
| `recv*` | `BYTE` 2, sizes 0, 1, 3, 3 packets, 2 signals | sizes with a low digit, both digits, no payload; a packet before, at and after the signal |
| `csapp` | 2 error codes, one of them `EINTR`; 2 bytes, one of them the newline; `RIO_BUFSIZE` 2; input and sizes up to 3; 2 interruptions or failures; 2 descriptors, 2 addresses; `LONG_MAX` 127, `BASE` 10 | the buffer is filled twice and left half full; a request is shorter than, as long as and longer than the buffer; an interruption before a failure; a number of three digits, the least and the greatest one |
| `service*` | 2 clients, 2 avatars, `BYTE` 2, 1 unread request | shooter and victim, also each other's; `MaxUnread` bounds what the client has sent ahead |

`BYTE` is 256 in the code; with base 2 the exchange of digits changes the same
values (those whose digits differ) and keeps the same (0 and 3 here). `POINTER` is
8, `RIO_BUFSIZE` 8192, `LONG_MAX` 2^63 - 1: the code compares and subtracts them
and uses them in no other way.

`Csapp` lets calls of the wrappers come before the use of a stream and of
sockets and numbers only with an empty stream: what the four parts share is
`errno` and the exit, and in these orders each meets every `errno` that another
one can leave.

*Deadlock* is checked in `registry`, where the server never stops, and in
`maze_views`. The others say `CHECK_DEADLOCK FALSE` because their systems stop:
the process has exited or has made an invalid access (`shutdown*`, `maze*`,
`service*`), or the connection has failed (`recv*`). In `maze` a behaviour may
also stop because nothing is promised about which operation a player asks for
next; blocking for ever inside one is excluded by `MazeReleased` and, while there
is room, by `PlacementFindsRoom`. In `startup` and `csapp` the process exits.

*Symmetry.* `registry`, `shutdown_threads` and `maze_views` use it for safety
(`ImplementsSet` is a refinement without liveness: the abstract specification has
no fairness). `service*` permute the avatars only, whose names occur in no
fairness condition and no property except under a quantifier; the witnesses of a
liveness counterexample are states of clients, which are not permuted.

*Fairness.*
* `Shutdown`: weak fairness of `terminate()`, which is the thread that runs it
  being scheduled. Nothing is assumed of the other threads or of clients.
* `MazeThreads`: weak fairness of a thread inside an operation, and strong
  fairness of finding an empty cell: `rand_r()` goes through all its values, so
  a cell that is empty again and again is picked when it is. Nobody is obliged
  to start an operation.
* `ProtocolRecv`: TCP delivers, the thread is scheduled.
* `Csapp`: weak fairness of a Rio call that is running. `MaxTrouble` bounds the
  interruptions, so that they come to an end; nobody is obliged to make a call.
* `Service`: threads are scheduled (weak), a semaphore that is released again
  and again is obtained (strong, for the steps that wait for it). Clients may be
  silent for ever, and a pending signal may stay undelivered.

## 5. What is proved

Every theorem holds for all values of the constants that satisfy the named
assumptions of the module.

`ClientRegistryProofs` proves, for any sets of threads, descriptors and cells,
from `NullAssumption` only (`NULL` is neither a cell nor a descriptor):

* `TypeCorrect`: `Spec => []TypeOK`, in particular that `cr->mutex` stays a
  binary semaphore;
* `MutexExcludes`: `Spec => []MutualExclusion`.

The inductive invariant is `LockInv == TypeOK /\ PointersSet /\ MutualExclusion`.
`TypeOK` alone is not inductive: `V()` adds one, and `mutex` stays in {0, 1} only
because the caller holds it, which is what the second half of `MutualExclusion`
says (0 exactly while somebody is inside); and a cell read through a null pointer
would have no type, so that the pointers a step dereferences must be set
(`PointersSet`). The steps are grouped as the argument goes: those of `main()`,
those outside the critical section, `P()` which enters it, `V()` which leaves it,
and those inside, which move between two critical locations and leave the
semaphore alone.

The other six properties of the registry have the same assumption. Four say what
the list is: `ConnectionsDistinct` (`DistinctConnections`), `AccessSafe`
(`SafeAccess`), `DescriptorFound` (`UnregisterFinds`) and `RegistryIsExact`
(`RegistryExact`). None of them can be shown alone: the search ends in the list
because the list holds the caller's descriptor, this cell is the only one with it
because connections are distinct, and they are because no cell on its way from
`accept()` to a thread is freed by somebody else. The invariant `ExactInv` has
three parts:

* `FdInv`: the descriptors of live threads, each in its variable or still in its
  argument cell, are distinct, from that of the accept loop too;
* `OwnInv`: a cell outside the list has one owner, the accept loop, a thread that
  has not started, or a thread that links or frees it;
* `ListInv`: there are a length `n` and cells `c[1], ..., c[n]` linked from the
  head, one for each member thread's descriptor (`Shape`, `Contents`), none of
  them owned (`Apart`); `num_of_clients` is `n`, or late by one where the code has
  linked or unlinked and not yet counted (`Count`); and a search at `c[k]` has
  `c[k - 1]` as `prev_fd` and its descriptor not before `k` (`Walker`).

That the descriptors are open (`OpenInv`) stands apart, since it ends with the
first `close()` of `terminate()`, and the rest does not.

The list is a function of its positions, so that no step needs an induction:
`RegisterHead` puts a cell in front, `UnregisterUnlink` leaves out `c[k]`,
`UnregisterFreeHead` leaves the list of length 0 (`OnlyMember`), and the other
steps keep `n` and `c`.

`RegistryImplementsSet` (`ImplementsSet`) is the refinement of `RegistrySet`. A
call takes effect when its thread becomes one of `Listed`: the first client when
it is counted, the others when the new head is stored, and every client leaves
with the step that unlinks its cell or frees the last one. `SetInv` says that the
descriptors read through the pointers from the head (`Reached`) are those of the
listed threads; with it, each step is one step of `RegistrySet` or leaves its
three variables alone (`MapsToAdd`, `MapsToRemove`, `MapsToStutter` and the
lemmas after them). `Reached` is the least set of cells that is closed under
`next`; that it is the list (`ReachedIsList`) follows from the least position
that is missing, which exists because the segments `1 .. k` are well-founded
under strict inclusion, so that no induction is needed. `SearchInv` is needed
where the head has been freed and not yet uncounted.

`NothingLeaks` (`NoLeak`) needs the converse of `ListInv`: not that every cell of
the list is allocated, but that every allocated cell without an owner holds the
descriptor of a member, and no two the same one (`LeakInv`). Only three steps
make a cell change hands between owner and list; for all others it is enough
that no cell becomes ownerless and no member leaves (`KeepsLeakInv`).

`ShutdownProofs` proves `ShutdownTypeCorrect` (`ShutdownTypeOK`),
`QuietShutdownIsExact` (`QuietShutdownExact`) and `DescriptorsNeverShared`
(`NoSharedDescriptor`), for any sets of threads, descriptors and cells, from
`NullAssumption`. The invariant is `ShutdownInv`:

* `PhaseInv` says how much is left of the registry's invariant where `main()` runs
  the handler. All of it holds before the SIGHUP, `ExactInv` as long as
  `creg_shutdown_all` walks, since `close()` changes no cell. Once the head is
  reset the list means nothing any more, threads inside follow pointers that
  nobody keeps, and `RestInv` is what `NoSharedDescriptor` needs: connections stay
  distinct, and they do because there is a set of cells, closed under `next`, that
  every such pointer stays in, and that has no cell in it from which a thread is
  still to read its descriptor (`Enclosed`). A write of one thread into another
  one's argument is what would give two threads one descriptor. Where a service
  thread runs the handler this is lost, since `accept()` may return a descriptor
  again whose thread has not closed it;
* `QuietInv`, whoever runs the handler: if no thread has been inside the registry
  since the SIGHUP the list is frozen (`Frozen`), with the descriptors of the
  registered clients in it, each once; the reader is at its position `i` (`At`),
  and the descriptors before it are closed once and no others (`ClosedUpTo`), so
  that at its end this holds of all, and no invalid cell is met. Since `main()` may
  go on meanwhile, the cells it hands over must be shown to stay apart from those
  of the list and from each other (`HandoverInv`).

`MazeThreadsProofs` proves, for any size, any set of mazes, avatars and solid
objects, from the named assumptions of `Maze` and `MazeThreads`, five properties
of operations that overlap in any way: `MazeTypeCorrect` (`TypeOK`), `WallsStay`
(`SolidStays`), `NoAvatarAbandoned` (`NoGhost`), `TargetsAreSoft`
(`TargetNeverSolid`) and `SolidBorderSuffices` (`InBounds`). They come from one
inductive invariant, `MazeInv`. None of the five is inductive:

* a player who moves stands where it came from until the move has written (`At`),
  although its location is already the destination;
* what a thread knows of the cells it is going to write to (`CellsInv`,
  `PlayerInv`) may only speak of the template, since other threads write to the
  array at any time: a cell once found empty is `Soft`, not solid in the
  template, and stays so whatever is in it now. With that every write puts an
  object that is not solid in a cell that is soft, which is `SolidStays`, and a
  placed player is never on a solid border, which is `InBounds`;
* `NoGhost` needs `Accounted`: a player whose cell `maze_remove_player` has
  cleared, and who is still placed for the player module, must not count, because
  what is in that cell afterwards was written by somebody else;
* `TypeOK` needs that the cell to be read next is the neighbour of the last one
  (`Adjacent`), and that the semaphore is held by one thread at most
  (`MutexInv`).

`QuietStep`, `LockStep`, `OtherThreads` say once what a step of one thread leaves
alone; the four operations then have one step for every action.

`MazeAndPlayersAgree` (`MazeMatchesPlayers`) and `TargetFound` (`TargetIsThere`)
are about operations that come one at a time, and need what overlapping threads
would destroy: `SoloInv` says that one thread at most is busy (`OneBusy`), that
the array is the template and the avatars of those who stand in it, at every
step of an operation (`InPlace`), and that what the thread has read is still so
(`Undisturbed`). It rests on `MazeInv`.

`MazeViewsProofs` proves what the computations of `maze.c` return, for an array
of any size with anything in it: `FireGoesBothWays` (`FireIsSymmetric`),
`TargetSeenIsTargetHit` (`TargetIsInView`) and `ViewIsThePatch` (`ViewIsPatch`).
No invariant is needed, as they hold in every state. `maze_find_target` and
`maze_get_view` have one loop for each direction; `ReachIs` and `ViewEndIs` give
their bounds one form (the distances at which a cell ahead is in the array, and
the first at which it is not), `TargetIsFirst` and `ViewIs` say with them what a
target and a view are. `BackOnRay` turns a distance round. "The nearest
object" is the least element of a set of distances, which exists because `<` is
well-founded on `Nat` (`LeastNat`): an argument that would be an induction.

`ServiceProofs` proves `ServiceTypeCorrect` (`TypeOK`) and `PlayersMapExact`
(`PlayersExact`) for any number of clients and avatars, from `NoneAssumption` and
`BoundAssumption`. `PlayersExact` compares map and flag only where a thread is
between two calls; the invariant `ServiceInv` says how they may differ elsewhere:
the map is ahead of the flag from `player_login` to `loged_in = 0`, and from the
end of the loop to `player_logout` (`ClientInv`). That no step for one client
changes the map for another (`Frame`) needs `OneAvatar` only for the new entry.

`ProtocolRecvProofs` proves `PacketsInOrder` (`ReceivedInOrder`),
`PacketsNotSkipped` (`NothingSkipped`) and `RepetitionsCounted`
(`OneRepetitionPerSignal`) for any packets, any base and any number of signals.
None of them mentions the stream, and the invariant is about little else: the
packets lie one behind the other on what is in the socket and in the network
(`Layout`, with one place for every packet, at or before the reader for those
already read), and the thread reads where a packet or its payload starts
(`PlaceInv`). That is true only as long as no signal has met a packet in pieces,
so that it stands under `Guard`, and `Guard` is never regained.
`ProgressInv` counts: an `errno` left at `EINTR` is a repetition to come. One
lemma says what sending, delivering and reading do to a `Layout`
(`LayoutShift` and those after it); the step of a short header read is where a
signal and a fragment exclude each other.

`CsappProofs` proves `CsappTypeCorrect` (`TypeOK`), `StreamIsExact`
(`StreamExact`), `ResultsAreExact` (`ResultsExact`), `FailuresAreFatal`
(`ErrorsAreFatal`) and `NoSocketStaysOpen` (`NoDescriptorLost`) for any stream,
sizes, buffer, error codes, descriptors, lists of addresses, greatest `long` and
base from 2 to 36. The invariant `CsappInv` is the conjunction of
`ErrorsAreFatal`, `RioInv`, `BoundsInv`, `ResultInv`, `SocketsInv`,
`SocketsTypeOK` and `SioInv`. `StreamExact` alone is not inductive: what is
unread must lie inside the buffer and be nothing when `rio_readn` goes past it
(`BufferInv`), the counters of a loop must agree with
what is stored (`LoopInv`, `StoredInv`, `ReturnInv`), and a negative result must
have hidden nothing that is not accounted as a gap (`GapInv`). `ErrorsAreFatal`
needs of the sockets that where a walk may give up `errno` is that of the call
that failed last (`SocketsInv`). `ResultExact` needs that `rio_readlineb`, while
it runs, has stored no newline yet (`LineInv`), and the types need how far each
counter of each function can come (`BoundsInv`).

The text of a number, and what a text stands for, are recursive functions. That
such a function exists on `0 .. m` (`DigitsExist`), that its value at an argument
is the one of its definition (`DigitsIs`, `TotalIs`) and that the text of a number
stands for that number (`DigitsRead`) are inductions on numbers; each is done by
the least counterexample (`LeastNat`, from well-foundedness of `<` on the
naturals). `LtoaIs` adds the sign: the text is one of characters and its value
the number, the least `long` excepted, which the code negates into itself.

`StartupProofs` proves `EverythingInitialized` (`NothingBeforeInit`),
`StartupTypeCorrect` (`StartupTypeOK`) and `LoadsFirstRows` (`FirstRowsLoaded`)
for any command line, file and addresses, and from the last one
`EightRowsAreTheMaze`: a template of rows of one length becomes the maze, whole,
if it has exactly `POINTER` rows (`MazeIsTemplate`, for these files). For the first, `OrderInv` says of each
call of `main()` which modules, and whether the handler, must be there, and that
open sockets belong to the last calls only. The other two come from
`StartupInv`, of which `OrderInv` is one part:

* `PhaseInv`: the loader is as far as `main()` is;
* `TemplateInv`: the first pass has counted the lines read so far and holds the
  length of the last one (`CountInv`); the second has filled as many row buffers,
  each with its line and a `'\0'` behind it if every line ends in a newline
  (`ReadInv`, `RowInv`), since then `strlen()` in `maze_init` is that of the line
  (`StrlenOf`); and `maze_init` has copied as many rows (`InitInv`, `Copied`). A
  buffer has the size of the last line, and a longer line ends the program; of
  a file without a newline at its end only the lengths are known;
* `MainInv`: the types of `main()` and of a walk over the addresses; an address
  is being tried only while there is one (`WalkInv`).

The invariants `LockInv`, `ExactInv`, `ShutdownInv`, `MazeInv`, `SoloInv`,
`ServiceInv`, `StartupInv` and `CsappInv` were checked with TLC on the instances
of the runs before they were proved.

Only checked by TLC, on the instances of section 4:

* liveness (`SigHupTerminates`, `MazeReleased`, `PlacementFindsRoom`,
  `EverythingArrives`, `NoticedAtNextRequest`, `ClosedClientLeaves`,
  `CallReturns`): fairness is out of the prover's reach.

## 6. What is not modelled

* The internals of the player module: views, scores, chat, reference counts and
  the lock of a player. A thread that blocks in `write()` with a lock held, and
  a torn view, are hazards listed without a property for this reason.
* Which library locks the interrupted main thread holds when the SIGHUP handler
  calls `free()` and `exit()`.
* Where the accesses behind the row pointers (`main.c:99`, `:104`) and at
  `data[-1]` or behind `data` (`protocol.c:44`) land: this depends on the build.
* `malloc()` that returns NULL where the code does not test it (`main.c:96`),
  and `write()` that blocks.
* A second SIGHUP while the first is handled, by another thread.
* MOVE, FIRE and removal of a player who is logged in but was never placed
  (`server.c:47-51`): the row and column the player module starts with are in the
  binary.
* Of csapp: `setsockopt()`, whose result is not looked at, the contents of
  addresses, sizes of 0, and `Pthread_exit`.
* The test driver and the binary clients.
* `show_maze` and `show_view`, which only print.

## 7. Plan

Done: registry, accept loop and thread life, shutdown, maze, protocol, service
loop, the whole of csapp, the start of the server. What comes next:

1. `Server`: the composition of `Service` with `ClientRegistry` through
   `ServiceEnds`, so that logout, unregistration and `close()` are one order,
   also under SIGHUP.
2. `PlayerModule`: the contract of `player.h` (reference counts, a player's lock,
   views and their update by other players, chat to all), to be composed with
   `Service`. It can only be modelled from the header: its hazards, a reference
   that outlives `player_logout`, the order of two players' locks, a blocked
   `write()`, need the source of the binary to be more than a reading of it.
3. `proto_send_packet` as a module of its own with several writers on one
   connection (view updates and chat are sent by other players' threads).
4. Proofs of the invariants of these modules. Every safety invariant and action
   property of the runs that pass is now stated by a theorem.
