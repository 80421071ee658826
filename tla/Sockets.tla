------------------------------ MODULE Sockets ------------------------------
(***************************************************************************)
(* open_clientfd and open_listenfd of src/src/csapp.c:937-1065: both walk  *)
(* a list of addresses until one of them can be used, and must leave       *)
(* neither the sockets of the addresses that could not be used nor the     *)
(* list behind, wherever they fail.                                        *)
(*                                                                         *)
(* A step is one system call; socket() fails when no descriptor is left.   *)
(* The caller keeps the descriptors it gets and closes them at will.       *)
(* close() releases the descriptor even if it reports an error, as Linux   *)
(* does.  setsockopt(), whose result is not looked at, is left out.        *)
(***************************************************************************)
EXTENDS Wrappers

CONSTANTS Descriptor,   \* the descriptors of the process
          MaxAddresses  \* bound: the length of a list of addresses

ASSUME SocketsAssumption == /\ Descriptor \subseteq Nat
                            /\ MaxAddresses \in Nat \ {0}

VARIABLES
  open_pc,   \* the next system call, or "none"
  kind,      \* which of the two functions runs
  clientfd,  \* the socket of this address (listenfd in the other function)
  rest,      \* how many addresses there are from p on
  listp,     \* the list is allocated
  opened,    \* the sockets that are open
  held,      \* those that callers have been given
  why        \* history: the error of the last call that failed in the walk, or 0

socketVars == <<open_pc, kind, clientfd, rest, listp, opened, held, why>>

OpenPC == {"socket", "attach", "close", "cleanup", "listen"}
NOFD == -1

SocketsTypeOK ==
  /\ open_pc \in OpenPC \cup {"none"} /\ kind \in {"client", "listen", "none"}
  /\ clientfd \in Descriptor \cup {NOFD}
  /\ rest \in 0 .. MaxAddresses /\ listp \in BOOLEAN
  /\ opened \subseteq Descriptor /\ held \subseteq Descriptor
  /\ why \in ERRNO \cup {0}

NoAddresses == /\ open_pc = "none" /\ kind = "none" /\ clientfd = NOFD /\ rest = 0
               /\ why = 0
SocketsInit == NoAddresses /\ listp = FALSE /\ opened = {} /\ held = {}

At(pc) == status = RUNNING /\ open_pc = pc
Goto(pc) == open_pc' = pc /\ UNCHANGED <<status, message, cause, held>>
GoesTo(pc) == Goto(pc) /\ UNCHANGED kind

\* What open_clientfd and open_listenfd return: a descriptor, -1 or -2; err is
\* the error that has made them give up.  Open_clientfd and Open_listenfd take
\* any negative value for an error that errno tells of, and print errno.
Leave(rc, err) ==
  /\ open_pc' = "none" /\ kind' = "none" /\ clientfd' = NOFD /\ rest' = 0
  /\ why' = 0
  /\ \/ rc >= 0 /\ held' = held \cup {rc} /\ Returns /\ cause' = 0
     \/ rc < 0 /\ UNCHANGED held /\ Exits(0, errno') /\ cause' = err
     \/ rc < 0 /\ UNCHANGED held /\ Returns /\ cause' = 0

-----------------------------------------------------------------------------
\* getaddrinfo() succeeds with a list, or fails with a code of its own.
OpenCall(f) ==
  /\ At("none")
  /\ errno' \in ERRNO \cup {errno}
  /\ \/ /\ Goto("socket") /\ kind' = f
        /\ listp' = TRUE /\ rest' \in 1 .. MaxAddresses
        /\ UNCHANGED <<clientfd, why>>
     \/ Leave(-2, UNSET) /\ UNCHANGED listp
  /\ UNCHANGED opened

\* One turn of the loop.
NewSocket ==
  /\ At("socket") /\ rest > 0
  /\ \/ \E s \in Descriptor \ opened :
          /\ GoesTo("attach")
          /\ clientfd' = s /\ opened' = opened \cup {s}
          /\ UNCHANGED <<errno, rest, why>>
     \/ /\ GoesTo("socket")
        /\ errno' \in ERRNO \ {EINTR} /\ why' = errno' /\ rest' = rest - 1
        /\ UNCHANGED <<clientfd, opened>>
  /\ UNCHANGED listp

\* connect() or bind()
Attach ==
  /\ At("attach")
  /\ \/ GoesTo("cleanup") /\ UNCHANGED <<errno, why>>
     \/ GoesTo("close") /\ errno' \in ERRNO /\ why' = errno'
  /\ UNCHANGED <<clientfd, rest, listp, opened>>

\* Mutant: the socket of an address that could not be used stays open.
Forgets(s) == UNCHANGED opened

Closes(s) == opened' = opened \ {s}

\* The next address is tried; if close() fails, -1 is returned at once, and
\* the list is lost.
CloseSocket ==
  /\ At("close") /\ Closes(clientfd)
  /\ \/ GoesTo("socket") /\ rest' = rest - 1 /\ UNCHANGED <<errno, clientfd, why>>
     \/ errno' \in ERRNO /\ Leave(-1, errno')
  /\ UNCHANGED listp

\* freeaddrinfo(); no address was left, or the last one works.
Cleanup ==
  /\ At("cleanup") \/ (At("socket") /\ rest = 0)
  /\ listp' = FALSE
  /\ UNCHANGED <<errno, opened>>
  /\ \/ rest = 0 /\ Leave(-1, why)
     \/ rest > 0 /\ kind = "client" /\ Leave(clientfd, 0)
     \/ /\ rest > 0 /\ kind = "listen" /\ GoesTo("listen")
        /\ UNCHANGED <<clientfd, rest, why>>

\* If listen() fails, the close() that follows may fail as well and overwrite
\* the errno of listen().
ListenCall ==
  /\ At("listen")
  /\ \/ UNCHANGED <<errno, opened>> /\ Leave(clientfd, 0)
     \/ /\ errno' \in ERRNO /\ Closes(clientfd)
        /\ \E err \in {errno', UNSET} : Leave(-1, err)
  /\ UNCHANGED listp

OpenStep == NewSocket \/ Attach \/ CloseSocket \/ Cleanup \/ ListenCall

\* The caller is done with a socket.
CallerCloses(s) ==
  /\ At("none") /\ s \in held
  /\ held' = held \ {s} /\ opened' = opened \ {s}
  /\ UNCHANGED <<process, open_pc, kind, clientfd, rest, listp, why>>

SocketsNext == \/ \E f \in {"client", "listen"} : OpenCall(f)
               \/ OpenStep
               \/ \E s \in Descriptor : CallerCloses(s)

-----------------------------------------------------------------------------
\* Whatever fails in the walk over the addresses, and however often it is
\* made: a call that has returned leaves no socket open but the one it has
\* returned, and one that is running holds its own besides at most.
NoDescriptorLost ==
  /\ held \subseteq opened
  /\ opened \ held = IF open_pc \in {"attach", "close", "cleanup", "listen"}
                     THEN {clientfd} ELSE {}
=============================================================================
