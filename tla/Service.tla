------------------------------ MODULE Service ------------------------------
(***************************************************************************)
(* The service loop of mzw_client_service (src/src/server.c:20-94): one    *)
(* thread for every client checks for laser hits, receives a request and   *)
(* carries it out, until its connection has ended.                         *)
(*                                                                         *)
(* The threads meet in the players map, in the semaphore of the maze and   *)
(* in SIGUSR1, which the thread of a player that has been hit is sent at   *)
(* any point of its loop.  The signal interrupts read(), and sem_wait():   *)
(* the wrapper P() of csapp.c then ends the whole server.                  *)
(*                                                                         *)
(* The player module is linked as a binary; its operations are modelled    *)
(* from their use in server.c and maze.c and the contract in player.h.     *)
(* Abstractions: proto_recv_packet is one step, whose cases are those of   *)
(* module ProtocolRecv for whole packets; MOVE, TURN, REFRESH and SEND are *)
(* one request, "act", since they change nothing that is in this module.   *)
(***************************************************************************)
EXTENDS Integers

CONSTANTS Client, Avatar,
          NONE,      \* no client, no avatar
          Request,   \* what clients send: "login", "fire" and "act"
          BYTE,      \* 256
          MaxUnread  \* bound: requests on a connection that are not read yet

ASSUME NoneAssumption == NONE \notin Client \cup Avatar
ASSUME RequestAssumption == Request \subseteq {"login", "fire", "act"}
ASSUME BoundAssumption == BYTE \in Nat \ {0} /\ MaxUnread \in Nat \ {0}

VARIABLES
  pc,         \* each service thread: where it is in its loop
  loged_in,   \* loged_in is 0
  pkt,        \* pkt->type: the request received last
  target,     \* player_fire_laser: the avatar that maze_find_target returned
  unread,     \* the connection: how many requests can be read
  eof,        \* the connection: the client has closed it
  players,    \* the player module: the client of every avatar in use
  placed,     \* the player module: the client's avatar is in the maze
  hit,        \* the player module: a hit is recorded for the client
  pending,    \* SIGUSR1 was sent to the client's thread, not yet delivered
  mutex,      \* the semaphore of maze.c
  exited      \* a service thread has called exit()

network == <<unread, eof>>
player == <<players, placed, hit, pending>>
vars == <<pc, loged_in, pkt, target, network, player, mutex, exited>>

\* player_check_for_laser_hit runs with SIGUSR1 blocked.
MaskedPC == {"hit_P", "hit_place"}
PC == MaskedPC \cup {"check", "recv", "blocked", "dispatch", "ready",
                     "fire_P", "fire_V", "signal", "logout_P", "ended"}

TypeOK ==
  /\ pc \in [Client -> PC]
  /\ loged_in \in [Client -> BOOLEAN]
  /\ pkt \in [Client -> Request \cup {"none"}]
  /\ target \in [Client -> Avatar \cup {NONE}]
  /\ unread \in [Client -> 0 .. MaxUnread] /\ eof \in [Client -> BOOLEAN]
  /\ players \in [Avatar -> Client \cup {NONE}]
  /\ placed \in [Client -> BOOLEAN]
  /\ hit \in [Client -> BOOLEAN] /\ pending \in [Client -> BOOLEAN]
  /\ mutex \in {0, 1} /\ exited \in BOOLEAN

Init ==
  /\ pc = [c \in Client |-> "check"]
  /\ loged_in = [c \in Client |-> FALSE]
  /\ pkt = [c \in Client |-> "none"]
  /\ target = [c \in Client |-> NONE]
  /\ unread = [c \in Client |-> 0] /\ eof = [c \in Client |-> FALSE]
  /\ players = [a \in Avatar |-> NONE]
  /\ placed = [c \in Client |-> FALSE]
  /\ hit = [c \in Client |-> FALSE] /\ pending = [c \in Client |-> FALSE]
  /\ mutex = 1 /\ exited = FALSE

Goto(c, from, to) == ~exited /\ pc[c] = from /\ pc' = [pc EXCEPT ![c] = to]
Set(f, c, v) == [f EXCEPT ![c] = v]

-----------------------------------------------------------------------------
(* The clients                                                             *)

ClientSend(c) ==
  /\ ~exited /\ ~eof[c] /\ pc[c] # "ended" /\ unread[c] < MaxUnread
  /\ unread' = Set(unread, c, unread[c] + 1)
  /\ UNCHANGED <<pc, loged_in, pkt, target, eof, player, mutex, exited>>

ClientClose(c) ==
  /\ ~exited /\ ~eof[c] /\ eof' = Set(eof, c, TRUE)
  /\ UNCHANGED <<pc, loged_in, pkt, target, unread, player, mutex, exited>>

\* A new connection, served by a new thread.
ClientConnect(c) ==
  /\ Goto(c, "ended", "check")
  /\ eof' = Set(eof, c, FALSE)
  /\ UNCHANGED <<loged_in, pkt, target, unread, player, mutex, exited>>

-----------------------------------------------------------------------------
(* player_check_for_laser_hit: a player that was hit is taken out of the   *)
(* maze and placed again.                                                  *)

\* Mutant: the check comes once, before the login.
ChecksOnlyBefore(c) == ~loged_in[c]

Checks(c) == loged_in[c]

CheckNoHit(c) ==
  /\ ~(Checks(c) /\ hit[c])
  /\ Goto(c, "check", "recv")
  /\ UNCHANGED <<loged_in, pkt, target, network, player, mutex, exited>>

CheckHit(c) ==
  /\ Checks(c) /\ hit[c]
  /\ Goto(c, "check", "hit_P")
  /\ hit' = Set(hit, c, FALSE)
  /\ UNCHANGED <<loged_in, pkt, target, network, players, placed, pending,
                 mutex, exited>>

\* maze_remove_player
HitRemove(c) ==
  /\ mutex = 1
  /\ Goto(c, "hit_P", "hit_place")
  /\ placed' = Set(placed, c, FALSE)
  /\ UNCHANGED <<loged_in, pkt, target, network, players, hit, pending,
                 mutex, exited>>

\* player_reset
HitPlace(c) ==
  /\ Goto(c, "hit_place", "recv")
  /\ placed' = Set(placed, c, TRUE)
  /\ UNCHANGED <<loged_in, pkt, target, network, players, hit, pending,
                 mutex, exited>>

-----------------------------------------------------------------------------
(* proto_recv_packet                                                       *)

Receiving == {"recv", "blocked"}

\* Whatever the client has sent.
RecvRequest(c) ==
  /\ unread[c] > 0
  /\ \E from \in Receiving : Goto(c, from, "dispatch")
  /\ \E r \in Request : pkt' = Set(pkt, c, r)
  /\ unread' = Set(unread, c, unread[c] - 1)
  /\ UNCHANGED <<loged_in, target, eof, player, mutex, exited>>

\* read() finds nothing and waits.
RecvBlock(c) ==
  /\ unread[c] = 0 /\ ~eof[c]
  /\ Goto(c, "recv", "blocked")
  /\ UNCHANGED <<loged_in, pkt, target, network, player, mutex, exited>>

\* Mutant: the player stays in the map.
LogoutForgotten(c) == FALSE

LogsOut(c) == loged_in[c]

\* A nonzero value ends the loop: player_logout, if the client is logged in.
RecvEnds(c) ==
  /\ unread[c] = 0 /\ eof[c]
  /\ \E from \in Receiving :
       Goto(c, from, IF LogsOut(c) THEN "logout_P" ELSE "ended")
  /\ loged_in' = Set(loged_in, c, FALSE)
  /\ pkt' = Set(pkt, c, "none")
  /\ UNCHANGED <<target, network, player, mutex, exited>>

\* player_logout: the avatar leaves the maze and the players map.
Logout(c) ==
  /\ mutex = 1
  /\ Goto(c, "logout_P", "ended")
  /\ players' = [a \in Avatar |-> IF players[a] = c THEN NONE ELSE players[a]]
  /\ placed' = Set(placed, c, FALSE)
  /\ hit' = Set(hit, c, FALSE) /\ pending' = Set(pending, c, FALSE)
  /\ UNCHANGED <<loged_in, pkt, target, network, mutex, exited>>

-----------------------------------------------------------------------------
(* LOGIN                                                                   *)

\* Mutant: every LOGIN is honored.
LoginAlways(c) == pkt[c] = "login"

HonorsLogin(c) == pkt[c] = "login" /\ ~loged_in[c]

\* player_login gives the client an avatar that is not in use...
LoginSucceeds(c) ==
  /\ HonorsLogin(c)
  /\ Goto(c, "dispatch", "ready")
  /\ \E a \in Avatar : players[a] = NONE /\ players' = Set(players, a, c)
  /\ UNCHANGED <<loged_in, pkt, target, network, placed, hit, pending, mutex,
                 exited>>

\* ... or fails because of an avatar that is in use: INUSE is sent.
LoginFails(c) ==
  /\ HonorsLogin(c)
  /\ Goto(c, "dispatch", "check")
  /\ \E a \in Avatar : players[a] # NONE
  /\ UNCHANGED <<loged_in, pkt, target, network, player, mutex, exited>>

Swap(n) == (n % BYTE) * BYTE + n \div BYTE

\* proto_send_packet with data: the header is written whole, or not, and the
\* number of bytes written of the payload is compared with the swapped size.
SendReturnsZero(size, header, written) == header /\ written = Swap(size)

\* Mutant: only a client that got its READY packet is logged in.
LogsInIfReady(sent) == sent

\* loged_in = 0, whatever became of the READY packet.
LogsIn(sent) == TRUE

\* The size of the READY packet is uninitialized, and its data is not NULL.
\* Only if the call returns zero is the player placed, by player_reset.
Ready(c) ==
  /\ Goto(c, "ready", "check")
  /\ \E size \in 0 .. BYTE * BYTE - 1, header \in BOOLEAN :
     \E written \in -1 .. size :
       LET sent == SendReturnsZero(size, header, written)
       IN  /\ placed' = Set(placed, c, sent)
           /\ loged_in' = Set(loged_in, c, LogsIn(sent))
  /\ UNCHANGED <<pkt, target, network, players, hit, pending, mutex, exited>>

-----------------------------------------------------------------------------
(* The other requests                                                      *)

\* MOVE, TURN, REFRESH and SEND, and what is not honored.
Act(c) ==
  /\ ~HonorsLogin(c) /\ ~(pkt[c] = "fire" /\ loged_in[c])
  /\ Goto(c, "dispatch", "check")
  /\ UNCHANGED <<loged_in, pkt, target, network, player, mutex, exited>>

\* Mutant: the P() is missing.
PForgotten == mutex' = mutex

P == mutex > 0 /\ mutex' = mutex - 1
V == mutex' = mutex + 1

\* player_fire_laser: maze_find_target holds the semaphore of the maze,
Fire(c) ==
  /\ pkt[c] = "fire" /\ loged_in[c]
  /\ Goto(c, "dispatch", "fire_P")
  /\ UNCHANGED <<loged_in, pkt, target, network, player, mutex, exited>>

FireP(c) ==
  /\ Goto(c, "fire_P", "fire_V")
  /\ P
  /\ UNCHANGED <<loged_in, pkt, target, network, player, exited>>

\* finds an avatar that is in the maze, or none,
FireV(c) ==
  /\ \/ Goto(c, "fire_V", "check") /\ UNCHANGED target
     \/ Goto(c, "fire_V", "signal")
        /\ \E a \in Avatar : /\ players[a] \in Client \ {c} /\ placed[players[a]]
                             /\ target' = Set(target, c, a)
  /\ V
  /\ UNCHANGED <<loged_in, pkt, network, player, exited>>

\* and the thread of the player with that avatar, if there is still one, is
\* sent SIGUSR1.
Signal(c) ==
  /\ Goto(c, "signal", "check")
  /\ pending' = [d \in Client |-> pending[d] \/ players[target[c]] = d]
  /\ target' = Set(target, c, NONE)
  /\ UNCHANGED <<loged_in, pkt, network, players, placed, hit, mutex, exited>>

-----------------------------------------------------------------------------
(* SIGUSR1 is delivered: the handler records the hit.                      *)

Handler(c) ==
  /\ ~exited /\ pending[c] /\ pc[c] \notin MaskedPC
  /\ pending' = Set(pending, c, FALSE)
  /\ hit' = Set(hit, c, TRUE)

\* The thread goes on where it was: it is not in a call that can be
\* interrupted, or has not entered it yet.
HitBetweenCalls(c) ==
  /\ Handler(c) /\ pc[c] # "blocked"
  /\ UNCHANGED <<pc, loged_in, pkt, target, network, players, placed, mutex,
                 exited>>

\* read() fails with EINTR: proto_recv_packet returns zero, pkt is unchanged.
HitInRead(c) ==
  /\ Handler(c) /\ Goto(c, "blocked", "dispatch")
  /\ UNCHANGED <<loged_in, pkt, target, network, players, placed, mutex, exited>>

\* sem_wait() fails with EINTR: P() calls unix_error(), which calls exit().
HitInP(c) ==
  /\ Handler(c) /\ pc[c] \in {"fire_P", "logout_P"} /\ mutex = 0
  /\ exited' = TRUE
  /\ UNCHANGED <<pc, loged_in, pkt, target, network, players, placed, mutex>>

-----------------------------------------------------------------------------
Connection(c) == ClientSend(c) \/ ClientClose(c) \/ ClientConnect(c)

Wait(c) == HitRemove(c) \/ Logout(c) \/ FireP(c)

Loop(c) ==
  \/ CheckNoHit(c) \/ CheckHit(c) \/ HitPlace(c)
  \/ RecvRequest(c) \/ RecvBlock(c) \/ RecvEnds(c)
  \/ LoginSucceeds(c) \/ LoginFails(c) \/ Ready(c)
  \/ Act(c) \/ Fire(c) \/ FireV(c) \/ Signal(c)

Deliver(c) == HitBetweenCalls(c) \/ HitInRead(c) \/ HitInP(c)

Next == \E c \in Client : Connection(c) \/ Loop(c) \/ Wait(c) \/ Deliver(c)

Spec == Init /\ [][Next]_vars

\* Threads are scheduled, and a semaphore that is released again and again is
\* obtained.  Clients may fall silent, and signals may be late.
Fairness == \A c \in Client : WF_vars(Loop(c)) /\ SF_vars(Wait(c))
FairSpec == Spec /\ Fairness

-----------------------------------------------------------------------------
(* Properties                                                              *)

InMap(c) == \E a \in Avatar : players[a] = c

\* Every avatar in the players map belongs to one running service thread that
\* will log it out: the flag loged_in and the map agree at every request, a
\* connection has one avatar at most, and only players in the map are in the
\* maze, whatever becomes of the READY packet.
PlayersExact ==
  /\ \A a, b \in Avatar : players[a] = players[b] /\ players[a] # NONE => a = b
  /\ \A c \in Client :
       /\ pc[c] \in {"check", "recv", "blocked", "dispatch", "ended"}
            => (InMap(c) <=> loged_in[c])
       /\ placed[c] => InMap(c)

\* A hit is noticed if the client has sent another request: every turn of the
\* loop begins with the check.
NoticedAtNextRequest == \A c \in Client :
  hit[c] /\ unread[c] > 0 ~> ~hit[c] \/ exited

\* A client that has closed its connection leaves the game.
ClosedClientLeaves == \A c \in Client : eof[c] ~> ~InMap(c) \/ exited

\* player.h:279-283: the check before each attempt to read the next packet
\* ensures that any hits that have occurred are noticed in a prompt fashion.
HitsNoticed == \A c \in Client : hit[c] ~> ~hit[c] \/ exited
=============================================================================
