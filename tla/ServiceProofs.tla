--------------------------- MODULE ServiceProofs ---------------------------
(***************************************************************************)
(* The players map and the flag loged_in of every service thread agree,    *)
(* for any number of clients and avatars.                                  *)
(***************************************************************************)
EXTENDS Service, TLAPS

\* The semaphore is held between FireP and FireV only: the other operations
\* that take it are one step each.
MutexInv ==
  /\ \A c, d \in Client : pc[c] = "fire_V" /\ pc[d] = "fire_V" => c = d
  /\ mutex = 0 <=> \E c \in Client : pc[c] = "fire_V"

OneAvatar == \A a, b \in Avatar :
  players[a] = players[b] /\ players[a] # NONE => a = b

\* Between player_login and loged_in = 0, and between the end of the loop and
\* player_logout, the map is ahead of the flag; otherwise they agree.
ClientInv(c) ==
  /\ pc[c] \in {"ready", "logout_P"} => InMap(c) /\ ~loged_in[c]
  /\ pc[c] \notin {"ready", "logout_P"} => (InMap(c) <=> loged_in[c])
  /\ pc[c] \in {"hit_P", "hit_place", "fire_P", "fire_V", "signal"}
       => loged_in[c]
  /\ placed[c] => InMap(c)

ServiceInv == /\ TypeOK /\ MutexInv /\ OneAvatar
              /\ \A c \in Client : ClientInv(c)

LEMMA InitServiceInv == Init => ServiceInv
<1> SUFFICES ASSUME Init PROVE ServiceInv
  OBVIOUS
<1> USE NoneAssumption, BoundAssumption DEF Init
<1>1. TypeOK
  <2>1. pc \in [Client -> PC] /\ unread \in [Client -> 0 .. MaxUnread]
    BY DEF PC
  <2>2. /\ pkt \in [Client -> Request \cup {"none"}]
        /\ target \in [Client -> Avatar \cup {NONE}]
        /\ players \in [Avatar -> Client \cup {NONE}]
    OBVIOUS
  <2>3. /\ loged_in \in [Client -> BOOLEAN] /\ eof \in [Client -> BOOLEAN]
        /\ placed \in [Client -> BOOLEAN]
        /\ hit \in [Client -> BOOLEAN] /\ pending \in [Client -> BOOLEAN]
    OBVIOUS
  <2>. QED
    BY <2>1, <2>2, <2>3 DEF TypeOK
<1>2. MutexInv /\ OneAvatar
  BY DEF MutexInv, OneAvatar
<1>3. ASSUME NEW c \in Client PROVE ClientInv(c)
  BY DEF ClientInv, InMap
<1>. QED
  BY <1>1, <1>2, <1>3 DEF ServiceInv

-----------------------------------------------------------------------------
(* What a step of one thread leaves alone                                  *)

Frame(c) == \A d \in Client \ {c} :
  /\ pc'[d] = pc[d] /\ loged_in'[d] = loged_in[d] /\ placed'[d] = placed[d]
  /\ InMap(d)' <=> InMap(d)

LEMMA OtherClients ==
  ASSUME NEW c \in Client, Frame(c), \A d \in Client : ClientInv(d),
         ClientInv(c)'
  PROVE  \A d \in Client : ClientInv(d)'
<1> SUFFICES ASSUME NEW d \in Client \ {c} PROVE ClientInv(d)'
  OBVIOUS
<1>. QED
  BY DEF Frame, ClientInv

\* A step that leaves the players map and the semaphore alone.
LEMMA MapStep ==
  ASSUME ServiceInv, NEW c \in Client, TypeOK',
         UNCHANGED <<players, mutex>>,
         \A d \in Client \ {c} : /\ pc'[d] = pc[d]
                                 /\ loged_in'[d] = loged_in[d]
                                 /\ placed'[d] = placed[d],
         pc[c] # "fire_V", pc'[c] # "fire_V",
         ClientInv(c)'
  PROVE  ServiceInv'
<1>1. Frame(c)
  BY DEF Frame, InMap
<1>2. \A d \in Client : ClientInv(d)'
  BY <1>1, OtherClients DEF ServiceInv
<1>3. MutexInv'
  BY DEF ServiceInv, MutexInv
<1>4. OneAvatar'
  BY DEF ServiceInv, OneAvatar
<1>. QED
  BY <1>2, <1>3, <1>4 DEF ServiceInv

-----------------------------------------------------------------------------
(* The steps, in the order of the loop                                     *)

LEMMA ConnectionInv ==
  ASSUME ServiceInv, NEW c \in Client, Connection(c)
  PROVE  ServiceInv'
<1> USE BoundAssumption DEF player, network, Set
<1>1. CASE ClientSend(c)
  <2>1. TypeOK'
    BY <1>1 DEF ServiceInv, TypeOK, ClientSend
  <2>. QED
    BY <1>1, <2>1 DEF ClientSend, ServiceInv, MutexInv, OneAvatar, ClientInv,
                      InMap
<1>2. CASE ClientClose(c)
  <2>1. TypeOK'
    BY <1>2 DEF ServiceInv, TypeOK, ClientClose
  <2>. QED
    BY <1>2, <2>1 DEF ClientClose, ServiceInv, MutexInv, OneAvatar, ClientInv,
                      InMap
<1>3. CASE ClientConnect(c)
  <2> USE <1>3 DEF ClientConnect, Goto
  <2>1. TypeOK'
    BY DEF ServiceInv, TypeOK, PC
  <2>2. ClientInv(c)'
    BY DEF ServiceInv, TypeOK, ClientInv, InMap
  <2>. QED
    BY <2>1, <2>2, MapStep DEF ServiceInv, TypeOK
<1>. QED
  BY <1>1, <1>2, <1>3 DEF Connection

LEMMA CheckInv ==
  ASSUME ServiceInv, NEW c \in Client,
         CheckNoHit(c) \/ CheckHit(c) \/ HitRemove(c) \/ HitPlace(c)
  PROVE  ServiceInv'
<1> USE DEF Goto, player, network, Set
<1>1. CASE CheckNoHit(c)
  <2> USE <1>1 DEF CheckNoHit
  <2>1. TypeOK'
    BY DEF ServiceInv, TypeOK, PC
  <2>2. ClientInv(c)'
    BY DEF ServiceInv, TypeOK, ClientInv, InMap
  <2>. QED
    BY <2>1, <2>2, MapStep DEF ServiceInv, TypeOK
<1>2. CASE CheckHit(c)
  <2> USE <1>2 DEF CheckHit, Checks
  <2>1. TypeOK'
    BY DEF ServiceInv, TypeOK, PC, MaskedPC
  <2>2. ClientInv(c)'
    BY DEF ServiceInv, TypeOK, ClientInv, InMap
  <2>. QED
    BY <2>1, <2>2, MapStep DEF ServiceInv, TypeOK
<1>3. CASE HitRemove(c)
  <2> USE <1>3 DEF HitRemove
  <2>1. TypeOK'
    BY DEF ServiceInv, TypeOK, PC, MaskedPC
  <2>2. ClientInv(c)'
    BY DEF ServiceInv, TypeOK, ClientInv, InMap
  <2>. QED
    BY <2>1, <2>2, MapStep DEF ServiceInv, TypeOK
<1>4. CASE HitPlace(c)
  <2> USE <1>4 DEF HitPlace
  <2>1. TypeOK'
    BY DEF ServiceInv, TypeOK, PC
  <2>2. ClientInv(c)'
    BY DEF ServiceInv, TypeOK, ClientInv, InMap
  <2>. QED
    BY <2>1, <2>2, MapStep DEF ServiceInv, TypeOK
<1>. QED
  BY <1>1, <1>2, <1>3, <1>4

LEMMA RecvInv ==
  ASSUME ServiceInv, NEW c \in Client,
         RecvRequest(c) \/ RecvBlock(c) \/ RecvEnds(c) \/ Logout(c)
  PROVE  ServiceInv'
<1> USE BoundAssumption DEF Goto, player, network, Set
<1>1. CASE RecvRequest(c)
  <2> USE <1>1 DEF RecvRequest, Receiving
  <2>1. TypeOK'
    BY DEF ServiceInv, TypeOK, PC
  <2>2. ClientInv(c)'
    BY DEF ServiceInv, TypeOK, ClientInv, InMap
  <2>. QED
    BY <2>1, <2>2, MapStep DEF ServiceInv, TypeOK
<1>2. CASE RecvBlock(c)
  <2> USE <1>2 DEF RecvBlock
  <2>1. TypeOK'
    BY DEF ServiceInv, TypeOK, PC
  <2>2. ClientInv(c)'
    BY DEF ServiceInv, TypeOK, ClientInv, InMap
  <2>. QED
    BY <2>1, <2>2, MapStep DEF ServiceInv, TypeOK
<1>3. CASE RecvEnds(c)
  <2> USE <1>3 DEF RecvEnds, Receiving, LogsOut
  <2>1. TypeOK'
    BY DEF ServiceInv, TypeOK, PC
  <2>2. ClientInv(c)'
    BY DEF ServiceInv, TypeOK, ClientInv, InMap
  <2>. QED
    BY <2>1, <2>2, MapStep DEF ServiceInv, TypeOK
<1>4. CASE Logout(c)
  <2> USE <1>4, NoneAssumption DEF Logout
  <2>1. TypeOK'
    BY DEF ServiceInv, TypeOK, PC
  <2>2. ~InMap(c)' /\ \A d \in Client \ {c} : InMap(d)' <=> InMap(d)
    BY DEF ServiceInv, TypeOK, InMap
  <2>3. Frame(c)
    BY <2>2 DEF ServiceInv, TypeOK, Frame
  <2>4. ClientInv(c)'
    BY <2>2 DEF ServiceInv, TypeOK, ClientInv
  <2>5. \A d \in Client : ClientInv(d)'
    BY <2>3, <2>4, OtherClients DEF ServiceInv
  <2>6. MutexInv' /\ OneAvatar'
    BY DEF ServiceInv, TypeOK, MutexInv, OneAvatar
  <2>. QED
    BY <2>1, <2>5, <2>6 DEF ServiceInv
<1>. QED
  BY <1>1, <1>2, <1>3, <1>4

LEMMA LoginInv ==
  ASSUME ServiceInv, NEW c \in Client,
         LoginSucceeds(c) \/ LoginFails(c) \/ Ready(c)
  PROVE  ServiceInv'
<1> USE DEF Goto, player, network, Set
<1>1. CASE LoginSucceeds(c)
  <2> USE <1>1, NoneAssumption DEF LoginSucceeds, HonorsLogin
  <2>1. PICK a \in Avatar : players[a] = NONE /\ players' = Set(players, a, c)
    OBVIOUS
  <2>2. ~InMap(c) /\ ~placed[c]
    BY DEF ServiceInv, ClientInv
  <2>3. TypeOK'
    BY <2>1 DEF ServiceInv, TypeOK, PC
  <2>4. InMap(c)' /\ \A d \in Client \ {c} : InMap(d)' <=> InMap(d)
    BY <2>1 DEF ServiceInv, TypeOK, InMap
  <2>5. Frame(c)
    BY <2>4 DEF ServiceInv, TypeOK, Frame
  <2>6. ClientInv(c)'
    BY <2>2, <2>4 DEF ServiceInv, TypeOK, ClientInv
  <2>7. \A d \in Client : ClientInv(d)'
    BY <2>5, <2>6, OtherClients DEF ServiceInv
  <2>8. OneAvatar'
    BY <2>1, <2>2 DEF ServiceInv, TypeOK, OneAvatar, InMap
  <2>9. MutexInv'
    BY DEF ServiceInv, TypeOK, MutexInv
  <2>. QED
    BY <2>3, <2>7, <2>8, <2>9 DEF ServiceInv
<1>2. CASE LoginFails(c)
  <2> USE <1>2 DEF LoginFails, HonorsLogin
  <2>1. TypeOK'
    BY DEF ServiceInv, TypeOK, PC
  <2>2. ClientInv(c)'
    BY DEF ServiceInv, TypeOK, ClientInv, InMap
  <2>. QED
    BY <2>1, <2>2, MapStep DEF ServiceInv, TypeOK
<1>3. CASE Ready(c)
  <2>1. PICK sent \in BOOLEAN :
          /\ placed' = Set(placed, c, sent)
          /\ loged_in' = Set(loged_in, c, TRUE)
    BY <1>3 DEF Ready, SendReturnsZero, LogsIn
  <2> USE <1>3, <2>1 DEF Ready
  <2>2. TypeOK'
    BY DEF ServiceInv, TypeOK, PC
  <2>3. ClientInv(c)'
    BY DEF ServiceInv, TypeOK, ClientInv, InMap
  <2>. QED
    BY <2>2, <2>3, MapStep DEF ServiceInv, TypeOK
<1>. QED
  BY <1>1, <1>2, <1>3

LEMMA RequestInv ==
  ASSUME ServiceInv, NEW c \in Client,
         Act(c) \/ Fire(c) \/ FireP(c) \/ FireV(c) \/ Signal(c)
  PROVE  ServiceInv'
<1> USE DEF Goto, player, network, Set
<1>1. CASE Act(c)
  <2> USE <1>1 DEF Act
  <2>1. TypeOK'
    BY DEF ServiceInv, TypeOK, PC
  <2>2. ClientInv(c)'
    BY DEF ServiceInv, TypeOK, ClientInv, InMap
  <2>. QED
    BY <2>1, <2>2, MapStep DEF ServiceInv, TypeOK
<1>2. CASE Fire(c)
  <2> USE <1>2 DEF Fire
  <2>1. TypeOK'
    BY DEF ServiceInv, TypeOK, PC
  <2>2. ClientInv(c)'
    BY DEF ServiceInv, TypeOK, ClientInv, InMap
  <2>. QED
    BY <2>1, <2>2, MapStep DEF ServiceInv, TypeOK
<1>3. CASE FireP(c)
  <2> USE <1>3 DEF FireP, P
  <2>1. MutexInv' /\ mutex' \in {0, 1}
    BY DEF ServiceInv, TypeOK, MutexInv
  <2>2. TypeOK'
    BY <2>1 DEF ServiceInv, TypeOK, PC
  <2>3. Frame(c) /\ OneAvatar'
    BY DEF ServiceInv, TypeOK, Frame, InMap, OneAvatar
  <2>4. ClientInv(c)'
    BY DEF ServiceInv, TypeOK, ClientInv, InMap
  <2>5. \A d \in Client : ClientInv(d)'
    BY <2>3, <2>4, OtherClients DEF ServiceInv
  <2>. QED
    BY <2>1, <2>2, <2>3, <2>5 DEF ServiceInv
<1>4. CASE FireV(c)
  <2> USE <1>4 DEF FireV, V
  <2>1. MutexInv' /\ mutex' \in {0, 1}
    BY DEF ServiceInv, TypeOK, MutexInv
  <2>2. TypeOK'
    BY <2>1 DEF ServiceInv, TypeOK, PC
  <2>3. Frame(c) /\ OneAvatar'
    BY DEF ServiceInv, TypeOK, Frame, InMap, OneAvatar
  <2>4. ClientInv(c)'
    BY DEF ServiceInv, TypeOK, ClientInv, InMap
  <2>5. \A d \in Client : ClientInv(d)'
    BY <2>3, <2>4, OtherClients DEF ServiceInv
  <2>. QED
    BY <2>1, <2>2, <2>3, <2>5 DEF ServiceInv
<1>5. CASE Signal(c)
  <2> USE <1>5 DEF Signal
  <2>1. TypeOK'
    BY DEF ServiceInv, TypeOK, PC
  <2>2. ClientInv(c)'
    BY DEF ServiceInv, TypeOK, ClientInv, InMap
  <2>. QED
    BY <2>1, <2>2, MapStep DEF ServiceInv, TypeOK
<1>. QED
  BY <1>1, <1>2, <1>3, <1>4, <1>5

LEMMA DeliverInv ==
  ASSUME ServiceInv, NEW c \in Client, Deliver(c)
  PROVE  ServiceInv'
<1> USE DEF Handler, network, Set
<1>1. CASE HitBetweenCalls(c)
  <2>1. TypeOK'
    BY <1>1 DEF ServiceInv, TypeOK, HitBetweenCalls
  <2>. QED
    BY <1>1, <2>1 DEF HitBetweenCalls, ServiceInv, MutexInv, OneAvatar,
                      ClientInv, InMap
<1>2. CASE HitInRead(c)
  <2> USE <1>2 DEF HitInRead, Goto
  <2>1. TypeOK'
    BY DEF ServiceInv, TypeOK, PC
  <2>2. ClientInv(c)'
    BY DEF ServiceInv, TypeOK, ClientInv, InMap
  <2>. QED
    BY <2>1, <2>2, MapStep DEF ServiceInv, TypeOK
<1>3. CASE HitInP(c)
  <2>1. TypeOK'
    BY <1>3 DEF ServiceInv, TypeOK, HitInP
  <2>. QED
    BY <1>3, <2>1 DEF HitInP, ServiceInv, MutexInv, OneAvatar, ClientInv, InMap
<1>. QED
  BY <1>1, <1>2, <1>3 DEF Deliver

-----------------------------------------------------------------------------
LEMMA NextServiceInv == ServiceInv /\ [Next]_vars => ServiceInv'
<1> SUFFICES ASSUME ServiceInv, [Next]_vars PROVE ServiceInv'
  OBVIOUS
<1>1. ASSUME NEW c \in Client, Connection(c) \/ Loop(c) \/ Wait(c) \/ Deliver(c)
      PROVE  ServiceInv'
  BY <1>1, ConnectionInv, CheckInv, RecvInv, LoginInv, RequestInv, DeliverInv
     DEF Loop, Wait
<1>2. CASE UNCHANGED vars
  BY <1>2 DEF vars, network, player, ServiceInv, TypeOK, MutexInv, OneAvatar,
              ClientInv, InMap
<1>. QED
  BY <1>1, <1>2 DEF Next

LEMMA ServiceInvariant == Spec => []ServiceInv
<1>. QED
  BY InitServiceInv, NextServiceInv, PTL DEF Spec

\* The state of the service threads, of the players map and of the semaphore
\* of the maze keeps its type, for any number of clients.
THEOREM ServiceTypeCorrect == Spec => []TypeOK
<1>1. ServiceInv => TypeOK
  BY DEF ServiceInv
<1>. QED
  BY <1>1, ServiceInvariant, PTL

\* The players map and the threads' flags loged_in agree at every request, and
\* every avatar in the maze or in the map has a thread that will log it out,
\* whatever becomes of READY packets, signals and connections, for any number
\* of clients and avatars.
THEOREM PlayersMapExact == Spec => []PlayersExact
<1>1. ServiceInv => PlayersExact
  BY DEF ServiceInv, OneAvatar, ClientInv, PlayersExact
<1>. QED
  BY <1>1, ServiceInvariant, PTL
=============================================================================
