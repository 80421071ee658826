---------------------------- MODULE ProtocolRecv ----------------------------
(***************************************************************************)
(* proto_recv_packet (src/src/protocol.c:28-56) called again and again by  *)
(* the service loop on a TCP connection, until it returns nonzero.         *)
(*                                                                         *)
(* The connection is a stream.  A header is two units on it, "head" (type  *)
(* and parameters) and "tail" (size and timestamps), a payload is one unit *)
(* per unit of size; a packet is named by its number.  The size field is   *)
(* two digits to the base BYTE, which ntohs() exchanges.                   *)
(*                                                                         *)
(* The structure that pkt points to and the variable that datap points to  *)
(* live across the calls, and so does errno: a call leaves in them what it *)
(* does not overwrite.  Both are uninitialized before the first call.      *)
(***************************************************************************)
EXTENDS Integers, Sequences, SequencesExt

CONSTANTS BYTE,         \* 256
          Sizes,        \* the payload sizes clients use
          MaxSent,      \* bound: packets sent
          MaxSignals    \* bound: SIGUSR1 that interrupt a system call

ASSUME BoundAssumption == /\ BYTE \in Nat \ {0}
                          /\ Sizes \subseteq 0 .. BYTE * BYTE - 1
                          /\ MaxSent \in Nat /\ MaxSignals \in Nat

VARIABLES
  sent,       \* the size of each packet the client has sent
  wire,       \* what the network has not delivered yet
  buffer,     \* what the socket holds for read()
  eof,        \* the client has closed the connection
  reset,      \* the connection is broken: read() fails
  pc,         \* the next step of the thread
  pkt,        \* *pkt: whose type and parameters, and the size field
  datap,      \* *datap: whose payload, 0 for a value that was never set
  errno,
  signals,    \* SIGUSR1 delivered so far
  received,   \* what the calls that returned zero have left in pkt and datap
  whole       \* history: every packet has arrived in one piece

client == <<sent, eof, reset>>
server == <<pc, pkt, datap, errno, received>>
vars == <<client, wire, buffer, server, signals, whole>>

\* Mutant: the low digit stays.
SwapKeepsLow(n) == (n % BYTE) * BYTE + n

Swap(n) == (n % BYTE) * BYTE + n \div BYTE
EINTR == 4
ECONNRESET == 104
HeaderSize == 2

Token == [of : 1 .. MaxSent, part : {"head", "tail", "payload"}]
Contents == [of : 0 .. MaxSent, size : 0 .. BYTE * BYTE - 1]

TypeOK ==
  /\ sent \in Seq(Sizes) /\ Len(sent) <= MaxSent
  /\ wire \in Seq(Token) /\ buffer \in Seq(Token)
  /\ eof \in BOOLEAN /\ reset \in BOOLEAN
  /\ pc \in {"header", "payload", "failed"}
  /\ pkt \in Contents
  /\ datap \in 0 .. MaxSent
  /\ errno \in {0, EINTR, ECONNRESET}
  /\ signals \in 0 .. MaxSignals /\ whole \in BOOLEAN
  /\ received \in Seq([of : 0 .. MaxSent, size : 0 .. BYTE * BYTE - 1,
                       data : 0 .. MaxSent])

\* No signal is sent to a thread before its player is logged in, that is
\* before the first packet: the uninitialized *pkt is never returned.
Init ==
  /\ sent = <<>> /\ wire = <<>> /\ buffer = <<>>
  /\ eof = FALSE /\ reset = FALSE
  /\ pc = "header"
  /\ pkt = [of |-> 0, size |-> 0]
  /\ datap = 0 /\ errno = 0 /\ signals = 0
  /\ received = <<>> /\ whole = TRUE

-----------------------------------------------------------------------------
(* The client and the network                                              *)

Tokens(n, size) ==
  <<[of |-> n, part |-> "head"], [of |-> n, part |-> "tail"]>>
    \o [k \in 1 .. size |-> [of |-> n, part |-> "payload"]]

ClientSend ==
  /\ ~eof /\ ~reset /\ Len(sent) < MaxSent
  /\ \E size \in Sizes :
        /\ sent' = Append(sent, size)
        /\ wire' = wire \o Tokens(Len(sent) + 1, size)
  /\ UNCHANGED <<eof, reset, buffer, server, signals, whole>>

ClientClose ==
  /\ ~eof /\ eof' = TRUE
  /\ UNCHANGED <<sent, reset, wire, buffer, server, signals, whole>>

ConnectionBreaks ==
  /\ ~reset /\ reset' = TRUE
  /\ wire' = <<>> /\ buffer' = <<>>
  /\ UNCHANGED <<sent, eof, server, signals, whole>>

\* The network delivers any number of bytes.
Deliver ==
  \E n \in 1 .. Len(wire) :
    /\ whole' = (whole /\ (n < Len(wire) => wire[n + 1].part = "head"))
    /\ buffer' = buffer \o SubSeq(wire, 1, n)
    /\ wire' = SubSeq(wire, n + 1, Len(wire))
    /\ UNCHANGED <<client, server, signals>>

\* A blocking write() or sleep() of the same thread is interrupted between
\* two receptions, and nobody resets errno.
OtherCallInterrupted ==
  /\ pc = "header" /\ received # <<>> /\ signals < MaxSignals
  /\ errno' = EINTR /\ signals' = signals + 1
  /\ UNCHANGED <<client, wire, buffer, pc, pkt, datap, received, whole>>

-----------------------------------------------------------------------------
(* read() wants some units and returns n of them: fewer if there are fewer *)
(* in the socket, zero at the end of the stream, -1 if it fails.  It       *)
(* leaves e in errno, which a call that does not fail does not touch.      *)

MinOf(a, b) == IF a <= b THEN a ELSE b

ReadData(want, n, e) ==
  /\ buffer # <<>> /\ n = MinOf(want, Len(buffer)) /\ e = errno
  /\ buffer' = SubSeq(buffer, n + 1, Len(buffer))
  /\ UNCHANGED signals

ReadEof(n, e) ==
  /\ buffer = <<>> /\ wire = <<>> /\ eof /\ n = 0 /\ e = errno
  /\ UNCHANGED <<buffer, signals>>

ReadInterrupted(n, e) ==
  /\ buffer = <<>> /\ received # <<>> /\ signals < MaxSignals
  /\ n = -1 /\ e = EINTR
  /\ signals' = signals + 1
  /\ UNCHANGED buffer

ReadBroken(n, e) ==
  /\ reset /\ n = -1 /\ e = ECONNRESET
  /\ UNCHANGED <<buffer, signals>>

Read(want, n, e) ==
  \/ ReadData(want, n, e) \/ ReadEof(n, e)
  \/ ReadInterrupted(n, e) \/ ReadBroken(n, e)

Results(want) == (-1 .. want) \X {0, EINTR, ECONNRESET}

-----------------------------------------------------------------------------
(* proto_recv_packet                                                       *)

ReturnZero(contents, data) ==
  /\ pc' = "header"
  /\ received' = Append(received, [of |-> contents.of, size |-> contents.size,
                                   data |-> data])

ReturnError == pc' = "failed" /\ UNCHANGED received

\* *pkt after a read() of n units: what was read replaces what was there, and
\* then ntohs() exchanges the digits of whatever the size field holds.  A unit
\* that is out of place is given the packet it belongs to and a size of 1.
Overwritten(n) ==
  LET raw == IF n < 2 THEN pkt.size
             ELSE IF buffer[2].part = "tail" THEN Swap(sent[buffer[2].of])
             ELSE 1
  IN  [of |-> IF n >= 1 THEN buffer[1].of ELSE pkt.of, size |-> Swap(raw)]

\* Mutant: part of a header is taken for the whole.
HeaderShortIfEmpty(n) == n <= 0

HeaderShort(n) == n # HeaderSize

\* Mutant: errno is not reset.
ErrnoKept == EINTR

ErrnoCleared == 0

\* A header that is not whole is an error, unless errno is EINTR.
RecvHeaderShort ==
  /\ pc = "header"
  /\ \E r \in Results(HeaderSize) :
        /\ Read(HeaderSize, r[1], r[2]) /\ HeaderShort(r[1])
        /\ pkt' = Overwritten(r[1])
        /\ \/ r[2] # EINTR /\ errno' = r[2] /\ ReturnError
           \/ r[2] = EINTR /\ errno' = ErrnoCleared
              /\ ReturnZero(Overwritten(r[1]), datap)
  /\ UNCHANGED <<client, wire, datap, whole>>

\* Without a payload *datap keeps its value.
RecvHeader ==
  /\ pc = "header"
  /\ \E r \in Results(HeaderSize) :
        /\ Read(HeaderSize, r[1], r[2]) /\ ~HeaderShort(r[1])
        /\ errno' = r[2]
        /\ pkt' = Overwritten(r[1])
        /\ \/ Overwritten(r[1]).size = 0 /\ ReturnZero(Overwritten(r[1]), datap)
           \/ Overwritten(r[1]).size # 0 /\ pc' = "payload" /\ UNCHANGED received
  /\ UNCHANGED <<client, wire, datap, whole>>

\* The packet whose payload the first n units of the socket are, or 0.
PayloadOf(n) ==
  IF \A k \in 1 .. n : buffer[k] = [of |-> buffer[1].of, part |-> "payload"]
  THEN buffer[1].of ELSE 0

RecvPayload ==
  /\ pc = "payload"
  /\ \E r \in Results(pkt.size) :
        /\ Read(pkt.size, r[1], r[2])
        /\ errno' = r[2]
        /\ \/ r[1] = pkt.size /\ datap' = PayloadOf(r[1])
              /\ ReturnZero(pkt, PayloadOf(r[1]))
           \/ r[1] # pkt.size /\ ReturnError /\ UNCHANGED datap
  /\ UNCHANGED <<client, wire, pkt, whole>>

-----------------------------------------------------------------------------
Recv == RecvHeaderShort \/ RecvHeader \/ RecvPayload

Environment == \/ ClientSend \/ ClientClose \/ ConnectionBreaks \/ Deliver
               \/ OtherCallInterrupted

Next == Environment \/ Recv

Spec == Init /\ [][Next]_vars

\* TCP delivers what was sent, and the thread is scheduled.
FairSpec == Spec /\ WF_vars(Deliver) /\ WF_vars(Recv)

-----------------------------------------------------------------------------
(* Properties                                                              *)

\* Without signals the packets are received in the order in which they were
\* sent, each one once, with its own size and payload, however the network
\* cuts them: a packet that arrives in pieces is lost but never mistaken.
ReceivedInOrder ==
  signals = 0 => \A i \in 1 .. Len(received) :
    /\ received[i].of = i /\ received[i].size = sent[i]
    /\ sent[i] # 0 => received[i].data = i

\* As long as packets arrive whole, signals repeat packets (the EINTR branch
\* returns zero with the old *pkt) but never make the thread skip one, or take
\* one for another.
NothingSkipped == whole => \A i \in 1 .. Len(received) :
  LET last == IF i = 1 THEN 0 ELSE received[i - 1].of
      n == received[i].of
  IN  \/ n = last
      \/ n = last + 1 /\ received[i].size = sent[n]
         /\ (sent[n] # 0 => received[i].data = n)

\* A signal makes the thread execute at most one request again.
OneRepetitionPerSignal == whole => Len(received) <= Len(sent) + signals

\* Every packet sent on a connection that stays up and delivers packets whole
\* to a thread that gets no signal is received.
EverythingArrives == \A n \in 1 .. MaxSent :
  Len(sent) >= n ~> \/ reset \/ ~whole \/ signals > 0
                    \/ \E i \in DOMAIN received : received[i].of = n

\* protocol.h:111-112: the call returns zero in case of successful reception,
\* that is, once for every packet.
EachOnce == \A i, j \in DOMAIN received :
  received[i].of = received[j].of => i = j
=============================================================================
