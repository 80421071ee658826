-------------------------------- MODULE Rio --------------------------------
(***************************************************************************)
(* The Rio package of src/src/csapp.c:741-935: reading and writing with    *)
(* short counts, interrupted calls, errors and the end of the file, with a *)
(* buffer (rio_t) and without.                                             *)
(*                                                                         *)
(* A program calls the package again and again for one descriptor; a step  *)
(* is one read(), write() or copy out of the buffer.  What read() delivers *)
(* and what write() accepts is chosen by the kernel.  MaxTrouble bounds    *)
(* the interrupted and failed calls and those that write nothing.          *)
(***************************************************************************)
EXTENDS Wrappers, Sequences, SequencesExt, FiniteSetsExt

CONSTANTS Byte, NEWLINE,
          RIO_BUFSIZE,
          MaxInput,    \* bound: how many bytes the descriptor has
          MaxSize,     \* bound: the sizes that are asked for
          MaxTrouble

ASSUME RioAssumption == /\ NEWLINE \in Byte
                        /\ {RIO_BUFSIZE, MaxInput, MaxSize} \subseteq Nat \ {0}
                        /\ MaxTrouble \in Nat

VARIABLES
  input, rd,    \* the bytes to be read, and how many have been
  rp,           \* the rio_t
  fn, wrapped,  \* the function that is running, and whether through Rio_*
  size,         \* its argument: n or maxlen
  nleft, bufp,  \* its locals; bufp is an offset in usrbuf
  n,            \* the counter of rio_readlineb
  usrbuf,       \* the bytes that it has stored
  sent,         \* the bytes of the caller that write() has accepted
  ret,          \* what it has returned, or BUSY
  got,          \* history: all that the caller has been handed
  gap,          \* history: bytes were lost with an error, or overtaken
  trouble

stream == <<input, rd, rp, got, gap, trouble>>
locals == <<nleft, bufp, n, usrbuf, sent>>
call == <<fn, wrapped, size, ret>>
rioVars == <<stream, locals, call>>

BUSY == -2
Reading == {"readn", "readnb", "readlineb"}
Function == Reading \cup {"writen"}

RioTypeOK ==
  /\ input \in Seq(Byte) /\ rd \in 0 .. Len(input)
  /\ rp.rio_cnt \in -1 .. RIO_BUFSIZE /\ rp.rio_bufptr \in 0 .. RIO_BUFSIZE
  /\ rp.rio_buf \in Seq(Byte)
  /\ fn \in Function \cup {"none"} /\ wrapped \in BOOLEAN
  /\ size \in 0 .. MaxSize /\ nleft \in 0 .. MaxSize /\ bufp \in 0 .. MaxSize
  /\ n \in 0 .. MaxSize
  /\ usrbuf \in Seq(Byte) /\ sent \in Seq(1 .. MaxSize)
  /\ ret \in {BUSY, -1} \cup 0 .. MaxSize
  /\ got \in Seq(Byte) /\ gap \in BOOLEAN
  /\ trouble \in 0 .. MaxTrouble

\* rio_readinitb
rio_readinitb == [rio_cnt |-> 0, rio_bufptr |-> 0, rio_buf |-> <<>>]

NoCall == /\ fn = "none" /\ wrapped = FALSE /\ size = 0 /\ ret = BUSY
          /\ nleft = 0 /\ bufp = 0 /\ n = 0 /\ usrbuf = <<>> /\ sent = <<>>

Fresh == rd = 0 /\ rp = rio_readinitb /\ got = <<>> /\ gap = FALSE /\ trouble = 0

RioInit == input \in BoundedSeq(Byte, MaxInput) /\ Fresh /\ NoCall

-----------------------------------------------------------------------------
(* The system calls                                                        *)

Error(e) == [rc |-> -1, errno |-> e]
Troubles == IF trouble < MaxTrouble THEN {Error(e) : e \in ERRNO} ELSE {}

\* read(): what is there, at most count bytes; 0 at the end of the file.
SysRead(count) ==
  LET most == Min({count, Len(input) - rd})
  IN  [rc : IF most = 0 THEN {0} ELSE 1 .. most, errno : {errno}] \cup Troubles

Bytes(r) == SubSeq(input, rd + 1, rd + Max({r.rc, 0}))

\* write(): a part; nothing, with errno as it was; or an error.
SysWrite(count) ==
  [rc : (IF trouble < MaxTrouble THEN {0} ELSE {}) \cup 1 .. count, errno : {errno}]
  \cup Troubles

Interrupted(r) == r.rc < 0 /\ r.errno = EINTR
Fatal(r) == r.rc < 0 /\ r.errno # EINTR

AfterRead(r) == /\ rd' = rd + Max({r.rc, 0})
                /\ errno' = r.errno
                /\ trouble' = trouble + (IF r.rc < 0 THEN 1 ELSE 0)
                /\ UNCHANGED input

-----------------------------------------------------------------------------
(* Calling and returning                                                   *)

Idle == status = RUNNING /\ fn = "none"
Busy(f) == status = RUNNING /\ fn = f /\ ret = BUSY

Unread == SubSeq(rp.rio_buf, rp.rio_bufptr + 1, rp.rio_bufptr + rp.rio_cnt)

\* The caller asks for size bytes, or for a line of less than size bytes.
\* Reading without the buffer overtakes what is in it.
Call(f) ==
  /\ Idle
  /\ fn' = f /\ wrapped' \in BOOLEAN /\ size' \in 1 .. MaxSize /\ ret' = BUSY
  /\ nleft' = IF f = "readlineb" THEN 0 ELSE size'
  /\ bufp' = 0 /\ n' = IF f = "readlineb" THEN 1 ELSE 0
  /\ usrbuf' = <<>> /\ sent' = <<>>
  /\ gap' = (gap \/ (f = "readn" /\ Unread # <<>>))
  /\ UNCHANGED <<process, input, rd, rp, got, trouble>>

\* rio_readinitb for the same descriptor: what is in the buffer is dropped.
ReadInit ==
  /\ Idle
  /\ rp' = rio_readinitb
  /\ gap' = (gap \/ Unread # <<>>)
  /\ UNCHANGED <<process, input, rd, got, trouble, locals, call>>

\* Rio_readn, Rio_readnb and Rio_readlineb test for a negative value,
\* Rio_writen for anything but n.
Rejected(v) == IF fn = "writen" THEN v # size ELSE v < 0

\* rio_* returns v, err is the error that has made it do so; Rio_* exits
\* with the error that errno tells, if it rejects the value.
Return(v, err) ==
  /\ ret' = v
  /\ \/ wrapped /\ Rejected(v) /\ Exits(0, errno') /\ cause' = err
     \/ ~(wrapped /\ Rejected(v)) /\ Returns /\ cause' = 0
  /\ gap' = (gap \/ (v < 0 /\ fn \in Reading /\ bufp > 0))
  /\ UNCHANGED <<fn, wrapped, size>>

GoesOn == UNCHANGED <<status, message, cause, call, gap>>

\* The caller takes the result.
Taken ==
  /\ status = RUNNING /\ ret # BUSY
  /\ got' = IF ret > 0 /\ fn \in Reading
            THEN got \o SubSeq(usrbuf, 1, ret) ELSE got
  /\ fn' = "none" /\ wrapped' = FALSE /\ size' = 0 /\ ret' = BUSY
  /\ nleft' = 0 /\ bufp' = 0 /\ n' = 0 /\ usrbuf' = <<>> /\ sent' = <<>>
  /\ UNCHANGED <<process, input, rd, rp, gap, trouble>>

\* Bytes are stored at bufp, and the locals of the loop advance.
Store(bytes) ==
  /\ usrbuf' = SubSeq(usrbuf, 1, bufp) \o bytes
  /\ nleft' = nleft - Len(bytes) /\ bufp' = bufp + Len(bytes)

Finished(f) ==
  /\ Busy(f) /\ nleft = 0
  /\ Return(size, 0)
  /\ UNCHANGED <<errno, input, rd, rp, got, trouble, locals>>

-----------------------------------------------------------------------------
(* rio_readn                                                               *)

\* Mutant: read() is called again at the end of the file.
NoEnd(r) == FALSE

AtEnd(r) == r.rc = 0

ReadnStep ==
  /\ Busy("readn") /\ nleft > 0
  /\ \E r \in SysRead(nleft) :
       /\ AfterRead(r)
       /\ \/ Fatal(r) /\ Return(-1, r.errno) /\ UNCHANGED locals
          \/ AtEnd(r) /\ Return(size - nleft, 0) /\ UNCHANGED locals
          \/ ~Fatal(r) /\ ~AtEnd(r) /\ Store(Bytes(r)) /\ GoesOn
             /\ UNCHANGED <<n, sent>>
  /\ UNCHANGED <<rp, got>>

-----------------------------------------------------------------------------
(* rio_writen                                                              *)

\* Mutant: bufp stays where it was after a short count.
RestartsBuffer(written) == bufp' = bufp

Advances(written) == bufp' = bufp + written

\* A write() of nothing is judged by the errno that an earlier call has left.
WritenStep ==
  /\ Busy("writen") /\ nleft > 0
  /\ \E r \in SysWrite(nleft) :
       /\ errno' = r.errno
       /\ trouble' = trouble + (IF r.rc <= 0 THEN 1 ELSE 0)
       /\ \/ r.rc <= 0 /\ r.errno = EINTR /\ GoesOn /\ UNCHANGED locals
          \/ r.rc <= 0 /\ r.errno # EINTR /\ UNCHANGED locals
             /\ Return(-1, IF r.rc = 0 THEN UNSET ELSE r.errno)
          \/ r.rc > 0 /\ GoesOn
             /\ sent' = sent \o [k \in 1 .. r.rc |-> bufp + k]
             /\ nleft' = nleft - r.rc /\ Advances(r.rc)
             /\ UNCHANGED <<n, usrbuf>>
  /\ UNCHANGED <<input, rd, rp, got>>

-----------------------------------------------------------------------------
(* rio_read, as called by rio_readnb and rio_readlineb                     *)

\* Mutant: a line may have maxlen bytes and the '\0'.
LineTooLong == n <= size

LineGoesOn == n < size

Wants == \/ Busy("readnb") /\ nleft > 0
         \/ Busy("readlineb") /\ LineGoesOn

\* The caller of rio_read at the end of the file: rio_readnb returns what it
\* has; rio_readlineb too, as a line without newline, or 0.
EndOfFile ==
  Return(IF fn = "readnb" THEN size - nleft ELSE n - 1, 0)

\* The empty buffer is filled again.
Refill ==
  /\ Wants /\ rp.rio_cnt <= 0
  /\ \E r \in SysRead(RIO_BUFSIZE) :
       /\ AfterRead(r)
       /\ rp' = IF r.rc > 0 THEN [rio_cnt |-> r.rc, rio_bufptr |-> 0, rio_buf |-> Bytes(r)]
                ELSE [rp EXCEPT !.rio_cnt = r.rc]
       /\ \/ Fatal(r) /\ Return(-1, r.errno)
          \/ r.rc = 0 /\ EndOfFile
          \/ (Interrupted(r) \/ r.rc > 0) /\ GoesOn
  /\ UNCHANGED <<got, locals>>

\* Mutant: rio_bufptr is not moved.
TakesSame(k) == [rp EXCEPT !.rio_cnt = @ - k]

Takes(k) == [rp EXCEPT !.rio_cnt = @ - k, !.rio_bufptr = @ + k]

CopyBytes ==
  /\ Busy("readnb") /\ nleft > 0 /\ rp.rio_cnt > 0
  /\ LET k == Min({nleft, rp.rio_cnt})
     IN  Store(SubSeq(Unread, 1, k)) /\ rp' = Takes(k)
  /\ GoesOn
  /\ UNCHANGED <<errno, input, rd, got, trouble, n, sent>>

\* rio_readlineb takes one byte at a time, up to a newline.
CopyChar ==
  /\ Busy("readlineb") /\ LineGoesOn /\ rp.rio_cnt > 0
  /\ usrbuf' = SubSeq(usrbuf, 1, bufp) \o <<Head(Unread)>> /\ bufp' = bufp + 1
  /\ rp' = Takes(1)
  /\ n' = n + 1
  /\ \/ Head(Unread) = NEWLINE /\ Return(n, 0)
     \/ Head(Unread) # NEWLINE /\ GoesOn
  /\ UNCHANGED <<errno, input, rd, got, trouble, nleft, sent>>

LineFull ==
  /\ Busy("readlineb") /\ ~LineGoesOn
  /\ Return(n - 1, 0)
  /\ UNCHANGED <<errno, input, rd, rp, got, trouble, locals>>

-----------------------------------------------------------------------------
RioStep ==
  \/ ReadnStep \/ Finished("readn")
  \/ WritenStep \/ Finished("writen")
  \/ Refill \/ CopyBytes \/ Finished("readnb") \/ CopyChar \/ LineFull

RioNext == (\E f \in Function : Call(f)) \/ ReadInit \/ RioStep \/ Taken

-----------------------------------------------------------------------------
(* Properties                                                              *)

Stored == SubSeq(usrbuf, 1, bufp)

\* However read() and write() cut the data up, and whatever interrupts them:
\* what callers were handed, the call in progress has stored and the buffer
\* still holds is, in this order, what the descriptor has delivered, unless an
\* error has dropped a part or rio_readn was used over a filled buffer; and
\* what was written is the beginning of the caller's data.
StreamExact ==
  /\ ~gap => LET inProgress == IF fn \in Reading THEN Stored ELSE <<>>
             IN  got \o inProgress \o Unread = SubSeq(input, 1, rd)
  /\ sent = [k \in 1 .. size - nleft |-> k] \/ fn # "writen"

AtEOF == rd = Len(input) /\ (fn = "readn" \/ Unread = <<>>)

LineExact ==
  /\ \A k \in 1 .. bufp - 1 : Stored[k] # NEWLINE
  /\ bufp < size                                 \* there is room for the '\0'
  /\ bufp = size - 1 \/ AtEOF \/ (bufp > 0 /\ Stored[bufp] = NEWLINE)

\* A value that is returned tells what has happened: the number of bytes
\* stored, which is less than was asked for only at the end of the file; a
\* line up to its newline, with room for the '\0'; all bytes written.  A call
\* that has failed was not interrupted.
ResultExact == ret # BUSY =>
  /\ ret >= 0 /\ fn \in Reading => ret = bufp
  /\ ret >= 0 /\ fn \in {"readn", "readnb"} => ret = size \/ AtEOF
  /\ ret >= 0 /\ fn = "readlineb" => LineExact
  /\ fn = "writen" => ret = -1 \/ (ret = size /\ Len(sent) = size)
  /\ ret = -1 => errno # EINTR

\* A call that has been made returns: no loop goes on at the end of the file
\* or after a short count, if interruptions come to an end.
CallReturns == fn # "none" /\ ret = BUSY ~> ret # BUSY
=============================================================================
