---------------------------- MODULE CsappProofs ----------------------------
(***************************************************************************)
(* No byte of a stream is lost, doubled or moved by the Rio functions,     *)
(* what they return tells what they have done, no error of a call is lost  *)
(* or reported as another one, no socket is left open, and the text of a   *)
(* number is that number's, for any error codes, any buffer and stream,    *)
(* any lists of addresses, any number of descriptors and any base, however *)
(* the system calls cut the data up.                                       *)
(***************************************************************************)
EXTENDS Csapp, SequenceTheorems, WellFoundedInduction, TLAPS

-----------------------------------------------------------------------------
(* The stream                                                              *)

LEMMA SplitSeq ==
  ASSUME NEW S, NEW s \in Seq(S), NEW a \in Nat, NEW b \in Nat, a + b <= Len(s)
  PROVE  /\ SubSeq(s, 1, a + b) = SubSeq(s, 1, a) \o SubSeq(s, a + 1, a + b)
         /\ SubSeq(s, a + 1, a + b) \in Seq(S)
         /\ Len(SubSeq(s, a + 1, a + b)) = b
<1>1. Len(s) \in Nat /\ \A i \in 1 .. Len(s) : s[i] \in S
  BY LenProperties
<1>2. \A i \in a + 1 .. a + b : s[i] \in S
  BY <1>1
<1>3. SubSeq(s, a + 1, a + b) \in Seq(S) /\ Len(SubSeq(s, a + 1, a + b)) = b
  BY <1>2, SubSeqProperties
<1>4. 1 \in 1 .. Len(s) + 1 /\ a \in 1 - 1 .. Len(s) /\ a + b \in a .. Len(s)
  BY <1>1
<1>. QED
  BY <1>3, <1>4, ConcatAdjacentSubSeq

LEMMA MinOfTwo ==
  ASSUME NEW a \in Int, NEW b \in Int
  PROVE  Min({a, b}) = IF a <= b THEN a ELSE b
  BY DEF Min

LEMMA MaxOfTwo ==
  ASSUME NEW a \in Int, NEW b \in Int
  PROVE  Max({a, b}) = IF a >= b THEN a ELSE b
  BY DEF Max

\* The first k elements of a window of a sequence, and the rest of it.
LEMMA TakeWindow ==
  ASSUME NEW S, NEW s \in Seq(S), NEW p \in Nat, NEW c \in Nat, NEW k \in Nat,
         k > 0, k <= c, p + c <= Len(s)
  PROVE  LET window == SubSeq(s, p + 1, p + c)
             first == SubSeq(window, 1, k)
             remaining == SubSeq(s, p + k + 1, p + k + (c - k))
         IN  /\ window = first \o remaining
             /\ first \in Seq(S) /\ remaining \in Seq(S) /\ Len(first) = k
<1> DEFINE window == SubSeq(s, p + 1, p + c)
           first == SubSeq(window, 1, k)
           remaining == SubSeq(s, p + k + 1, p + k + (c - k))
<1>1. Len(s) \in Nat /\ p + k + (c - k) = p + c
  BY LenProperties
<1>2. window \in Seq(S) /\ remaining \in Seq(S) /\ SubSeq(s, p + 1, p + k) \in Seq(S)
      /\ Len(SubSeq(s, p + 1, p + k)) = k
  BY <1>1, SplitSeq
<1>3. first = SubSeq(s, p + 1, p + k)
  <2>1. /\ p + 1 \in 1 .. Len(s) /\ p + c \in 1 .. Len(s)
        /\ 1 \in 1 .. (p + c) - (p + 1) + 1 /\ k \in 1 .. (p + c) - (p + 1) + 1
    BY <1>1
  <2>2. SubSeq(SubSeq(s, p + 1, p + c), 1, k) = SubSeq(s, (p + 1) + 1 - 1, (p + 1) + k - 1)
    BY <2>1, SubSeqOfSubSeq
  <2>3. (p + 1) + 1 - 1 = p + 1 /\ (p + 1) + k - 1 = p + k
    OBVIOUS
  <2>. QED
    BY <2>2, <2>3
<1>4. SubSeq(s, p + 1, p + k) \o SubSeq(s, p + k + 1, p + c) = SubSeq(s, p + 1, p + c)
  <2>1. p + 1 \in 1 .. Len(s) + 1 /\ p + k \in (p + 1) - 1 .. Len(s) /\ p + c \in p + k .. Len(s)
    BY <1>1
  <2>. QED
    BY <2>1, ConcatAdjacentSubSeq
<1>. QED
  BY <1>1, <1>2, <1>3, <1>4

-----------------------------------------------------------------------------
(* The invariant                                                           *)

Buffer == [rio_cnt : Int, rio_bufptr : Nat, rio_buf : Seq(Byte)]

Numbers == {rd, bufp, nleft, size, n} \subseteq Nat /\ ret \in Int

Texts == {input, usrbuf, got} \subseteq Seq(Byte) /\ rp \in Buffer

\* What is unread lies inside the buffer; rio_readn, which passes it by, loses
\* nothing only if there is nothing.
BufferInv ==
  /\ rd <= Len(input)
  /\ rp.rio_cnt > 0 => rp.rio_bufptr + rp.rio_cnt <= Len(rp.rio_buf)
  /\ fn = "readn" /\ ~gap => Unread = <<>>

\* The counters of the loops agree with each other and with what is stored.
LoopInv ==
  /\ fn \in {"readn", "readnb", "writen"} => bufp + nleft = size
  /\ fn = "readlineb" => n = bufp + 1
  /\ fn = "none" => ret = BUSY

StoredInv == fn # "writen" => Len(usrbuf) = bufp

\* What is returned is the number of bytes stored.
ReturnInv == ret >= 0 /\ fn \in Reading => ret = bufp

\* A negative value hides what was stored.
GapInv == ret < 0 /\ ret # BUSY /\ fn \in Reading => bufp = 0 \/ gap

RioInv == /\ Numbers /\ Texts /\ BufferInv /\ LoopInv /\ StoredInv
          /\ ReturnInv /\ GapInv /\ StreamExact

LEMMA RioInitInv == RioInit => RioInv
<1> SUFFICES ASSUME RioInit PROVE RioInv
  OBVIOUS
<1> USE DEF RioInit, Fresh, NoCall, rio_readinitb, Unread
<1>1. input \in Seq(Byte) /\ Len(input) \in Nat
  BY LenProperties, RioAssumption DEF BoundedSeq, SeqOf
<1>2. SubSeq(input, 1, 0) = <<>> /\ SubSeq(rp.rio_buf, 1, 0) = <<>>
  BY SubSeqEmpty
<1>3. Numbers /\ Texts
  <2>1. <<>> \in Seq(Byte) /\ -2 \in Int
    BY <1>1, EmptySeq
  <2>2. rp \in Buffer
    BY <2>1 DEF Buffer
  <2>. QED
    BY <1>1, <2>1, <2>2 DEF Numbers, Texts, BUSY
<1>4. BufferInv /\ LoopInv /\ StoredInv /\ ReturnInv /\ GapInv
  BY <1>1 DEF BufferInv, LoopInv, StoredInv, ReturnInv, GapInv, Reading
<1>5. StreamExact
  BY <1>2 DEF StreamExact, Reading
<1>. QED
  BY <1>3, <1>4, <1>5 DEF RioInv

\* Stored is all of usrbuf.
LEMMA StoredAll == Texts /\ StoredInv /\ fn # "writen" => Stored = usrbuf
  BY SubSeqFull DEF Texts, StoredInv, Stored

\* StreamExact without Stored.
LEMMA StreamForm ==
  ASSUME RioInv, ~gap
  PROVE  /\ fn \in Reading => got \o usrbuf \o Unread = SubSeq(input, 1, rd)
         /\ fn \notin Reading => got \o Unread = SubSeq(input, 1, rd)
<1>1. fn \in Reading => Stored = usrbuf
  BY StoredAll DEF Reading, RioInv
<1>2. got \in Seq(Byte) /\ got \o <<>> = got
  BY ConcatEmptySeq DEF RioInv, Texts
<1>. QED
  BY <1>1, <1>2 DEF RioInv, StreamExact

-----------------------------------------------------------------------------
(* What the parts of a step do                                             *)

\* A call of a reading function stores the bytes that were delivered to it or
\* taken from the buffer.
LEMMA Appends ==
  ASSUME RioInv, fn \in Reading, NEW bytes \in Seq(Byte),
         usrbuf' = SubSeq(usrbuf, 1, bufp) \o bytes, bufp' = bufp + Len(bytes),
         got' = got, fn' = fn, gap => gap',
         ~gap => \/ /\ SubSeq(input', 1, rd') = SubSeq(input, 1, rd) \o bytes
                    /\ Unread = <<>> /\ Unread' = <<>>
                 \/ /\ SubSeq(input', 1, rd') = SubSeq(input, 1, rd)
                    /\ Unread = bytes \o Unread' /\ Unread' \in Seq(Byte)
  PROVE  usrbuf' \in Seq(Byte) /\ bufp' \in Nat /\ StoredInv' /\ StreamExact'
<1>1. usrbuf \in Seq(Byte) /\ got \in Seq(Byte) /\ Len(usrbuf) = bufp /\ fn # "writen"
  BY DEF RioInv, Texts, StoredInv, Reading
<1>2. usrbuf' = usrbuf \o bytes
  BY <1>1, StoredAll DEF RioInv, Stored
<1>3. /\ usrbuf' \in Seq(Byte) /\ Len(usrbuf') = bufp' /\ Len(bytes) \in Nat
      /\ got \o usrbuf \in Seq(Byte) /\ got \o usrbuf' \in Seq(Byte)
  BY <1>1, <1>2, ConcatProperties, LenProperties
<1>4. Stored' = usrbuf'
  BY <1>3, SubSeqFull DEF Stored
<1>5. got \o usrbuf' = (got \o usrbuf) \o bytes
  <2>1. (got \o usrbuf) \o bytes = got \o (usrbuf \o bytes)
    BY ONLY <1>1, bytes \in Seq(Byte), ConcatAssociative
  <2>. QED
    BY <1>2, <2>1
<1>6. ASSUME ~gap' PROVE got' \o Stored' \o Unread' = SubSeq(input', 1, rd')
  <2>0. ~gap /\ got \o usrbuf \o Unread = SubSeq(input, 1, rd)
    BY <1>6, StreamForm
  <2>1. CASE /\ SubSeq(input', 1, rd') = SubSeq(input, 1, rd) \o bytes
             /\ Unread = <<>> /\ Unread' = <<>>
    BY <1>3, <1>4, <1>5, <2>0, <2>1, ConcatEmptySeq
  <2>2. CASE /\ SubSeq(input', 1, rd') = SubSeq(input, 1, rd)
             /\ Unread = bytes \o Unread' /\ Unread' \in Seq(Byte)
    <3> DEFINE r == Unread'
    <3>0. r \in Seq(Byte) /\ got \o usrbuf \in Seq(Byte)
      BY <1>3, <2>2
    <3> HIDE DEF r
    <3>1. ((got \o usrbuf) \o bytes) \o r = (got \o usrbuf) \o (bytes \o r)
      BY ONLY <3>0, bytes \in Seq(Byte), ConcatAssociative
    <3> USE DEF r
    <3>. QED
      BY <1>4, <1>5, <2>0, <2>2, <3>1
  <2>. QED
    BY <2>0, <2>1, <2>2
<1>7. bufp \in Nat /\ bufp' \in Nat
  BY <1>3 DEF RioInv, Numbers
<1>. QED
  BY <1>1, <1>3, <1>6, <1>7 DEF StoredInv, StreamExact

\* A call returns.
LEMMA Returned ==
  ASSUME RioInv, fn # "none", NEW x \in Int, NEW err, Return(x, err),
         x >= 0 /\ fn \in Reading => x = bufp'
  PROVE  /\ UNCHANGED <<fn, size>> /\ ret' = x /\ ret' \in Int
         /\ gap => gap'
         /\ ReturnInv'
         /\ bufp' = bufp => GapInv'
<1>1. bufp \in Nat
  BY DEF RioInv, Numbers
<1>2. UNCHANGED <<fn, size>> /\ ret' = x /\ (gap => gap')
  BY DEF Return
<1>3. x < 0 /\ fn \in Reading /\ bufp > 0 => gap'
  BY DEF Return
<1>. QED
  BY <1>1, <1>2, <1>3 DEF ReturnInv, GapInv

\* Nothing else happens in a step in which a call returns.
LEMMA OnlyReturns ==
  ASSUME RioInv, fn # "none", NEW x \in Int, NEW err, Return(x, err),
         x >= 0 /\ fn \in Reading => x = bufp,
         UNCHANGED <<input, rd, got, locals>>, Unread' = Unread, rp' \in Buffer,
         rp'.rio_cnt > 0 => rp' = rp
  PROVE  RioInv'
<1>1. UNCHANGED <<nleft, bufp, n, usrbuf, sent>>
  BY DEF locals
<1>2. /\ UNCHANGED <<fn, size>> /\ ret' \in Int /\ (gap => gap')
      /\ ReturnInv' /\ GapInv'
  BY <1>1, Returned
<1>3. Numbers' /\ Texts'
  BY <1>1, <1>2 DEF RioInv, Numbers, Texts
<1>4. BufferInv' /\ LoopInv' /\ StoredInv'
  BY <1>1, <1>2 DEF RioInv, BufferInv, LoopInv, StoredInv
<1>5. StreamExact'
  BY <1>1, <1>2 DEF RioInv, StreamExact, Stored
<1>. QED
  BY <1>2, <1>3, <1>4, <1>5 DEF RioInv

\* What read() has delivered.
LEMMA ReadEffect ==
  ASSUME RioInv, NEW count \in Nat \ {0}, NEW r \in SysRead(count), AfterRead(r)
  PROVE  /\ r.rc \in Int /\ r.rc <= count
         /\ r.rc < 0 => r.errno \in ERRNO
         /\ rd' \in Nat /\ rd' <= Len(input) /\ input' = input /\ errno' = r.errno
         /\ r.rc <= 0 => rd' = rd
         /\ r.rc > 0 => Len(Bytes(r)) = r.rc
         /\ Bytes(r) \in Seq(Byte) /\ Len(Bytes(r)) \in Nat /\ Len(Bytes(r)) <= count
         /\ SubSeq(input, 1, rd') = SubSeq(input, 1, rd) \o Bytes(r)
<1> DEFINE most == Min({count, Len(input) - rd})
<1>1. /\ Len(input) \in Nat /\ rd \in Nat /\ rd <= Len(input)
      /\ input \in Seq(Byte)
  BY LenProperties DEF RioInv, Numbers, Texts, BufferInv
<1>2. most \in Nat /\ most <= count /\ rd + most <= Len(input)
  BY <1>1, MinOfTwo
<1>3. /\ r.rc \in Int /\ r.rc >= -1 /\ r.rc <= most
      /\ r.rc < 0 => r.errno \in ERRNO
  <2>1. CASE r \in Troubles
    BY <1>2, <2>1 DEF Troubles, Error
  <2>2. CASE r \in [rc : IF most = 0 THEN {0} ELSE 1 .. most, errno : {errno}]
    BY <1>2, <2>2
  <2>. QED
    BY <2>1, <2>2 DEF SysRead
<1>4. PICK k \in Nat : k = Max({r.rc, 0}) /\ (r.rc > 0 => k = r.rc) /\ (r.rc <= 0 => k = 0)
  BY <1>3, MaxOfTwo
<1>5. rd' = rd + k /\ input' = input /\ errno' = r.errno /\ Bytes(r) = SubSeq(input, rd + 1, rd + k)
  BY <1>4 DEF AfterRead, Bytes
<1>6. rd + k <= Len(input) /\ r.rc <= count
  BY <1>1, <1>2, <1>3, <1>4
<1>7. /\ SubSeq(input, 1, rd + k) = SubSeq(input, 1, rd) \o SubSeq(input, rd + 1, rd + k)
      /\ SubSeq(input, rd + 1, rd + k) \in Seq(Byte)
      /\ Len(SubSeq(input, rd + 1, rd + k)) = k
  BY ONLY <1>1, <1>6, SplitSeq, k \in Nat
<1>8. rd + k \in Nat /\ (r.rc <= 0 => rd + k = rd) /\ k <= count
  BY ONLY <1>1, <1>3, <1>4, <1>6, k \in Nat, count \in Nat \ {0}
<1>. QED
  BY ONLY <1>3, <1>4, <1>5, <1>6, <1>7, <1>8

\* An empty buffer has nothing unread.
LEMMA UnreadNone == RioInv /\ rp.rio_cnt <= 0 => Unread = <<>>
<1> SUFFICES ASSUME RioInv, rp.rio_cnt <= 0 PROVE Unread = <<>>
  OBVIOUS
<1>1. rp.rio_cnt \in Int /\ rp.rio_bufptr \in Nat /\ rp.rio_buf \in Seq(Byte)
  BY DEF RioInv, Texts, Buffer
<1>. QED
  BY <1>1, SubSeqEmpty DEF Unread

\* Taking k bytes out of the buffer.
LEMMA TakeEffect ==
  ASSUME RioInv, rp.rio_cnt > 0, NEW k \in Nat \ {0}, k <= rp.rio_cnt, rp' = Takes(k)
  PROVE  /\ rp' \in Buffer
         /\ rp'.rio_cnt > 0 => rp'.rio_bufptr + rp'.rio_cnt <= Len(rp'.rio_buf)
         /\ SubSeq(Unread, 1, k) \in Seq(Byte) /\ Len(SubSeq(Unread, 1, k)) = k
         /\ Unread' \in Seq(Byte) /\ Unread = SubSeq(Unread, 1, k) \o Unread'
<1>1. PICK b \in Seq(Byte), p \in Nat, c \in Nat :
        /\ b = rp.rio_buf /\ p = rp.rio_bufptr /\ c = rp.rio_cnt
        /\ rp = [rio_cnt |-> c, rio_bufptr |-> p, rio_buf |-> b]
  BY DEF RioInv, Texts, Buffer
<1>2. p + c <= Len(b) /\ k <= c /\ k > 0 /\ Len(b) \in Nat
  BY <1>1, LenProperties DEF RioInv, BufferInv
<1>3. rp' = [rio_cnt |-> c - k, rio_bufptr |-> p + k, rio_buf |-> b]
  BY <1>1 DEF Takes
<1>4. Unread = SubSeq(b, p + 1, p + c) /\ Unread' = SubSeq(b, p + k + 1, p + k + (c - k))
  <2>1. rp'.rio_buf = b /\ rp'.rio_bufptr = p + k /\ rp'.rio_cnt = c - k
    BY <1>3
  <2>. QED
    BY <1>1, <2>1, Zenon DEF Unread
<1>5. rp' \in Buffer
  BY <1>2, <1>3 DEF Buffer
<1>6. p + k + (c - k) <= Len(b)
  BY <1>2
<1>. QED
  BY <1>2, <1>3, <1>4, <1>5, <1>6, TakeWindow

\* A loop goes on with nothing done.
LEMMA NothingHappens ==
  ASSUME RioInv, fn # "readn" \/ rp' = rp, GoesOn,
         UNCHANGED <<input, rd, got, locals>>, Unread' = Unread, rp' \in Buffer,
         rp'.rio_cnt > 0 => rp' = rp
  PROVE  RioInv'
<1>1. UNCHANGED <<fn, size, ret, gap, nleft, bufp, n, usrbuf, sent>>
  BY DEF GoesOn, call, locals
<1>2. Numbers' /\ Texts'
  BY <1>1 DEF RioInv, Numbers, Texts
<1>3. BufferInv' /\ LoopInv' /\ StoredInv' /\ ReturnInv' /\ GapInv'
  BY <1>1 DEF RioInv, BufferInv, LoopInv, StoredInv, ReturnInv, GapInv
<1>4. StreamExact'
  BY <1>1 DEF RioInv, StreamExact, Stored
<1>. QED
  BY <1>2, <1>3, <1>4 DEF RioInv

\* A loop goes on, with bytes stored.
LEMMA Loops ==
  ASSUME RioInv, fn \in {"readn", "readnb"}, ret = BUSY,
         UNCHANGED <<fn, size, ret, gap, n, got, input>>,
         rd' \in Nat, rd' <= Len(input), rp' \in Buffer,
         rp'.rio_cnt > 0 => rp'.rio_bufptr + rp'.rio_cnt <= Len(rp'.rio_buf),
         fn = "readn" => Unread' = Unread,
         usrbuf' \in Seq(Byte), bufp' \in Nat, nleft' \in Nat,
         bufp' + nleft' = bufp + nleft, StoredInv', StreamExact'
  PROVE  RioInv'
<1>1. Numbers'
  BY DEF RioInv, Numbers
<1>2. Texts'
  BY DEF RioInv, Texts
<1>3. BufferInv'
  BY DEF RioInv, BufferInv
<1>4. LoopInv'
  BY DEF RioInv, LoopInv
<1>5. ReturnInv' /\ GapInv'
  BY DEF RioInv, ReturnInv, GapInv, BUSY
<1>. QED
  BY <1>1, <1>2, <1>3, <1>4, <1>5 DEF RioInv

-----------------------------------------------------------------------------
(* The steps                                                               *)

LEMMA CallStep == ASSUME RioInv, NEW f \in Function, Call(f) PROVE RioInv'
<1>1. /\ fn = "none" /\ UNCHANGED <<input, rd, rp, got>> /\ Unread' = Unread
      /\ fn' = f /\ ret' = BUSY /\ bufp' = 0 /\ usrbuf' = <<>> /\ sent' = <<>>
      /\ (gap => gap') /\ (f = "readn" /\ Unread # <<>> => gap')
  BY DEF Call, Idle, Unread
<1>2. /\ size' \in Nat /\ nleft' \in Nat /\ n' \in Nat
      /\ f # "readlineb" => size' - nleft' = 0 /\ 0 + nleft' = size'
      /\ f = "readlineb" => n' = 0 + 1
  <2>1. size' \in Nat /\ (f # "readlineb" => nleft' = size')
    BY DEF Call
  <2>2. nleft' \in Nat /\ n' \in Nat /\ (f = "readlineb" => n' = 1)
    BY <2>1 DEF Call
  <2>3. CASE f = "readlineb"
    BY ONLY <2>1, <2>2, <2>3
  <2>4. CASE f # "readlineb"
    <3>1. nleft' = size' /\ size' \in Nat
      BY <2>1, <2>4
    <3>2. \A x \in Nat : x - x = 0 /\ 0 + x = x
      OBVIOUS
    <3>. QED
      BY ONLY <2>2, <2>4, <3>1, <3>2, Zenon
  <2>. QED
    BY <2>3, <2>4
<1>3. Numbers' /\ Texts'
  BY <1>1, <1>2, EmptySeq DEF RioInv, Numbers, Texts, BUSY
<1>4. BufferInv'
  BY <1>1 DEF RioInv, BufferInv
<1>5. LoopInv' /\ StoredInv' /\ ReturnInv' /\ GapInv'
  <2>1. LoopInv'
    <3>1. fn' \in {"readn", "readnb", "writen"} => bufp' + nleft' = size'
      BY ONLY <1>1, <1>2
    <3>2. fn' = "readlineb" => n' = bufp' + 1
      BY ONLY <1>1, <1>2
    <3>3. fn' # "none"
      BY ONLY <1>1, f \in Function DEF Function, Reading
    <3>. QED
      BY ONLY <3>1, <3>2, <3>3 DEF LoopInv
  <2>2. StoredInv' /\ ReturnInv' /\ GapInv'
    BY <1>1, EmptySeq DEF StoredInv, ReturnInv, GapInv, BUSY
  <2>. QED
    BY <2>1, <2>2
<1>6. ASSUME ~gap' PROVE got \o Unread = SubSeq(input, 1, rd)
  BY <1>1, <1>6, StreamForm DEF Reading
<1>7. Stored' = <<>> /\ got \o <<>> = got
  BY <1>1, SubSeqEmpty, ConcatEmptySeq DEF Stored, RioInv, Texts
<1>8. f = "writen" => sent' = [k \in 1 .. size' - nleft' |-> k]
  <2>1. <<>> = [k \in 1 .. 0 |-> k]
    OBVIOUS
  <2>. QED
    BY ONLY <1>1, <1>2, <2>1
<1>9. StreamExact'
  BY <1>1, <1>6, <1>7, <1>8 DEF StreamExact
<1>. QED
  BY <1>3, <1>4, <1>5, <1>9 DEF RioInv

LEMMA ReadInitStep == ASSUME RioInv, ReadInit PROVE RioInv'
<1>1. /\ fn = "none" /\ UNCHANGED <<input, rd, got>> /\ rp' = rio_readinitb
      /\ UNCHANGED <<nleft, bufp, n, usrbuf, sent, fn, wrapped, size, ret>>
      /\ (gap => gap') /\ (Unread # <<>> => gap')
  BY DEF ReadInit, Idle, locals, call
<1>2. rp' \in Buffer
  BY <1>1, EmptySeq DEF rio_readinitb, Buffer
<1>3. Unread' = <<>>
  BY <1>1, SubSeqEmpty DEF rio_readinitb, Unread
<1>4. Numbers' /\ Texts' /\ LoopInv' /\ StoredInv' /\ ReturnInv' /\ GapInv'
  BY <1>1, <1>2 DEF RioInv, Numbers, Texts, LoopInv, StoredInv, ReturnInv, GapInv, Reading
<1>5. BufferInv'
  BY <1>1 DEF RioInv, BufferInv, rio_readinitb
<1>6. StreamExact'
  BY <1>1, <1>3 DEF RioInv, StreamExact, Reading
<1>. QED
  BY <1>4, <1>5, <1>6 DEF RioInv

LEMMA TakenStep == ASSUME RioInv, Taken PROVE RioInv'
<1>1. /\ UNCHANGED <<input, rd, rp, gap>> /\ Unread' = Unread
      /\ fn' = "none" /\ size' = 0 /\ ret' = BUSY /\ nleft' = 0 /\ bufp' = 0
      /\ n' = 0 /\ usrbuf' = <<>> /\ sent' = <<>> /\ ret # BUSY
  BY DEF Taken, Unread
<1>2. got' = IF ret > 0 /\ fn \in Reading THEN got \o SubSeq(usrbuf, 1, ret) ELSE got
  BY DEF Taken
<1>3. ret > 0 /\ fn \in Reading => SubSeq(usrbuf, 1, ret) = usrbuf
  BY SubSeqFull DEF RioInv, StoredInv, ReturnInv, Texts, Numbers, Reading
<1>4. usrbuf \in Seq(Byte) /\ got \in Seq(Byte) /\ got \o usrbuf \in Seq(Byte)
  BY ConcatProperties DEF RioInv, Texts
<1>5. Numbers' /\ Texts'
  BY <1>1, <1>2, <1>3, <1>4, EmptySeq DEF RioInv, Numbers, Texts, BUSY
<1>6. BufferInv' /\ LoopInv' /\ StoredInv' /\ ReturnInv' /\ GapInv'
  BY <1>1 DEF RioInv, BufferInv, LoopInv, StoredInv, ReturnInv, GapInv, Reading
<1>7. ASSUME ~gap PROVE got' \o Unread = SubSeq(input, 1, rd)
  <2>1. CASE fn \notin Reading
    BY <1>2, <1>7, <2>1, StreamForm
  <2>2. CASE fn \in Reading /\ ret > 0
    BY <1>2, <1>3, <1>7, <2>2, StreamForm
  <2>3. CASE fn \in Reading /\ ~(ret > 0)
    <3>1. bufp = 0 /\ fn # "writen"
      BY <1>1, <1>7, <2>3 DEF RioInv, Numbers, ReturnInv, GapInv, Reading
    <3>2. usrbuf = <<>>
      BY <1>4, <3>1, EmptySeq DEF RioInv, StoredInv
    <3>. QED
      BY <1>2, <1>4, <1>7, <2>3, <3>2, StreamForm, ConcatEmptySeq
  <2>. QED
    BY <2>1, <2>2, <2>3
<1>8. Texts' /\ got' \in Seq(Byte) /\ got' \o <<>> = got'
  BY <1>5, ConcatEmptySeq DEF Texts
<1>9. StreamExact'
  BY <1>1, <1>7, <1>8 DEF StreamExact, Reading
<1>. QED
  BY <1>5, <1>6, <1>9 DEF RioInv

LEMMA FinishedStep ==
  ASSUME RioInv, NEW f \in {"readn", "readnb", "writen"}, Finished(f) PROVE RioInv'
<1>1. /\ fn = f /\ nleft = 0 /\ Return(size, 0)
      /\ UNCHANGED <<input, rd, rp, got, locals>> /\ Unread' = Unread
  BY DEF Finished, Busy, Unread
<1>2. size \in Int /\ size = bufp
  BY <1>1 DEF RioInv, Numbers, LoopInv
<1>3. rp' \in Buffer
  BY <1>1 DEF RioInv, Texts
<1>. QED
  BY <1>1, <1>2, <1>3, OnlyReturns

LEMMA LineFullStep == ASSUME RioInv, LineFull PROVE RioInv'
<1>1. /\ fn = "readlineb" /\ Return(n - 1, 0)
      /\ UNCHANGED <<input, rd, rp, got, locals>> /\ Unread' = Unread
  BY DEF LineFull, Busy, Unread
<1>2. n - 1 \in Int /\ n - 1 = bufp
  BY <1>1 DEF RioInv, Numbers, LoopInv
<1>3. rp' \in Buffer
  BY <1>1 DEF RioInv, Texts
<1>. QED
  BY <1>1, <1>2, <1>3, OnlyReturns

LEMMA ReadnStepInv == ASSUME RioInv, ReadnStep PROVE RioInv'
<1>1. /\ fn = "readn" /\ ret = BUSY /\ nleft > 0 /\ rp' = rp /\ got' = got
      /\ Unread' = Unread /\ nleft \in Nat \ {0} /\ rp' \in Buffer
  BY DEF ReadnStep, Busy, Unread, RioInv, Numbers, Texts
<1>2. PICK r \in SysRead(nleft) :
        /\ AfterRead(r)
        /\ \/ Fatal(r) /\ Return(-1, r.errno) /\ UNCHANGED locals
           \/ AtEnd(r) /\ Return(size - nleft, 0) /\ UNCHANGED locals
           \/ ~Fatal(r) /\ ~AtEnd(r) /\ Store(Bytes(r)) /\ GoesOn
              /\ UNCHANGED <<n, sent>>
  BY DEF ReadnStep
<1>3. /\ r.rc \in Int /\ (r.rc <= 0 => rd' = rd)
      /\ rd' \in Nat /\ rd' <= Len(input) /\ input' = input
      /\ Bytes(r) \in Seq(Byte) /\ Len(Bytes(r)) \in Nat /\ Len(Bytes(r)) <= nleft
      /\ SubSeq(input, 1, rd') = SubSeq(input, 1, rd) \o Bytes(r)
  BY <1>1, <1>2, ReadEffect
<1>4. CASE Fatal(r) /\ Return(-1, r.errno) /\ UNCHANGED locals
  <2>1. rd' = rd
    BY <1>3, <1>4 DEF Fatal
  <2>. QED
    BY <1>1, <1>3, <1>4, <2>1, OnlyReturns
<1>5. CASE AtEnd(r) /\ Return(size - nleft, 0) /\ UNCHANGED locals
  <2>1. rd' = rd
    BY <1>3, <1>5 DEF AtEnd
  <2>2. size - nleft \in Int /\ size - nleft = bufp
    BY <1>1 DEF RioInv, Numbers, LoopInv
  <2>. QED
    BY <1>1, <1>3, <1>5, <2>1, <2>2, OnlyReturns
<1>6. CASE Store(Bytes(r)) /\ GoesOn /\ UNCHANGED <<n, sent>>
  <2>1. /\ UNCHANGED <<fn, size, ret, gap, n, sent>>
        /\ usrbuf' = SubSeq(usrbuf, 1, bufp) \o Bytes(r)
        /\ nleft' = nleft - Len(Bytes(r)) /\ bufp' = bufp + Len(Bytes(r))
    BY <1>6 DEF GoesOn, call, Store
  <2>2. ~gap => Unread = <<>>
    BY <1>1 DEF RioInv, BufferInv
  <2>3. usrbuf' \in Seq(Byte) /\ bufp' \in Nat /\ StoredInv' /\ StreamExact'
    BY <1>1, <1>3, <2>1, <2>2, Appends DEF Reading
  <2>4. PICK k \in Nat : k = Len(Bytes(r)) /\ k <= nleft
    BY <1>3
  <2>5. nleft' \in Nat /\ bufp' + nleft' = bufp + nleft
    <3>1. nleft' = nleft - k /\ bufp' = bufp + k /\ bufp \in Nat
      BY <2>1, <2>4 DEF RioInv, Numbers
    <3>. QED
      BY ONLY <1>1, <2>4, <3>1, k \in Nat
  <2>6. rp'.rio_cnt > 0 => rp'.rio_bufptr + rp'.rio_cnt <= Len(rp'.rio_buf)
    BY <1>1 DEF RioInv, BufferInv
  <2>. QED
    BY <1>1, <1>3, <2>1, <2>3, <2>5, <2>6, Loops
<1>. QED
  BY <1>2, <1>4, <1>5, <1>6

LEMMA CopyBytesStep == ASSUME RioInv, CopyBytes PROVE RioInv'
<1>1. /\ fn = "readnb" /\ ret = BUSY /\ nleft > 0 /\ rp.rio_cnt > 0
      /\ UNCHANGED <<fn, size, ret, gap, n, sent, input, rd, got>>
      /\ nleft \in Nat /\ rp.rio_cnt \in Int
  BY DEF CopyBytes, Busy, GoesOn, call, RioInv, Numbers, Texts, Buffer
<1>2. PICK k \in Nat \ {0} : k = Min({nleft, rp.rio_cnt}) /\ k <= nleft /\ k <= rp.rio_cnt
  BY <1>1, MinOfTwo
<1>3. PICK bytes : bytes = SubSeq(Unread, 1, k)
  OBVIOUS
<1>4. Store(bytes) /\ rp' = Takes(k)
  BY <1>2, <1>3 DEF CopyBytes
<1>5. /\ rp' \in Buffer
      /\ rp'.rio_cnt > 0 => rp'.rio_bufptr + rp'.rio_cnt <= Len(rp'.rio_buf)
      /\ bytes \in Seq(Byte) /\ Len(bytes) = k
      /\ Unread' \in Seq(Byte) /\ Unread = bytes \o Unread'
  BY <1>1, <1>2, <1>3, <1>4, TakeEffect
<1>6. /\ usrbuf' = SubSeq(usrbuf, 1, bufp) \o bytes
      /\ nleft' = nleft - k /\ bufp' = bufp + Len(bytes)
  BY <1>4, <1>5 DEF Store
<1>7. usrbuf' \in Seq(Byte) /\ bufp' \in Nat /\ StoredInv' /\ StreamExact'
  BY <1>1, <1>5, <1>6, Appends DEF Reading
<1>8. nleft' \in Nat /\ bufp' + nleft' = bufp + nleft
  <2>1. nleft' = nleft - k /\ bufp' = bufp + k /\ bufp \in Nat
    BY <1>5, <1>6 DEF RioInv, Numbers
  <2>. QED
    BY ONLY <1>1, <1>2, <2>1, k \in Nat \ {0}
<1>9. rd' \in Nat /\ rd' <= Len(input)
  BY <1>1 DEF RioInv, Numbers, BufferInv
<1>. QED
  BY <1>1, <1>5, <1>6, <1>7, <1>8, <1>9, Loops

LEMMA WritenStepInv == ASSUME RioInv, WritenStep PROVE RioInv'
<1>1. /\ fn = "writen" /\ ret = BUSY /\ nleft > 0 /\ nleft \in Nat
      /\ UNCHANGED <<input, rd, rp, got>> /\ Unread' = Unread /\ rp' \in Buffer
  BY DEF WritenStep, Busy, Unread, RioInv, Numbers, Texts
<1>2. PICK r \in SysWrite(nleft) :
        \/ r.rc <= 0 /\ r.errno = EINTR /\ GoesOn /\ UNCHANGED locals
        \/ r.rc <= 0 /\ r.errno # EINTR /\ UNCHANGED locals
           /\ Return(-1, IF r.rc = 0 THEN UNSET ELSE r.errno)
        \/ r.rc > 0 /\ GoesOn
           /\ sent' = sent \o [k \in 1 .. r.rc |-> bufp + k]
           /\ nleft' = nleft - r.rc /\ Advances(r.rc)
           /\ UNCHANGED <<n, usrbuf>>
  BY DEF WritenStep
<1>3. r.rc > 0 => r.rc \in 1 .. nleft
  <2>1. CASE r \in Troubles
    BY <2>1 DEF Troubles, Error
  <2>2. CASE r \in [rc : (IF trouble < MaxTrouble THEN {0} ELSE {}) \cup 1 .. nleft,
                    errno : {errno}]
    BY <1>1, <2>2
  <2>. QED
    BY <2>1, <2>2 DEF SysWrite
<1>4. CASE GoesOn /\ UNCHANGED locals
  BY <1>1, <1>4, NothingHappens
<1>5. ASSUME NEW err, Return(-1, err), UNCHANGED locals PROVE RioInv'
  BY <1>1, <1>5, OnlyReturns DEF Reading
<1>6. CASE r.rc > 0 /\ GoesOn
           /\ sent' = sent \o [k \in 1 .. r.rc |-> bufp + k]
           /\ nleft' = nleft - r.rc /\ Advances(r.rc)
           /\ UNCHANGED <<n, usrbuf>>
  <2>1. PICK w \in 1 .. nleft : w = r.rc
    BY <1>3, <1>6
  <2>2. /\ UNCHANGED <<fn, size, ret, gap, n, usrbuf>>
        /\ nleft' = nleft - w /\ bufp' = bufp + w
        /\ sent' = sent \o [k \in 1 .. w |-> bufp + k]
    BY <1>6, <2>1 DEF GoesOn, call, Advances
  <2>3. /\ bufp \in Nat /\ size - nleft = bufp /\ bufp + nleft = size /\ size \in Nat
        /\ sent = [k \in 1 .. size - nleft |-> k]
    BY <1>1 DEF RioInv, Numbers, LoopInv, StreamExact
  <2>4. /\ nleft' \in Nat /\ bufp' \in Nat /\ size' - nleft' = bufp + w
        /\ bufp' + nleft' = size'
    BY ONLY <1>1, <2>2, <2>3, w \in 1 .. nleft
  <2>5. sent' = [k \in 1 .. size' - nleft' |-> k]
    <3>1. [k \in 1 .. bufp |-> k] \o [k \in 1 .. w |-> bufp + k] = [k \in 1 .. bufp + w |-> k]
      BY ONLY <1>1, <2>3, w \in 1 .. nleft
    <3>. QED
      BY <2>2, <2>3, <2>4, <3>1
  <2>6. Numbers' /\ Texts' /\ BufferInv'
    BY <1>1, <2>2, <2>4 DEF RioInv, Numbers, Texts, BufferInv
  <2>7. LoopInv' /\ StoredInv' /\ ReturnInv' /\ GapInv'
    BY <1>1, <2>2, <2>4 DEF LoopInv, StoredInv, ReturnInv, GapInv, Reading
  <2>8. StreamExact'
    BY <1>1, <2>2, <2>5 DEF RioInv, StreamExact, Reading
  <2>. QED
    BY <2>6, <2>7, <2>8 DEF RioInv
<1>. QED
  BY <1>2, <1>4, <1>5, <1>6

LEMMA RefillStep == ASSUME RioInv, Refill PROVE RioInv'
<1>1. /\ fn \in {"readnb", "readlineb"} /\ ret = BUSY /\ rp.rio_cnt <= 0
      /\ UNCHANGED <<got, locals>> /\ Unread = <<>> /\ RIO_BUFSIZE \in Nat \ {0}
  BY RioAssumption, UnreadNone DEF Refill, Wants, Busy
<1>2. PICK r \in SysRead(RIO_BUFSIZE) :
       /\ AfterRead(r)
       /\ rp' = IF r.rc > 0 THEN [rio_cnt |-> r.rc, rio_bufptr |-> 0, rio_buf |-> Bytes(r)]
                ELSE [rp EXCEPT !.rio_cnt = r.rc]
       /\ \/ Fatal(r) /\ Return(-1, r.errno)
          \/ r.rc = 0 /\ EndOfFile
          \/ (Interrupted(r) \/ r.rc > 0) /\ GoesOn
  BY DEF Refill
<1>3. /\ r.rc \in Int /\ (r.rc <= 0 => rd' = rd)
      /\ rd' \in Nat /\ rd' <= Len(input) /\ input' = input
      /\ r.rc > 0 => Len(Bytes(r)) = r.rc
      /\ Bytes(r) \in Seq(Byte)
      /\ SubSeq(input, 1, rd') = SubSeq(input, 1, rd) \o Bytes(r)
  BY <1>1, <1>2, ReadEffect
<1>4. CASE r.rc <= 0
  <2>1. rp' = [rp EXCEPT !.rio_cnt = r.rc]
    BY <1>2, <1>3, <1>4
  <2>2. rp' \in Buffer /\ rp'.rio_cnt = r.rc /\ rp'.rio_bufptr \in Nat /\ rp'.rio_buf \in Seq(Byte)
    BY <1>3, <2>1 DEF RioInv, Texts, Buffer
  <2>3. Unread' = <<>>
    BY <1>3, <1>4, <2>2, SubSeqEmpty DEF Unread
  <2>4. CASE Fatal(r) /\ Return(-1, r.errno)
    BY <1>1, <1>3, <1>4, <2>2, <2>3, <2>4, OnlyReturns
  <2>5. CASE r.rc = 0 /\ EndOfFile
    <3>1. PICK w : Return(w, 0) /\ w = IF fn = "readnb" THEN size - nleft ELSE n - 1
      BY <2>5 DEF EndOfFile
    <3>2. w \in Int /\ w = bufp
      BY <1>1, <3>1 DEF RioInv, Numbers, LoopInv
    <3>. QED
      BY <1>1, <1>3, <1>4, <2>2, <2>3, <3>1, <3>2, OnlyReturns
  <2>6. CASE GoesOn
    BY <1>1, <1>3, <1>4, <2>2, <2>3, <2>6, NothingHappens
  <2>. QED
    BY <1>2, <1>4, <2>4, <2>5, <2>6
<1>5. CASE r.rc > 0
  <2>1. /\ rp' = [rio_cnt |-> r.rc, rio_bufptr |-> 0, rio_buf |-> Bytes(r)]
        /\ GoesOn
    BY <1>2, <1>3, <1>5 DEF Fatal
  <2>2. Unread' = SubSeq(Bytes(r), 1, r.rc)
    BY <1>3, <2>1 DEF Unread
  <2>3. Unread' = Bytes(r)
    BY <1>3, <1>5, <2>2, SubSeqFull
  <2>4. rp' \in Buffer /\ rp'.rio_bufptr + rp'.rio_cnt <= Len(rp'.rio_buf)
    BY <1>3, <1>5, <2>1 DEF Buffer
  <2>5. UNCHANGED <<fn, size, ret, gap, nleft, bufp, n, usrbuf, sent>>
    BY <1>1, <2>1 DEF GoesOn, call, locals
  <2>6. Numbers' /\ Texts' /\ BufferInv'
    BY <1>1, <1>3, <2>4, <2>5 DEF RioInv, Numbers, Texts, BufferInv
  <2>7. LoopInv' /\ StoredInv' /\ ReturnInv' /\ GapInv'
    BY <2>5 DEF RioInv, LoopInv, StoredInv, ReturnInv, GapInv
  <2>8. Stored' = usrbuf' /\ fn \in Reading
    BY <1>1, <2>6, <2>7, <2>5, StoredAll, SubSeqFull DEF StoredInv, Texts, Stored, Reading
  <2>9. ASSUME ~gap PROVE got' \o Stored' \o Unread' = SubSeq(input', 1, rd')
    <3>1. got \o usrbuf \in Seq(Byte) /\ got \o usrbuf \o <<>> = SubSeq(input, 1, rd)
      BY <1>1, <2>8, <2>9, StreamForm, ConcatProperties DEF RioInv, Texts
    <3>2. got \o usrbuf = SubSeq(input, 1, rd)
      BY <3>1, ConcatEmptySeq
    <3>. QED
      BY <1>1, <1>3, <2>3, <2>5, <2>8, <3>2
  <2>10. StreamExact'
    BY <1>1, <2>5, <2>8, <2>9 DEF StreamExact
  <2>. QED
    BY <2>6, <2>7, <2>10 DEF RioInv
<1>. QED
  BY <1>3, <1>4, <1>5

\* A character is taken, and the line may end with it.
LEMMA CopyCharStep == ASSUME RioInv, CopyChar PROVE RioInv'
<1>1. /\ fn = "readlineb" /\ ret = BUSY /\ rp.rio_cnt > 0 /\ n < size
      /\ rp' = Takes(1) /\ n' = n + 1 /\ bufp' = bufp + 1
      /\ UNCHANGED <<input, rd, got, nleft, sent>>
  BY DEF CopyChar, Busy, LineGoesOn
<1>2. PICK c : c = Head(Unread)
  OBVIOUS
<1>3. PICK bytes : bytes = SubSeq(Unread, 1, 1)
  OBVIOUS
<1>4. /\ rp' \in Buffer
      /\ rp'.rio_cnt > 0 => rp'.rio_bufptr + rp'.rio_cnt <= Len(rp'.rio_buf)
      /\ bytes \in Seq(Byte) /\ Len(bytes) = 1
      /\ Unread' \in Seq(Byte) /\ Unread = bytes \o Unread'
  <2>1. rp.rio_cnt \in Int
    BY DEF RioInv, Texts, Buffer
  <2>2. 1 \in Nat \ {0} /\ 1 <= rp.rio_cnt
    BY <1>1, <2>1
  <2>. QED
    BY <1>1, <1>3, <2>2, TakeEffect
<1>5. bytes = <<c>>
  <2>1. PICK remaining \in Seq(Byte) : remaining = Unread'
    BY <1>4
  <2>2. bytes = <<bytes[1]>>
    BY ONLY <1>4
  <2>3. Head(bytes \o remaining) = bytes[1]
    <3>1. Len(remaining) \in Nat
      BY LenProperties
    <3>2. 1 \in 1 .. Len(bytes) + Len(remaining) /\ 1 <= Len(bytes)
      BY ONLY <1>4, <3>1
    <3>3. (bytes \o remaining)[1] = bytes[1]
      BY ONLY <1>4, <3>2, ConcatProperties, remaining \in Seq(Byte)
    <3>4. bytes \o remaining \in Seq(Byte) /\ Len(bytes \o remaining) > 0
      BY ONLY <1>4, <3>1, ConcatProperties, remaining \in Seq(Byte)
    <3>. QED
      BY ONLY <3>3, <3>4
  <2>. QED
    BY <1>2, <1>4, <2>1, <2>2, <2>3
<1>6. usrbuf' = SubSeq(usrbuf, 1, bufp) \o bytes /\ bufp' = bufp + Len(bytes)
  BY <1>1, <1>2, <1>4, <1>5 DEF CopyChar
<1>7. /\ UNCHANGED <<fn, size>> /\ (gap => gap') /\ ret' \in Int
      /\ ReturnInv' /\ GapInv'
  <2>1. CASE Return(n, 0)
    <3>1. n \in Int /\ n = bufp' /\ n >= 0 /\ bufp \in Nat
      BY <1>1 DEF RioInv, Numbers, LoopInv
    <3>2. UNCHANGED <<fn, size>> /\ ret' = n /\ (gap => gap') /\ ReturnInv'
      BY <1>1, <2>1, <3>1, Returned
    <3>. QED
      BY <3>1, <3>2 DEF GapInv
  <2>2. CASE GoesOn
    BY <1>1, <2>2 DEF GoesOn, call, RioInv, Numbers, ReturnInv, GapInv, BUSY
  <2>. QED
    BY <2>1, <2>2 DEF CopyChar
<1>8. usrbuf' \in Seq(Byte) /\ bufp' \in Nat /\ StoredInv' /\ StreamExact'
  BY <1>1, <1>4, <1>6, <1>7, Appends DEF Reading
<1>9. Numbers' /\ Texts'
  BY <1>1, <1>4, <1>7, <1>8 DEF RioInv, Numbers, Texts
<1>10. BufferInv'
  BY <1>1, <1>4, <1>7 DEF RioInv, BufferInv
<1>11. LoopInv'
  BY <1>1, <1>7 DEF RioInv, Numbers, LoopInv
<1>. QED
  BY <1>7, <1>8, <1>9, <1>10, <1>11 DEF RioInv

LEMMA RioNextInv == RioInv /\ RioNext => RioInv'
<1> SUFFICES ASSUME RioInv, RioNext PROVE RioInv'
  OBVIOUS
<1>1. CASE RioStep
  BY <1>1, ReadnStepInv, WritenStepInv, FinishedStep, RefillStep, CopyBytesStep,
     CopyCharStep, LineFullStep DEF RioStep
<1>. QED
  BY <1>1, CallStep, ReadInitStep, TakenStep DEF RioNext

LEMMA RioUnchanged == RioInv /\ UNCHANGED rioVars => RioInv'
<1> SUFFICES ASSUME RioInv, UNCHANGED rioVars PROVE RioInv'
  OBVIOUS
<1>1. UNCHANGED <<input, rd, rp, got, gap, trouble, nleft, bufp, n, usrbuf, sent,
                  fn, wrapped, size, ret>>
  BY DEF rioVars, stream, locals, call
<1>2. Unread' = Unread /\ Stored' = Stored
  BY <1>1 DEF Unread, Stored
<1>. QED
  BY <1>1, <1>2 DEF RioInv, Numbers, Texts, BufferInv, LoopInv, StoredInv,
                    ReturnInv, GapInv, StreamExact

-----------------------------------------------------------------------------
(* The bounds of the Rio functions, and what they return                   *)

\* Nothing is read past the end of the buffer or stored past what the caller
\* has room for; a line leaves room for its '\0'.
BoundsInv ==
  /\ rp.rio_cnt \in -1 .. RIO_BUFSIZE /\ rp.rio_bufptr <= RIO_BUFSIZE
  /\ Len(rp.rio_buf) <= RIO_BUFSIZE
  /\ fn \in Function \cup {"none"} /\ wrapped \in BOOLEAN /\ gap \in BOOLEAN
  /\ size <= MaxSize /\ trouble \in 0 .. MaxTrouble
  /\ fn = "none" => bufp = 0 /\ nleft = 0
  /\ fn = "readlineb" => nleft = 0 /\ n <= size
  /\ fn # "readlineb" => n = 0
  /\ fn # "writen" => sent = <<>>
  /\ fn = "writen" => ret <= size
  /\ ret >= -1 \/ ret = BUSY

\* A line that is not complete has no newline.
LineInv == fn = "readlineb" /\ ret = BUSY => \A k \in 1 .. bufp : usrbuf[k] # NEWLINE

ResultInv == LineInv /\ ResultExact

LEMMA BoundsAreTypes == RioInv /\ BoundsInv => RioTypeOK
<1> SUFFICES ASSUME RioInv, BoundsInv PROVE RioTypeOK
  OBVIOUS
<1> USE RioAssumption
<1>1. /\ {rd, bufp, nleft, size, n} \subseteq Nat /\ ret \in Int
      /\ {input, usrbuf, got} \subseteq Seq(Byte) /\ rp \in Buffer
      /\ rd <= Len(input) /\ Len(input) \in Nat
  BY LenProperties DEF RioInv, Numbers, Texts, BufferInv
<1>2. bufp <= MaxSize /\ nleft <= MaxSize /\ n <= MaxSize /\ size <= MaxSize
  BY <1>1 DEF RioInv, LoopInv, BoundsInv, Function, Reading
<1>3. sent \in Seq(1 .. MaxSize)
  <2>1. CASE fn = "writen"
    <3>1. sent = [k \in 1 .. bufp |-> k]
      BY <1>1, <2>1 DEF RioInv, StreamExact, LoopInv
    <3>. QED
      BY <1>1, <1>2, <3>1
  <2>2. CASE fn # "writen"
    BY <2>2, EmptySeq DEF BoundsInv
  <2>. QED
    BY <2>1, <2>2
<1>4. ret \in {BUSY, -1} \cup 0 .. MaxSize
  BY <1>1, <1>2 DEF RioInv, LoopInv, ReturnInv, BoundsInv, Function, Reading, BUSY
<1>5. rp.rio_bufptr \in 0 .. RIO_BUFSIZE /\ rp.rio_buf \in Seq(Byte)
  BY <1>1 DEF Buffer, BoundsInv
<1>6. /\ rp.rio_cnt \in -1 .. RIO_BUFSIZE /\ fn \in Function \cup {"none"}
      /\ wrapped \in BOOLEAN /\ gap \in BOOLEAN /\ trouble \in 0 .. MaxTrouble
  BY DEF BoundsInv
<1>. QED
  BY <1>1, <1>2, <1>3, <1>4, <1>5, <1>6 DEF RioTypeOK

LEMMA MoreInit == RioInit => BoundsInv /\ ResultInv
<1> SUFFICES ASSUME RioInit PROVE BoundsInv /\ ResultInv
  OBVIOUS
<1> USE RioAssumption DEF RioInit, Fresh, NoCall, rio_readinitb
<1>1. BoundsInv
  <2>1. /\ rp.rio_cnt = 0 /\ rp.rio_bufptr = 0 /\ rp.rio_buf = <<>> /\ Len(<<>>) = 0
        /\ RIO_BUFSIZE \in Nat /\ MaxSize \in Nat /\ MaxTrouble \in Nat
    BY EmptySeq
  <2>2. wrapped \in BOOLEAN /\ gap \in BOOLEAN
    OBVIOUS
  <2>. QED
    BY <2>1, <2>2 DEF BoundsInv, BUSY
<1>. QED
  BY <1>1 DEF ResultInv, LineInv, ResultExact

\* Nothing that the caller sees changes while a call goes on.
LEMMA StillBusy ==
  ASSUME ret' = BUSY, fn' # "readlineb"
  PROVE  ResultInv'
  BY DEF ResultInv, LineInv, ResultExact

LEMMA CallMore == ASSUME RioInv, BoundsInv, NEW f \in Function, Call(f) PROVE BoundsInv' /\ ResultInv'
<1>1. /\ fn' = f /\ wrapped' \in BOOLEAN /\ size' \in 1 .. MaxSize /\ ret' = BUSY
      /\ nleft' = IF f = "readlineb" THEN 0 ELSE size'
      /\ bufp' = 0 /\ n' = IF f = "readlineb" THEN 1 ELSE 0
      /\ sent' = <<>> /\ UNCHANGED <<rp, trouble>> /\ f # "none"
  BY DEF Call, Function, Reading
<1>2. gap' \in BOOLEAN
  BY DEF Call
<1>3. BoundsInv'
  BY <1>1, <1>2, RioAssumption DEF BoundsInv, BUSY
<1>4. ResultInv'
  BY <1>1 DEF ResultInv, LineInv, ResultExact
<1>. QED
  BY <1>3, <1>4

LEMMA ReadInitMore == ASSUME RioInv, BoundsInv, ReadInit PROVE BoundsInv' /\ ResultInv'
<1>1. /\ fn = "none" /\ rp' = rio_readinitb /\ ret = BUSY
      /\ UNCHANGED <<nleft, bufp, n, usrbuf, sent, fn, wrapped, size, ret, trouble>>
  BY DEF ReadInit, Idle, locals, call, RioInv, LoopInv
<1>2. gap' \in BOOLEAN
  BY DEF ReadInit
<1>3. BoundsInv'
  BY <1>1, <1>2, RioAssumption, EmptySeq DEF BoundsInv, rio_readinitb
<1>. QED
  BY <1>1, <1>3, StillBusy

LEMMA TakenMore == ASSUME RioInv, BoundsInv, Taken PROVE BoundsInv' /\ ResultInv'
<1>1. /\ fn' = "none" /\ wrapped' = FALSE /\ size' = 0 /\ ret' = BUSY
      /\ nleft' = 0 /\ bufp' = 0 /\ n' = 0 /\ sent' = <<>>
      /\ UNCHANGED <<rp, gap, trouble>>
  BY DEF Taken
<1>2. wrapped' \in BOOLEAN /\ gap' \in BOOLEAN /\ size' <= MaxSize
  <2>1. size' <= MaxSize
    BY <1>1, RioAssumption
  <2>2. gap' = gap
    BY <1>1
  <2>. QED
    BY <1>1, <2>1, <2>2, Zenon DEF BoundsInv
<1>3. rp' = rp /\ trouble' = trouble /\ fn' # "writen" /\ fn' # "readlineb"
  BY <1>1
<1>4. BoundsInv'
  BY <1>1, <1>2, <1>3, Zenon DEF BoundsInv
<1>. QED
  BY <1>1, <1>4, StillBusy

\* What a step of a call leaves alone.
LEMMA BoundsStay ==
  ASSUME RioInv, BoundsInv, fn # "none", UNCHANGED <<fn, size>>,
         wrapped' = wrapped, gap' \in BOOLEAN, trouble' \in 0 .. MaxTrouble,
         rp'.rio_cnt \in -1 .. RIO_BUFSIZE, rp'.rio_bufptr <= RIO_BUFSIZE,
         Len(rp'.rio_buf) <= RIO_BUFSIZE,
         fn = "readlineb" => nleft' = nleft /\ n' <= size,
         fn # "readlineb" => n' = n,
         fn # "writen" => sent' = sent,
         ret' = BUSY \/ ret' = -1 \/ (ret' \in Nat /\ (fn = "writen" => ret' <= size))
  PROVE  BoundsInv'
<1>1. ret' >= -1 \/ ret' = BUSY
  BY DEF BUSY
<1>2. fn' = "writen" => ret' <= size'
  BY DEF BUSY, RioInv, Numbers
<1>3. wrapped' \in BOOLEAN /\ fn' \in Function \cup {"none"} /\ fn' # "none"
  BY Zenon DEF BoundsInv
<1>4. size' <= MaxSize
  BY DEF BoundsInv
<1>5. /\ fn' = "readlineb" => nleft' = 0 /\ n' <= size'
      /\ fn' # "readlineb" => n' = 0
      /\ fn' # "writen" => sent' = <<>>
  BY DEF BoundsInv
<1>. QED
  BY <1>1, <1>2, <1>3, <1>4, <1>5, Zenon DEF BoundsInv

\* What Return leaves alone.
LEMMA ReturnBounds ==
  ASSUME BoundsInv, NEW x, NEW err, Return(x, err)
  PROVE  UNCHANGED <<fn, size, wrapped>> /\ gap' \in BOOLEAN /\ ret' = x
  BY DEF Return, BoundsInv

LEMMA GoesOnBounds ==
  ASSUME BoundsInv, GoesOn
  PROVE  UNCHANGED <<fn, size, wrapped, ret>> /\ gap' \in BOOLEAN
  BY DEF GoesOn, call, BoundsInv

\* A call that returns.
LEMMA ReturnMore ==
  ASSUME RioInv, BoundsInv, fn # "none", NEW x \in Int, NEW err, Return(x, err),
         x = -1 \/ (x >= 0 /\ (fn = "writen" => x <= size)),
         trouble' \in 0 .. MaxTrouble,
         rp'.rio_cnt \in -1 .. RIO_BUFSIZE, rp'.rio_bufptr <= RIO_BUFSIZE,
         Len(rp'.rio_buf) <= RIO_BUFSIZE,
         fn = "readlineb" => nleft' = nleft /\ n' <= size,
         fn # "readlineb" => n' = n,
         fn # "writen" => sent' = sent,
         x >= 0 /\ fn \in Reading => x = bufp',
         x >= 0 /\ fn \in {"readn", "readnb"} => x = size \/ AtEOF',
         x >= 0 /\ fn = "readlineb" => LineExact',
         x >= 0 /\ fn = "writen" => x = size /\ Len(sent') = size,
         x = -1 => errno' # EINTR
  PROVE  BoundsInv' /\ ResultInv'
<1>1. UNCHANGED <<fn, size, wrapped>> /\ gap' \in BOOLEAN /\ ret' = x
  BY ReturnBounds
<1>2. ret' = -1 \/ (ret' \in Nat /\ (fn = "writen" => ret' <= size))
  BY <1>1
<1>3. BoundsInv'
  BY <1>1, <1>2, BoundsStay
<1>4. ret' # BUSY
  BY <1>2 DEF BUSY
<1>5. LineInv'
  BY <1>4 DEF LineInv
<1>6. ResultExact'
  BY <1>1, <1>2 DEF ResultExact
<1>. QED
  BY <1>3, <1>5, <1>6 DEF ResultInv

\* The bounds on what read() may do.
LEMMA ReadBounds ==
  ASSUME RioInv, BoundsInv, NEW count \in Nat \ {0}, NEW r \in SysRead(count), AfterRead(r)
  PROVE  /\ r.rc \in Int /\ r.rc >= -1 /\ r.rc <= count
         /\ trouble' \in 0 .. MaxTrouble
         /\ r.rc = 0 => rd' = Len(input')
<1>1. /\ Len(input) \in Nat /\ rd \in Nat /\ rd <= Len(input)
      /\ trouble \in Nat /\ trouble <= MaxTrouble /\ MaxTrouble \in Nat
  BY LenProperties, RioAssumption DEF RioInv, Numbers, Texts, BufferInv, BoundsInv
<1>2. r.rc \in Int /\ r.rc <= count /\ (r.rc <= 0 => rd' = rd) /\ input' = input
  BY ReadEffect
<1>3. trouble' = trouble + (IF r.rc < 0 THEN 1 ELSE 0)
  BY DEF AfterRead
<1>4. CASE r \in Troubles
  <2>1. trouble < MaxTrouble /\ r.rc = -1
    BY <1>4 DEF Troubles, Error
  <2>. QED
    BY <1>1, <1>2, <1>3, <2>1
<1>5. CASE r \notin Troubles
  <2> DEFINE most == Min({count, Len(input) - rd})
  <2>1. most = (IF count <= Len(input) - rd THEN count ELSE Len(input) - rd)
    BY <1>1, MinOfTwo
  <2>2. r \in [rc : IF most = 0 THEN {0} ELSE 1 .. most, errno : {errno}]
    BY <1>5 DEF SysRead
  <2>3. r.rc \in (IF most = 0 THEN {0} ELSE 1 .. most)
    BY <2>2
  <2> HIDE DEF most
  <2>4. most \in Nat
    BY <1>1, <2>1
  <2>5. r.rc >= 0 /\ (r.rc = 0 => most = 0)
    BY <2>3, <2>4
  <2>6. most = 0 => rd = Len(input)
    BY <1>1, <2>1
  <2>. QED
    BY <1>1, <1>2, <1>3, <2>5, <2>6
<1>. QED
  BY <1>4, <1>5

\* The buffer is as it was.
LEMMA BufferBounds ==
  ASSUME BoundsInv, rp' = rp
  PROVE  /\ rp'.rio_cnt \in -1 .. RIO_BUFSIZE /\ rp'.rio_bufptr <= RIO_BUFSIZE
         /\ Len(rp'.rio_buf) <= RIO_BUFSIZE
  BY DEF BoundsInv

LEMMA FinishedMore ==
  ASSUME RioInv, BoundsInv, NEW f \in {"readn", "readnb", "writen"}, Finished(f)
  PROVE  BoundsInv' /\ ResultInv'
<1>1. /\ fn = f /\ nleft = 0 /\ Return(size, 0) /\ size \in Nat
      /\ UNCHANGED <<rp, trouble, nleft, n, sent, bufp>>
  BY DEF Finished, Busy, locals, RioInv, Numbers
<1>2. size = bufp
  BY <1>1 DEF RioInv, Numbers, LoopInv
<1>3. fn = "writen" => Len(sent) = size
  <2>1. fn = "writen" => sent = [k \in 1 .. size |-> k]
    BY <1>1 DEF RioInv, StreamExact
  <2>. QED
    BY <1>1, <2>1
<1>4. trouble' \in 0 .. MaxTrouble /\ size >= 0 /\ size \in Int
  BY <1>1 DEF BoundsInv
<1>5. sent' = sent /\ n' = n /\ nleft' = nleft /\ bufp' = bufp /\ fn # "readlineb" /\ fn # "none"
  BY <1>1
<1>. QED
  BY <1>1, <1>2, <1>3, <1>4, <1>5, BufferBounds, ReturnMore

LEMMA LineFullMore ==
  ASSUME RioInv, BoundsInv, ResultInv, LineFull
  PROVE  BoundsInv' /\ ResultInv'
<1>1. /\ fn = "readlineb" /\ ret = BUSY /\ ~(n < size) /\ Return(n - 1, 0)
      /\ UNCHANGED <<input, rd, rp, trouble, nleft, n, sent, bufp, usrbuf>>
  BY DEF LineFull, Busy, LineGoesOn, locals
<1>2. n \in Nat /\ size \in Nat /\ n <= size /\ n - 1 = bufp /\ bufp \in Nat
  BY <1>1 DEF RioInv, Numbers, LoopInv, BoundsInv
<1>3. bufp = size - 1 /\ size' = size /\ fn' = fn
  BY <1>1, <1>2 DEF Return
<1>4. Stored = usrbuf /\ Stored' = Stored
  BY <1>1, StoredAll DEF Stored, RioInv
<1>5. LineExact'
  BY <1>1, <1>2, <1>3, <1>4 DEF LineExact, ResultInv, LineInv
<1>6. trouble' \in 0 .. MaxTrouble /\ n - 1 >= 0 /\ n - 1 \in Int /\ n - 1 = bufp'
  BY <1>1, <1>2 DEF BoundsInv
<1>. QED
  BY <1>1, <1>2, <1>5, <1>6, BufferBounds, ReturnMore

LEMMA ReadnMore ==
  ASSUME RioInv, BoundsInv, ReadnStep
  PROVE  BoundsInv' /\ ResultInv'
<1>1. /\ fn = "readn" /\ ret = BUSY /\ rp' = rp /\ nleft \in Nat \ {0}
  BY DEF ReadnStep, Busy, RioInv, Numbers
<1>2. PICK r \in SysRead(nleft) :
        /\ AfterRead(r)
        /\ \/ Fatal(r) /\ Return(-1, r.errno) /\ UNCHANGED locals
           \/ AtEnd(r) /\ Return(size - nleft, 0) /\ UNCHANGED locals
           \/ ~Fatal(r) /\ ~AtEnd(r) /\ Store(Bytes(r)) /\ GoesOn
              /\ UNCHANGED <<n, sent>>
  BY DEF ReadnStep
<1>3. trouble' \in 0 .. MaxTrouble /\ (r.rc = 0 => rd' = Len(input')) /\ errno' = r.errno
  BY <1>1, <1>2, ReadBounds DEF AfterRead
<1>4. CASE Fatal(r) /\ Return(-1, r.errno) /\ UNCHANGED locals
  <2>1. errno' # EINTR /\ UNCHANGED <<n, sent>>
    BY <1>3, <1>4 DEF Fatal, locals
  <2>. QED
    BY <1>1, <1>3, <1>4, <2>1, BufferBounds, ReturnMore
<1>5. CASE AtEnd(r) /\ Return(size - nleft, 0) /\ UNCHANGED locals
  <2>1. AtEOF'
    <3>1. fn' = "readn"
      BY <1>1, <1>5 DEF Return
    <3>. QED
      BY <1>3, <1>5, <3>1 DEF AtEnd, AtEOF
  <2>2. /\ size - nleft \in Int /\ size - nleft = bufp' /\ size - nleft >= 0
        /\ UNCHANGED <<n, sent>>
    BY <1>1, <1>5 DEF RioInv, Numbers, LoopInv, locals
  <2>. QED
    BY <1>1, <1>3, <1>5, <2>1, <2>2, BufferBounds, ReturnMore
<1>6. CASE Store(Bytes(r)) /\ GoesOn /\ UNCHANGED <<n, sent>>
  <2>1. UNCHANGED <<fn, size, wrapped, ret>> /\ gap' \in BOOLEAN
    BY <1>6, GoesOnBounds
  <2>2. BoundsInv'
    BY <1>1, <1>3, <1>6, <2>1, BufferBounds, BoundsStay
  <2>. QED
    BY <1>1, <2>1, <2>2, StillBusy
<1>. QED
  BY <1>2, <1>4, <1>5, <1>6

LEMMA WritenMore ==
  ASSUME RioInv, BoundsInv, WritenStep
  PROVE  BoundsInv' /\ ResultInv'
<1>1. fn = "writen" /\ ret = BUSY /\ rp' = rp /\ nleft \in Nat \ {0}
  BY DEF WritenStep, Busy, RioInv, Numbers
<1>2. PICK r \in SysWrite(nleft) :
        /\ errno' = r.errno
        /\ trouble' = trouble + (IF r.rc <= 0 THEN 1 ELSE 0)
        /\ \/ r.rc <= 0 /\ r.errno = EINTR /\ GoesOn /\ UNCHANGED locals
           \/ r.rc <= 0 /\ r.errno # EINTR /\ UNCHANGED locals
              /\ Return(-1, IF r.rc = 0 THEN UNSET ELSE r.errno)
           \/ r.rc > 0 /\ GoesOn
              /\ sent' = sent \o [k \in 1 .. r.rc |-> bufp + k]
              /\ nleft' = nleft - r.rc /\ Advances(r.rc)
              /\ UNCHANGED <<n, usrbuf>>
  BY DEF WritenStep
<1>3. trouble' \in 0 .. MaxTrouble
  <2>1. trouble \in 0 .. MaxTrouble /\ MaxTrouble \in Nat
    BY RioAssumption DEF BoundsInv
  <2>2. CASE r \in Troubles
    <3>1. trouble < MaxTrouble
      BY <2>2 DEF Troubles
    <3>. QED
      BY <1>2, <2>1, <3>1
  <2>3. CASE r \in [rc : (IF trouble < MaxTrouble THEN {0} ELSE {}) \cup 1 .. nleft,
                    errno : {errno}]
    <3>1. r.rc <= 0 => trouble < MaxTrouble
      BY <1>1, <2>3
    <3>. QED
      BY <1>2, <2>1, <3>1
  <2>. QED
    BY <2>2, <2>3 DEF SysWrite
<1>4. n' = n
  BY <1>2 DEF locals
<1>5. CASE GoesOn
  <2>1. UNCHANGED <<fn, size, wrapped, ret>> /\ gap' \in BOOLEAN
    BY <1>5, GoesOnBounds
  <2>2. BoundsInv'
    BY <1>1, <1>3, <1>4, <2>1, BufferBounds, BoundsStay
  <2>. QED
    BY <1>1, <2>1, <2>2, StillBusy
<1>6. ASSUME NEW err, Return(-1, err), r.errno # EINTR PROVE BoundsInv' /\ ResultInv'
  BY <1>1, <1>2, <1>3, <1>4, <1>6, BufferBounds, ReturnMore
<1>. QED
  BY <1>2, <1>5, <1>6

\* Taking bytes out of the buffer does not lead past its end.
LEMMA TakeBounds ==
  ASSUME RioInv, BoundsInv, rp.rio_cnt > 0, NEW k \in Nat \ {0}, k <= rp.rio_cnt,
         rp' = Takes(k)
  PROVE  /\ rp'.rio_cnt \in -1 .. RIO_BUFSIZE /\ rp'.rio_bufptr <= RIO_BUFSIZE
         /\ Len(rp'.rio_buf) <= RIO_BUFSIZE
<1>1. PICK b \in Seq(Byte), p \in Nat, c \in Nat :
        /\ b = rp.rio_buf /\ p = rp.rio_bufptr /\ c = rp.rio_cnt
        /\ rp = [rio_cnt |-> c, rio_bufptr |-> p, rio_buf |-> b]
  BY DEF RioInv, Texts, Buffer
<1>2. /\ p + c <= Len(b) /\ Len(b) \in Nat /\ Len(b) <= RIO_BUFSIZE
      /\ c <= RIO_BUFSIZE /\ RIO_BUFSIZE \in Nat /\ k <= c
  BY <1>1, LenProperties, RioAssumption DEF RioInv, BufferInv, BoundsInv
<1>3. rp' = [rio_cnt |-> c - k, rio_bufptr |-> p + k, rio_buf |-> b]
  BY <1>1 DEF Takes
<1>. QED
  BY <1>2, <1>3

LEMMA CopyBytesMore ==
  ASSUME RioInv, BoundsInv, CopyBytes
  PROVE  BoundsInv' /\ ResultInv'
<1>1. /\ fn = "readnb" /\ ret = BUSY /\ nleft > 0 /\ rp.rio_cnt > 0
      /\ nleft \in Nat /\ rp.rio_cnt \in Int /\ GoesOn /\ UNCHANGED <<n, sent, trouble>>
  BY DEF CopyBytes, Busy, RioInv, Numbers, Texts, Buffer
<1>2. PICK k \in Nat \ {0} : k = Min({nleft, rp.rio_cnt}) /\ k <= rp.rio_cnt /\ rp' = Takes(k)
  <2>1. PICK k \in Nat \ {0} : k = Min({nleft, rp.rio_cnt}) /\ k <= rp.rio_cnt
    BY <1>1, MinOfTwo
  <2>. QED
    BY <2>1 DEF CopyBytes
<1>3. UNCHANGED <<fn, size, wrapped, ret>> /\ gap' \in BOOLEAN
  BY <1>1, GoesOnBounds
<1>4. BoundsInv'
  BY <1>1, <1>2, <1>3, TakeBounds, BoundsStay DEF BoundsInv
<1>. QED
  BY <1>1, <1>3, <1>4, StillBusy

LEMMA RefillMore ==
  ASSUME RioInv, BoundsInv, ResultInv, Refill, RioInv'
  PROVE  BoundsInv' /\ ResultInv'
<1>1. /\ fn \in {"readnb", "readlineb"} /\ ret = BUSY /\ RIO_BUFSIZE \in Nat \ {0}
      /\ fn = "readlineb" => n < size
      /\ UNCHANGED <<nleft, bufp, n, usrbuf, sent>>
  BY RioAssumption DEF Refill, Wants, Busy, LineGoesOn, locals
<1>2. PICK r \in SysRead(RIO_BUFSIZE) :
       /\ AfterRead(r)
       /\ rp' = IF r.rc > 0 THEN [rio_cnt |-> r.rc, rio_bufptr |-> 0, rio_buf |-> Bytes(r)]
                ELSE [rp EXCEPT !.rio_cnt = r.rc]
       /\ \/ Fatal(r) /\ Return(-1, r.errno)
          \/ r.rc = 0 /\ EndOfFile
          \/ (Interrupted(r) \/ r.rc > 0) /\ GoesOn
  BY DEF Refill
<1>3. /\ trouble' \in 0 .. MaxTrouble /\ (r.rc = 0 => rd' = Len(input'))
      /\ errno' = r.errno /\ r.rc \in Int /\ r.rc >= -1 /\ r.rc <= RIO_BUFSIZE
      /\ Len(Bytes(r)) <= RIO_BUFSIZE
  BY <1>1, <1>2, ReadBounds, ReadEffect DEF AfterRead
<1>4. /\ rp'.rio_cnt \in -1 .. RIO_BUFSIZE /\ rp'.rio_bufptr <= RIO_BUFSIZE
      /\ Len(rp'.rio_buf) <= RIO_BUFSIZE /\ rp'.rio_cnt = r.rc
  <2>1. rp \in Buffer /\ rp.rio_bufptr <= RIO_BUFSIZE /\ Len(rp.rio_buf) <= RIO_BUFSIZE
    BY DEF RioInv, Texts, BoundsInv
  <2>2. CASE r.rc > 0
    BY <1>1, <1>2, <1>3, <2>2
  <2>3. CASE ~(r.rc > 0)
    <3>1. rp' = [rp EXCEPT !.rio_cnt = r.rc]
      BY <1>2, <2>3
    <3>2. /\ rp'.rio_cnt = r.rc /\ rp'.rio_bufptr = rp.rio_bufptr
          /\ rp'.rio_buf = rp.rio_buf
      BY <2>1, <3>1 DEF Buffer
    <3>. QED
      BY <1>1, <1>3, <2>1, <2>3, <3>2
  <2>. QED
    BY <2>2, <2>3
<1>5. /\ bufp \in Nat /\ n \in Nat /\ size \in Nat /\ nleft \in Nat
      /\ fn = "readlineb" => n = bufp + 1
      /\ fn = "readnb" => size - nleft = bufp
  BY DEF RioInv, Numbers, LoopInv
<1>6. CASE Fatal(r) /\ Return(-1, r.errno)
  <2>1. errno' # EINTR
    BY <1>3, <1>6 DEF Fatal
  <2>. QED
    BY <1>1, <1>3, <1>4, <1>5, <1>6, <2>1, ReturnMore
<1>7. CASE r.rc = 0 /\ EndOfFile
  <2>1. PICK w : Return(w, 0) /\ w = IF fn = "readnb" THEN size - nleft ELSE n - 1
    BY <1>7 DEF EndOfFile
  <2>2. w = bufp /\ w = bufp' /\ w \in Int /\ w >= 0 /\ fn' = fn /\ size' = size
    BY <1>1, <1>5, <2>1 DEF Return
  <2>3. AtEOF'
    <3>1. Unread' = <<>>
      <4>1. (rp.rio_cnt <= 0)'
        BY <1>4, <1>7
      <4>2. (RioInv /\ rp.rio_cnt <= 0 => Unread = <<>>)'
        BY UnreadNone, PTL
      <4>. QED
        BY <4>1, <4>2
    <3>. QED
      BY <1>3, <1>7, <3>1 DEF AtEOF
  <2>4. ASSUME fn = "readlineb" PROVE LineExact'
    <3>1. Stored = usrbuf /\ Stored' = Stored
      BY <1>1, <2>4, StoredAll DEF Stored, RioInv
    <3>2. bufp < size
      BY <1>1, <1>5, <2>4
    <3>3. \A k \in 1 .. bufp - 1 : usrbuf[k] # NEWLINE
      BY <1>1, <1>5, <2>4 DEF ResultInv, LineInv
    <3>. QED
      BY <1>1, <2>2, <2>3, <3>1, <3>2, <3>3 DEF LineExact
  <2>. QED
    BY <1>1, <1>3, <1>4, <1>5, <2>1, <2>2, <2>3, <2>4, ReturnMore
<1>8. CASE GoesOn
  <2>1. UNCHANGED <<fn, size, wrapped, ret>> /\ gap' \in BOOLEAN
    BY <1>8, GoesOnBounds
  <2>2. BoundsInv'
    BY <1>1, <1>3, <1>4, <1>5, <2>1, BoundsStay
  <2>3. ResultInv'
    BY <1>1, <2>1 DEF ResultInv, LineInv, ResultExact
  <2>. QED
    BY <2>2, <2>3
<1>. QED
  BY <1>2, <1>6, <1>7, <1>8

LEMMA CopyCharMore ==
  ASSUME RioInv, BoundsInv, ResultInv, CopyChar, RioInv'
  PROVE  BoundsInv' /\ ResultInv'
<1>1. /\ fn = "readlineb" /\ ret = BUSY /\ rp.rio_cnt > 0 /\ n < size
      /\ rp' = Takes(1) /\ n' = n + 1 /\ bufp' = bufp + 1
      /\ UNCHANGED <<input, rd, got, nleft, sent, trouble>>
  BY DEF CopyChar, Busy, LineGoesOn
<1>2. PICK c : c = Head(Unread)
  OBVIOUS
<1>3. /\ rp'.rio_cnt \in -1 .. RIO_BUFSIZE /\ rp'.rio_bufptr <= RIO_BUFSIZE
      /\ Len(rp'.rio_buf) <= RIO_BUFSIZE
  <2>1. rp.rio_cnt \in Int
    BY DEF RioInv, Texts, Buffer
  <2>2. 1 \in Nat \ {0} /\ 1 <= rp.rio_cnt
    BY <1>1, <2>1
  <2>. QED
    BY <1>1, <2>2, TakeBounds
<1>4. /\ bufp \in Nat /\ n \in Nat /\ size \in Nat /\ n = bufp + 1
      /\ n' <= size /\ trouble' \in 0 .. MaxTrouble
  BY <1>1 DEF RioInv, Numbers, LoopInv, BoundsInv
<1>5. /\ usrbuf \in Seq(Byte) /\ Len(usrbuf) = bufp /\ Stored = usrbuf
      /\ usrbuf' = usrbuf \o <<c>> /\ Len(usrbuf') = bufp'
  <2>1. usrbuf \in Seq(Byte) /\ Len(usrbuf) = bufp /\ Stored = usrbuf
    BY <1>1, StoredAll DEF RioInv, Texts, StoredInv
  <2>2. usrbuf' = usrbuf \o <<c>>
    BY <1>2, <2>1 DEF CopyChar, Stored
  <2>. QED
    BY ONLY <1>1, <1>4, <2>1, <2>2
<1>6. \A k \in 1 .. bufp : usrbuf'[k] = usrbuf[k] /\ usrbuf'[k] # NEWLINE
  BY <1>1, <1>4, <1>5 DEF ResultInv, LineInv
<1>7. usrbuf'[bufp'] = c
  BY <1>1, <1>4, <1>5
<1>8. CASE c = NEWLINE /\ Return(n, 0)
  <2>1. fn' = fn /\ size' = size
    BY <1>8 DEF Return
  <2>2. Stored' = usrbuf'
    <3>1. usrbuf' \in Seq(Byte)
      BY DEF RioInv, Texts
    <3>. QED
      BY <1>5, <3>1, SubSeqFull DEF Stored
  <2>3. LineExact'
    <3>1. \A k \in 1 .. bufp' - 1 : usrbuf'[k] # NEWLINE
      BY <1>1, <1>4, <1>6
    <3>2. bufp' < size' /\ bufp' > 0 /\ usrbuf'[bufp'] = NEWLINE
      BY <1>1, <1>4, <1>7, <1>8, <2>1
    <3>. QED
      BY <2>2, <3>1, <3>2 DEF LineExact
  <2>4. n \in Int /\ n >= 0 /\ n = bufp'
    BY <1>1, <1>4
  <2>. QED
    BY <1>1, <1>3, <1>4, <1>8, <2>3, <2>4, ReturnMore
<1>9. CASE c # NEWLINE /\ GoesOn
  <2>1. UNCHANGED <<fn, size, wrapped, ret>> /\ gap' \in BOOLEAN
    BY <1>9, GoesOnBounds
  <2>2. BoundsInv'
    BY <1>1, <1>3, <1>4, <2>1, BoundsStay
  <2>3. \A k \in 1 .. bufp' : usrbuf'[k] # NEWLINE
    BY <1>1, <1>4, <1>6, <1>7, <1>9
  <2>4. ResultInv'
    BY <1>1, <2>1, <2>3 DEF ResultInv, LineInv, ResultExact
  <2>. QED
    BY <2>2, <2>4
<1>. QED
  BY <1>2, <1>8, <1>9 DEF CopyChar

LEMMA RioNextMore ==
  ASSUME RioInv, BoundsInv, ResultInv, RioNext
  PROVE  BoundsInv' /\ ResultInv'
<1>1. RioInv'
  BY RioNextInv
<1>2. CASE RioStep
  BY <1>1, <1>2, ReadnMore, WritenMore, FinishedMore, RefillMore, CopyBytesMore,
     CopyCharMore, LineFullMore DEF RioStep
<1>. QED
  BY <1>2, CallMore, ReadInitMore, TakenMore DEF RioNext

\* Between two calls errno may change.
LEMMA RioStays ==
  ASSUME RioInv, BoundsInv, ResultInv, UNCHANGED rioVars, errno' = errno \/ fn = "none"
  PROVE  BoundsInv' /\ ResultInv'
<1>1. UNCHANGED <<input, rd, rp, got, gap, trouble, nleft, bufp, n, usrbuf, sent,
                  fn, wrapped, size, ret>>
  BY DEF rioVars, stream, locals, call
<1>2. Unread' = Unread /\ Stored' = Stored
  BY <1>1 DEF Unread, Stored
<1>3. BoundsInv' /\ LineInv'
  BY <1>1 DEF BoundsInv, ResultInv, LineInv
<1>4. (AtEOF' <=> AtEOF) /\ (LineExact' <=> LineExact)
  BY <1>1, <1>2 DEF AtEOF, LineExact
<1>5. ResultExact'
  <2>1. CASE fn = "none"
    BY <1>1, <2>1 DEF RioInv, LoopInv, ResultExact
  <2>2. CASE errno' = errno
    BY <1>1, <1>4, <2>2 DEF ResultInv, ResultExact
  <2>. QED
    BY <2>1, <2>2
<1>. QED
  BY <1>3, <1>5 DEF ResultInv


-----------------------------------------------------------------------------
(* The errors that the wrappers report                                     *)

\* What Return does to the outcome of the process.
LEMMA ReturnReports ==
  ASSUME ErrorsAreFatal, status = RUNNING, NEW x, NEW err, Return(x, err),
         wrapped /\ Rejected(x) => err # 0 /\ (err # UNSET => errno' = err)
  PROVE  ErrorsAreFatal'
  BY DEF Return, ErrorsAreFatal, Exits, Returns, RUNNING, UNSET

LEMMA GoesOnReports == ErrorsAreFatal /\ GoesOn => ErrorsAreFatal'
  BY DEF GoesOn, ErrorsAreFatal

\* An error of a system call; a value that its wrapper accepts.
LEMMA FatalReports ==
  ASSUME ErrorsAreFatal, status = RUNNING, NEW e \in ERRNO, Return(-1, e), errno' = e
  PROVE  ErrorsAreFatal'
  BY ErrnoAssumption, ReturnReports

LEMMA AcceptedReports ==
  ASSUME ErrorsAreFatal, status = RUNNING, NEW w \in Nat, Return(w, 0),
         fn = "writen" => w = size
  PROVE  ErrorsAreFatal'
<1>1. ~Rejected(w)
  BY DEF Rejected
<1>. QED
  BY <1>1, ReturnReports

LEMMA RioReports == ErrorsAreFatal /\ RioInv /\ RioNext => ErrorsAreFatal'
<1> SUFFICES ASSUME ErrorsAreFatal, RioInv, RioNext PROVE ErrorsAreFatal'
  OBVIOUS
<1> USE DEF Busy
<1>1. ASSUME NEW f, Call(f) PROVE ErrorsAreFatal'
  BY <1>1 DEF Call, process, ErrorsAreFatal
<1>2. CASE ReadInit \/ Taken
  BY <1>2 DEF ReadInit, Taken, process, ErrorsAreFatal
<1>3. CASE ReadnStep
  <2>1. PICK r \in SysRead(nleft) :
        /\ AfterRead(r)
        /\ \/ Fatal(r) /\ Return(-1, r.errno)
           \/ AtEnd(r) /\ Return(size - nleft, 0)
           \/ GoesOn
    BY <1>3 DEF ReadnStep
  <2>2. /\ status = RUNNING /\ fn = "readn" /\ nleft \in Nat \ {0}
        /\ size - nleft \in Nat
    BY <1>3 DEF ReadnStep, RioInv, Numbers, LoopInv
  <2>3. (r.rc < 0 => r.errno \in ERRNO) /\ errno' = r.errno
    BY <2>1, <2>2, ReadEffect
  <2>. QED
    BY <2>1, <2>2, <2>3, FatalReports, AcceptedReports, GoesOnReports DEF Fatal
<1>4. ASSUME NEW f, Finished(f) PROVE ErrorsAreFatal'
  <2>1. status = RUNNING /\ size \in Nat /\ Return(size, 0)
    BY <1>4 DEF Finished, RioInv, Numbers
  <2>. QED
    BY <2>1, AcceptedReports
<1>5. CASE WritenStep
  <2>1. PICK r \in SysWrite(nleft) :
          /\ errno' = r.errno
          /\ \/ GoesOn
             \/ r.rc <= 0 /\ Return(-1, IF r.rc = 0 THEN UNSET ELSE r.errno)
    BY <1>5 DEF WritenStep
  <2>2. r.rc <= 0 => r.rc = 0 \/ r.errno \in ERRNO
    <3>1. CASE r \in Troubles
      BY <3>1 DEF Troubles, Error
    <3>2. CASE r \in [rc : (IF trouble < MaxTrouble THEN {0} ELSE {}) \cup 1 .. nleft,
                      errno : {errno}]
      BY <3>2
    <3>. QED
      BY <3>1, <3>2 DEF SysWrite
  <2>3. status = RUNNING
    BY <1>5 DEF WritenStep
  <2>4. ASSUME r.rc = 0, Return(-1, UNSET) PROVE ErrorsAreFatal'
    BY <2>3, <2>4, ReturnReports DEF UNSET
  <2>. QED
    BY <2>1, <2>2, <2>3, <2>4, FatalReports, GoesOnReports
<1>6. CASE Refill
  <2>1. PICK r \in SysRead(RIO_BUFSIZE) :
        /\ AfterRead(r)
        /\ \/ Fatal(r) /\ Return(-1, r.errno)
           \/ EndOfFile
           \/ GoesOn
    BY <1>6 DEF Refill
  <2>2. /\ status = RUNNING /\ fn \in {"readnb", "readlineb"}
        /\ RIO_BUFSIZE \in Nat \ {0}
    BY <1>6, RioAssumption DEF Refill, Wants
  <2>3. (r.rc < 0 => r.errno \in ERRNO) /\ errno' = r.errno
    BY <2>1, <2>2, ReadEffect
  <2>4. CASE EndOfFile
    <3>1. PICK w : Return(w, 0) /\ w = IF fn = "readnb" THEN size - nleft ELSE n - 1
      BY <2>4 DEF EndOfFile
    <3>2. w \in Nat
      BY <2>2, <3>1 DEF RioInv, Numbers, LoopInv
    <3>. QED
      BY <2>2, <3>1, <3>2, AcceptedReports
  <2>. QED
    BY <2>1, <2>2, <2>3, <2>4, FatalReports, GoesOnReports DEF Fatal
<1>7. CASE CopyBytes
  BY <1>7, GoesOnReports DEF CopyBytes
<1>8. CASE CopyChar
  <2>1. status = RUNNING /\ fn = "readlineb" /\ n \in Nat
    BY <1>8 DEF CopyChar, RioInv, Numbers
  <2>. QED
    BY <1>8, <2>1, AcceptedReports, GoesOnReports DEF CopyChar
<1>9. CASE LineFull
  <2>1. status = RUNNING /\ fn = "readlineb" /\ n - 1 \in Nat /\ Return(n - 1, 0)
    BY <1>9 DEF LineFull, RioInv, Numbers, LoopInv
  <2>. QED
    BY <2>1, AcceptedReports
<1>. QED
  BY <1>1, <1>2, <1>3, <1>4, <1>5, <1>6, <1>7, <1>8, <1>9 DEF RioNext, RioStep

-----------------------------------------------------------------------------
(* The wrappers                                                            *)

LEMMA UnixReports ==
  /\ ErrorsAreFatal /\ Unix(Uninterrupted) => ErrorsAreFatal'
  /\ ErrorsAreFatal /\ Unix(Interruptible) => ErrorsAreFatal'
  BY ErrnoAssumption
     DEF ErrorsAreFatal, Unix, Wrapper, Uninterrupted, Interruptible, Succeeds,
         Fails, Negative, unix_error, Exits, Returns, RUNNING, UNSET

LEMMA CodeReports ==
  /\ ErrorsAreFatal /\ Posix => ErrorsAreFatal'
  /\ ErrorsAreFatal /\ Gai => ErrorsAreFatal'
  BY ErrnoAssumption
     DEF ErrorsAreFatal, Posix, Gai, Wrapper, Code, Succeeds, Nonzero,
         posix_error, gai_error, Exits, Returns, RUNNING, UNSET

LEMMA AllocatesReports == ErrorsAreFatal /\ Allocates => ErrorsAreFatal'
  BY ErrnoAssumption
     DEF ErrorsAreFatal, Allocates, Wrapper, Pointer, Succeeds, Fails, IsNull,
         NULL, unix_error, Exits, Returns, RUNNING, UNSET

LEMMA PlainReports == ErrorsAreFatal /\ Plain => ErrorsAreFatal'
  BY ErrnoAssumption
     DEF ErrorsAreFatal, Plain, Wrapper, Succeeds, Never, unix_error, Exits,
         Returns, RUNNING, UNSET

LEMMA ProcessControlReports == ErrorsAreFatal /\ ProcessControl => ErrorsAreFatal'
<1> USE ErrnoAssumption DEF ErrorsAreFatal, Wrapper, Fails, unix_error, Exits,
        Returns, RUNNING, UNSET
<1>1. ErrorsAreFatal /\ Execve => ErrorsAreFatal'
  BY DEF Execve, Unix, Negative
<1>2. ErrorsAreFatal /\ Pause => ErrorsAreFatal'
  BY DEF Pause, Awakened, Never
<1>. QED
  BY <1>1, <1>2, UnixReports, PlainReports
     DEF ProcessControl, Fork, Wait, Waitpid, Kill, Sleep, Alarm, Setpgid, Getpgrp

LEMMA SignalsReports == ErrorsAreFatal /\ Signals => ErrorsAreFatal'
<1>1. ErrorsAreFatal /\ Sigsuspend => ErrorsAreFatal'
  BY ErrnoAssumption
     DEF Sigsuspend, Awakened, Fails, Wrapper, unix_error, Exits, Returns,
         ErrorsAreFatal, RUNNING, UNSET
<1>. QED
  BY <1>1, UnixReports
     DEF Signals, Signal, Sigprocmask, Sigemptyset, Sigfillset, Sigaddset,
         Sigdelset, Sigismember

LEMMA UnixIOReports == ErrorsAreFatal /\ UnixIO => ErrorsAreFatal'
<1> USE ErrnoAssumption DEF Succeeds, Fails, Wrapper, unix_error, Exits, Returns,
        RUNNING, UNSET
<1>1. ErrorsAreFatal /\ Readdir => ErrorsAreFatal'
  BY DEF ErrorsAreFatal, Readdir, readdir, IsNull, NULL
<1>2. ErrorsAreFatal /\ Mmap => ErrorsAreFatal'
  BY DEF ErrorsAreFatal, Mmap, MAP_FAILED
<1>. QED
  BY <1>1, <1>2, UnixReports, AllocatesReports
     DEF UnixIO, Open, Read, Write, Lseek, Close, Select, Dup2, Stat, Fstat,
         Opendir, Closedir, Munmap

LEMMA StandardIOReports == ErrorsAreFatal /\ StandardIO => ErrorsAreFatal'
<1> USE ErrnoAssumption DEF Succeeds, Fails, Wrapper, unix_error, Exits, Returns,
        RUNNING, UNSET
<1>1. ErrorsAreFatal /\ Fclose => ErrorsAreFatal'
  BY DEF ErrorsAreFatal, Fclose, Nonzero, EOF
<1>2. ErrorsAreFatal /\ Fgets => ErrorsAreFatal'
  BY DEF ErrorsAreFatal, Fgets, Stream, IsNull, NULL, app_error, APP
<1>3. ErrorsAreFatal /\ Fputs => ErrorsAreFatal'
  BY DEF ErrorsAreFatal, Fputs, EOF
<1>4. ErrorsAreFatal /\ Fread => ErrorsAreFatal'
  BY DEF ErrorsAreFatal, Fread, Stream
<1>5. ErrorsAreFatal /\ Fwrite => ErrorsAreFatal'
  BY DEF ErrorsAreFatal, Fwrite
<1>. QED
  BY <1>1, <1>2, <1>3, <1>4, <1>5, AllocatesReports DEF StandardIO, Fdopen, Fopen

LEMMA NetworkReports == ErrorsAreFatal /\ Network => ErrorsAreFatal'
<1> USE ErrnoAssumption DEF Succeeds, Fails, Wrapper, unix_error, app_error,
        dns_error, APP, Exits, Returns, RUNNING, UNSET
<1>1. ErrorsAreFatal /\ Inet_pton => ErrorsAreFatal'
  BY DEF ErrorsAreFatal, Inet_pton
<1>2. ErrorsAreFatal /\ (Gethostbyname \/ Gethostbyaddr) => ErrorsAreFatal'
  BY DEF ErrorsAreFatal, Gethostbyname, Gethostbyaddr, Resolver, IsNull, NULL
<1>. QED
  BY <1>1, <1>2, UnixReports, CodeReports, AllocatesReports, PlainReports
     DEF Network, Socket, Setsockopt, Bind, Listen, Accept, Connect, Getaddrinfo,
         Getnameinfo, Freeaddrinfo, Inet_ntop

LEMMA WrappersReport == ErrorsAreFatal /\ WrappedCall => ErrorsAreFatal'
<1>1. ErrorsAreFatal /\ Storage => ErrorsAreFatal'
  BY AllocatesReports, PlainReports DEF Storage, Malloc, Realloc, Calloc, Free
<1>2. ErrorsAreFatal /\ Threads => ErrorsAreFatal'
  BY UnixReports, CodeReports, PlainReports
     DEF Threads, Pthread_create, Pthread_cancel, Pthread_join, Pthread_detach,
         Pthread_self, Pthread_once, Sem_init, P, V
<1>. QED
  BY <1>1, <1>2, ProcessControlReports, SignalsReports, UnixIOReports,
     StandardIOReports, NetworkReports DEF WrappedCall

-----------------------------------------------------------------------------
(* The socket functions                                                    *)

Attached == {"attach", "close", "cleanup", "listen"}

\* While a call runs it holds one socket of its own or none; and an errno that
\* it can still report was set by one of its own system calls.
SocketsInv ==
  /\ NoDescriptorLost
  /\ opened \subseteq Descriptor /\ rest \in Nat
  /\ open_pc = "close" \/ (open_pc = "socket" /\ rest = 0)
       => errno \in ERRNO /\ why = errno
  /\ open_pc \in {"cleanup", "close", "attach"} => rest > 0

LEMMA LeaveEffect ==
  ASSUME NEW rc \in Int, NEW err, Leave(rc, err)
  PROVE  /\ open_pc' = "none" /\ rest' = 0
         /\ rc < 0 => held' = held
         /\ rc >= 0 => held' = held \cup {rc}
  BY DEF Leave

LEMMA LeaveReports ==
  ASSUME ErrorsAreFatal, status = RUNNING, NEW rc \in Int, NEW err, Leave(rc, err),
         rc < 0 => err = UNSET \/ (err = errno' /\ err \in ERRNO)
  PROVE  ErrorsAreFatal'
  BY ErrnoAssumption
     DEF ErrorsAreFatal, Leave, Exits, Returns, RUNNING, UNSET

LEMMA OpenCallStep ==
  ASSUME ErrorsAreFatal, SocketsInv, NEW f, OpenCall(f)
  PROVE  ErrorsAreFatal' /\ SocketsInv'
<1> USE SocketsAssumption DEF SocketsInv, NoDescriptorLost, At, Goto
<1>1. CASE open_pc' = "socket" /\ Goto("socket")
  <2>1. rest' \in Nat /\ rest' > 0 /\ opened' = opened /\ held' = held
    BY <1>1 DEF OpenCall, Leave
  <2>2. ErrorsAreFatal'
    BY <1>1 DEF ErrorsAreFatal
  <2>. QED
    BY <1>1, <2>1, <2>2 DEF OpenCall
<1>2. CASE Leave(-2, UNSET)
  <2>1. ErrorsAreFatal'
    BY <1>2, LeaveReports DEF OpenCall
  <2>2. open_pc' = "none" /\ rest' = 0 /\ held' = held /\ opened' = opened
    BY <1>2, LeaveEffect DEF OpenCall
  <2>. QED
    BY <2>1, <2>2 DEF OpenCall
<1>. QED
  BY <1>1, <1>2 DEF OpenCall

LEMMA NewSocketStep ==
  ASSUME ErrorsAreFatal, SocketsInv, NewSocket
  PROVE  ErrorsAreFatal' /\ SocketsInv'
<1> USE SocketsAssumption DEF SocketsInv, NoDescriptorLost, At, Goto, GoesTo
<1>1. /\ ErrorsAreFatal' /\ held' = held
      /\ open_pc = "socket" /\ opened \ held = {} /\ held \subseteq opened
  BY DEF NewSocket, ErrorsAreFatal
<1>2. ASSUME NEW s \in Descriptor \ opened, GoesTo("attach"), clientfd' = s,
             opened' = opened \cup {s}, UNCHANGED <<errno, rest, why>>
      PROVE  SocketsInv'
  <2>1. opened' \ held' = {clientfd'} /\ held' \subseteq opened'
    BY <1>1, <1>2
  <2>2. rest > 0
    BY DEF NewSocket
  <2>. QED
    BY <1>2, <2>1, <2>2
<1>3. ASSUME GoesTo("socket"), errno' \in ERRNO \ {EINTR}, why' = errno', rest' = rest - 1,
             UNCHANGED <<clientfd, opened>>
      PROVE  SocketsInv'
  <2>1. rest' \in Nat
    BY <1>3 DEF NewSocket
  <2>2. opened' \ held' = {} /\ held' \subseteq opened'
    BY <1>1, <1>3
  <2>. QED
    BY <1>3, <2>1, <2>2
<1>. QED
  BY <1>1, <1>2, <1>3 DEF NewSocket

LEMMA AttachStep ==
  ASSUME ErrorsAreFatal, SocketsInv, Attach
  PROVE  ErrorsAreFatal' /\ SocketsInv'
  BY DEF Attach, ErrorsAreFatal, SocketsInv, NoDescriptorLost, At, Goto, GoesTo

\* The socket of the call is closed.
LEMMA OwnClosed ==
  ASSUME SocketsInv, open_pc \in Attached, Closes(clientfd), held' = held
  PROVE  opened' \ held' = {} /\ held' \subseteq opened' /\ opened' \subseteq Descriptor
<1>1. opened \ held = {clientfd} /\ held \subseteq opened
  BY DEF SocketsInv, NoDescriptorLost, Attached
<1>. QED
  BY <1>1 DEF Closes, SocketsInv

LEMMA CloseSocketStep ==
  ASSUME ErrorsAreFatal, SocketsInv, CloseSocket
  PROVE  ErrorsAreFatal' /\ SocketsInv'
<1> USE DEF At, Goto, GoesTo
<1>1. /\ open_pc = "close" /\ status = RUNNING /\ Closes(clientfd)
      /\ errno \in ERRNO /\ why = errno /\ rest \in Nat /\ rest > 0
  BY DEF CloseSocket, SocketsInv
<1>2. CASE GoesTo("socket") /\ rest' = rest - 1 /\ UNCHANGED <<errno, clientfd, why>>
  <2>1. opened' \ held' = {} /\ held' \subseteq opened' /\ opened' \subseteq Descriptor
    BY <1>1, <1>2, OwnClosed DEF Attached
  <2>2. ErrorsAreFatal'
    BY <1>2 DEF ErrorsAreFatal
  <2>. QED
    BY <1>1, <1>2, <2>1, <2>2 DEF SocketsInv, NoDescriptorLost
<1>3. CASE errno' \in ERRNO /\ Leave(-1, errno')
  <2>1. open_pc' = "none" /\ rest' = 0 /\ held' = held
    BY <1>3, LeaveEffect
  <2>2. opened' \ held' = {} /\ held' \subseteq opened' /\ opened' \subseteq Descriptor
    BY <1>1, <2>1, OwnClosed DEF Attached
  <2>3. ErrorsAreFatal'
    BY <1>1, <1>3, LeaveReports
  <2>. QED
    BY <2>1, <2>2, <2>3 DEF SocketsInv, NoDescriptorLost
<1>. QED
  BY <1>2, <1>3 DEF CloseSocket

LEMMA CleanupStep ==
  ASSUME ErrorsAreFatal, SocketsInv, Cleanup
  PROVE  ErrorsAreFatal' /\ SocketsInv'
<1> USE SocketsAssumption DEF At, Goto, GoesTo
<1>1. /\ status = RUNNING /\ errno' = errno /\ opened' = opened /\ rest \in Nat
      /\ opened \subseteq Descriptor /\ held \subseteq opened
  BY DEF Cleanup, SocketsInv, NoDescriptorLost
<1>2. CASE rest = 0 /\ Leave(-1, why)
  <2>1. open_pc = "socket" /\ errno \in ERRNO /\ why = errno
    BY <1>2 DEF Cleanup, SocketsInv
  <2>2. open_pc' = "none" /\ rest' = 0 /\ held' = held
    BY <1>2, LeaveEffect
  <2>3. ErrorsAreFatal'
    BY <1>1, <1>2, <2>1, LeaveReports
  <2>. QED
    BY <1>1, <2>1, <2>2, <2>3 DEF SocketsInv, NoDescriptorLost
<1>3. CASE rest > 0
  <2>1. open_pc = "cleanup" /\ opened \ held = {clientfd}
    BY <1>3 DEF Cleanup, SocketsInv, NoDescriptorLost
  <2>2. clientfd \in Nat
    BY <1>1, <2>1
  <2>3. CASE Leave(clientfd, 0)
    <3>1. open_pc' = "none" /\ rest' = 0 /\ held' = held \cup {clientfd}
      BY <2>2, <2>3, LeaveEffect
    <3>2. ErrorsAreFatal'
      BY <1>1, <2>2, <2>3, LeaveReports
    <3>3. opened' \ held' = {} /\ held' \subseteq opened'
      BY <1>1, <2>1, <3>1
    <3>. QED
      BY <1>1, <3>1, <3>2, <3>3 DEF SocketsInv, NoDescriptorLost
  <2>4. CASE GoesTo("listen") /\ UNCHANGED <<clientfd, rest, why>>
    <3>1. ErrorsAreFatal'
      BY <2>4 DEF ErrorsAreFatal
    <3>. QED
      BY <1>1, <2>1, <2>4, <3>1 DEF SocketsInv, NoDescriptorLost
  <2>. QED
    BY <1>3, <2>3, <2>4 DEF Cleanup
<1>. QED
  BY <1>1, <1>2, <1>3 DEF Cleanup

LEMMA ListenStep ==
  ASSUME ErrorsAreFatal, SocketsInv, ListenCall
  PROVE  ErrorsAreFatal' /\ SocketsInv'
<1> USE SocketsAssumption DEF At
<1>1. /\ open_pc = "listen" /\ status = RUNNING
      /\ opened \ held = {clientfd} /\ held \subseteq opened
      /\ opened \subseteq Descriptor
  BY DEF ListenCall, SocketsInv, NoDescriptorLost
<1>2. CASE UNCHANGED <<errno, opened>> /\ Leave(clientfd, 0)
  <2>1. clientfd \in Nat
    BY <1>1
  <2>2. open_pc' = "none" /\ rest' = 0 /\ held' = held \cup {clientfd}
    BY <1>2, <2>1, LeaveEffect
  <2>3. ErrorsAreFatal'
    BY <1>1, <1>2, <2>1, LeaveReports
  <2>4. opened' \ held' = {} /\ held' \subseteq opened'
    BY <1>1, <1>2, <2>2
  <2>. QED
    BY <1>1, <1>2, <2>2, <2>3, <2>4 DEF SocketsInv, NoDescriptorLost
<1>3. ASSUME errno' \in ERRNO, Closes(clientfd), NEW err \in {errno', UNSET}, Leave(-1, err)
      PROVE  ErrorsAreFatal' /\ SocketsInv'
  <2>1. open_pc' = "none" /\ rest' = 0 /\ held' = held
    BY <1>3, LeaveEffect
  <2>2. opened' \ held' = {} /\ held' \subseteq opened' /\ opened' \subseteq Descriptor
    BY <1>1, <1>3, <2>1, OwnClosed DEF Attached
  <2>3. ErrorsAreFatal'
    BY <1>1, <1>3, LeaveReports
  <2>. QED
    BY <2>1, <2>2, <2>3 DEF SocketsInv, NoDescriptorLost
<1>. QED
  BY <1>2, <1>3 DEF ListenCall

LEMMA SocketsStep ==
  ASSUME ErrorsAreFatal, SocketsInv, SocketsNext
  PROVE  ErrorsAreFatal' /\ SocketsInv'
<1>1. ASSUME NEW s \in Descriptor, CallerCloses(s)
      PROVE  ErrorsAreFatal' /\ SocketsInv'
  <2>1. ErrorsAreFatal'
    BY <1>1 DEF CallerCloses, process, ErrorsAreFatal
  <2>2. opened' \ held' = opened \ held /\ held' \subseteq opened'
    BY <1>1 DEF CallerCloses, SocketsInv, NoDescriptorLost
  <2>. QED
    BY <1>1, <2>1, <2>2 DEF CallerCloses, process, SocketsInv, NoDescriptorLost
<1>. QED
  BY <1>1, OpenCallStep, NewSocketStep, AttachStep, CloseSocketStep, CleanupStep,
     ListenStep DEF SocketsNext, OpenStep

-----------------------------------------------------------------------------
(* The types of the socket functions                                       *)

LEMMA LeaveTypes ==
  ASSUME SocketsTypeOK, NEW rc \in Descriptor \cup {NOFD, -2}, NEW err, Leave(rc, err),
         opened' \subseteq Descriptor, listp' \in BOOLEAN
  PROVE  SocketsTypeOK'
<1>1. rc \in Int /\ (rc >= 0 => rc \in Descriptor)
  BY SocketsAssumption DEF NOFD
<1>2. held' \subseteq Descriptor
  BY <1>1 DEF Leave, SocketsTypeOK
<1>3. open_pc' = "none" /\ kind' = "none" /\ clientfd' = NOFD /\ rest' = 0
      /\ why' = 0
  BY DEF Leave
<1>4. rest' \in 0 .. MaxAddresses
  BY <1>3, SocketsAssumption
<1>. QED
  BY <1>2, <1>3, <1>4 DEF SocketsTypeOK

LEMMA SocketsTypes ==
  ASSUME SocketsInv, SocketsTypeOK, SocketsNext
  PROVE  SocketsTypeOK'
<1> USE SocketsAssumption DEF At, Goto, GoesTo
<1>1. /\ rest \in Nat /\ rest \in 0 .. MaxAddresses /\ MaxAddresses \in Nat
      /\ clientfd \in Descriptor \cup {NOFD} /\ opened \subseteq Descriptor
      /\ listp \in BOOLEAN
  BY DEF SocketsTypeOK
<1>2. ASSUME NEW f \in {"client", "listen"}, OpenCall(f) PROVE SocketsTypeOK'
  <2>1. CASE Leave(-2, UNSET) /\ UNCHANGED <<listp, opened>>
    BY <1>1, <2>1, LeaveTypes
  <2>2. CASE /\ Goto("socket") /\ kind' = f /\ listp' = TRUE
             /\ rest' \in 1 .. MaxAddresses /\ UNCHANGED <<clientfd, opened, why>>
    BY <1>1, <2>2 DEF SocketsTypeOK, OpenPC
  <2>. QED
    BY <1>2, <2>1, <2>2 DEF OpenCall
<1>3. CASE NewSocket
  <2>1. listp' = listp /\ rest > 0
    BY <1>3 DEF NewSocket
  <2>2. ASSUME NEW s \in Descriptor, GoesTo("attach"), clientfd' = s,
               opened' = opened \cup {s}, rest' = rest, why' = why
        PROVE  SocketsTypeOK'
    BY <1>1, <2>1, <2>2 DEF SocketsTypeOK, OpenPC
  <2>3. ASSUME GoesTo("socket"), rest' = rest - 1, UNCHANGED <<clientfd, opened>>,
               why' \in ERRNO
        PROVE  SocketsTypeOK'
    <3>1. rest' \in 0 .. MaxAddresses
      BY <1>1, <2>1, <2>3
    <3>. QED
      BY <2>1, <2>3, <3>1 DEF SocketsTypeOK, OpenPC
  <2>. QED
    BY <1>3, <2>2, <2>3 DEF NewSocket
<1>4. CASE Attach
  BY <1>4 DEF Attach, SocketsTypeOK, OpenPC
<1>5. CASE CloseSocket
  <2>1. opened' \subseteq Descriptor /\ listp' = listp /\ rest > 0
    BY <1>1, <1>5 DEF CloseSocket, Closes, SocketsInv
  <2>2. CASE GoesTo("socket") /\ rest' = rest - 1 /\ UNCHANGED <<errno, clientfd, why>>
    BY <1>1, <2>1, <2>2 DEF SocketsTypeOK, OpenPC
  <2>3. CASE Leave(-1, errno')
    BY <1>1, <2>1, <2>3, LeaveTypes DEF NOFD
  <2>. QED
    BY <1>5, <2>2, <2>3 DEF CloseSocket
<1>6. CASE Cleanup
  <2>1. opened' = opened /\ listp' = FALSE
    BY <1>6 DEF Cleanup
  <2>2. CASE Leave(-1, why) \/ Leave(clientfd, 0)
    BY <1>1, <2>1, <2>2, LeaveTypes DEF NOFD
  <2>3. CASE GoesTo("listen") /\ UNCHANGED <<clientfd, rest, why>>
    BY <2>1, <2>3 DEF SocketsTypeOK, OpenPC
  <2>. QED
    BY <1>6, <2>2, <2>3 DEF Cleanup
<1>7. CASE ListenCall
  <2>1. opened' \subseteq Descriptor /\ listp' = listp
    BY <1>1, <1>7 DEF ListenCall, Closes
  <2>. QED
    BY <1>1, <1>7, <2>1, LeaveTypes DEF ListenCall, NOFD
<1>8. ASSUME NEW s \in Descriptor, CallerCloses(s) PROVE SocketsTypeOK'
  BY <1>8 DEF CallerCloses, SocketsTypeOK
<1>. QED
  BY <1>2, <1>3, <1>4, <1>5, <1>6, <1>7, <1>8 DEF SocketsNext, OpenStep

-----------------------------------------------------------------------------
(* The text of a number                                                    *)

LEMMA LeastNat ==
  ASSUME NEW S \in SUBSET Nat, S # {}
  PROVE  \E m \in S : \A k \in S : m <= k
<1>1. PICK m \in S : \A k \in S : <<k, m>> \notin OpToRel(<, Nat)
  BY NatLessThanWellFounded, WFMin
<1>2. ASSUME NEW k \in S PROVE m <= k
  <2>1. k \in Nat /\ m \in Nat /\ <<k, m>> \in Nat \X Nat
    OBVIOUS
  <2>2. ~(k < m)
    BY <1>1, <2>1 DEF OpToRel
  <2>. QED
    BY <2>1, <2>2
<1>. QED
  BY <1>2

\* Dividing by the base.
LEMMA Quotient ==
  ASSUME NEW x \in Nat
  PROVE  /\ x \div BASE \in Nat /\ x % BASE \in 0 .. BASE - 1
         /\ x = ((x \div BASE) * BASE) + (x % BASE)
         /\ x > 0 => x \div BASE < x
         /\ x \div BASE = 0 => x % BASE = x
  BY SioAssumption

LEMMA DigitIs ==
  ASSUME NEW c \in -35 .. 35
  PROVE  /\ Digit(c) \in 0 .. 127
         /\ c >= 0 => Digit(c) # MINUS /\ Value(Digit(c)) = c
         /\ c > 0 => Digit(c) # 48
  BY DEF Digit, MINUS, Value

Char == 0 .. 127

\* One turn of the loop of sio_ltoa.
DigitStep(f, x) ==
  <<Digit(x % BASE)>> \o (IF x \div BASE > 0 THEN f[x \div BASE] ELSE <<>>)

LEMMA DigitStepIs ==
  ASSUME NEW x \in Nat, NEW f, x \div BASE > 0 => f[x \div BASE] \in Seq(Char)
  PROVE  DigitStep(f, x) \in Seq(Char)
<1>1. x % BASE \in -35 .. 35
  BY SioAssumption, Quotient
<1>2. Digit(x % BASE) \in Char
  BY <1>1, DigitIs DEF Char
<1>3. <<Digit(x % BASE)>> \in Seq(Char) /\ <<>> \in Seq(Char)
  BY <1>2, EmptySeq
<1>. QED
  BY <1>3, ConcatProperties DEF DigitStep

\* The loop ends: the recursion of Digits has a solution up to every number.
DigitsTo(k) ==
  \E f \in [0 .. k -> Seq(Char)] : \A x \in 0 .. k : f[x] = DigitStep(f, x)

LEMMA DigitsNext ==
  ASSUME NEW m \in Nat, m > 0 => DigitsTo(m - 1)
  PROVE  DigitsTo(m)
<1>1. PICK f : /\ \A x \in 0 .. m - 1 : f[x] \in Seq(Char) /\ f[x] = DigitStep(f, x)
  <2>1. CASE m > 0
    BY <2>1 DEF DigitsTo
  <2>2. CASE m = 0
    BY <2>2
  <2>. QED
    BY <2>1, <2>2
<1> DEFINE g == [x \in 0 .. m |-> IF x < m THEN f[x] ELSE DigitStep(f, m)]
<1>2. ASSUME NEW x \in 0 .. m, x \div BASE > 0 PROVE x \div BASE \in 0 .. m - 1 /\ x \div BASE < x
  <2>1. x > 0
    BY <1>2, Quotient, SioAssumption
  <2>. QED
    BY <2>1, Quotient
<1>3. g \in [0 .. m -> Seq(Char)]
  <2>1. DigitStep(f, m) \in Seq(Char)
    <3>1. m \div BASE > 0 => f[m \div BASE] \in Seq(Char)
      BY <1>1, <1>2
    <3>. QED
      BY <3>1, DigitStepIs
  <2>2. ASSUME NEW x \in 0 .. m PROVE (IF x < m THEN f[x] ELSE DigitStep(f, m)) \in Seq(Char)
    BY <1>1, <2>1
  <2>. QED
    BY <2>2
<1>4. ASSUME NEW x \in 0 .. m PROVE g[x] = DigitStep(g, x)
  <2>1. x \div BASE > 0 => g[x \div BASE] = f[x \div BASE]
    BY <1>2
  <2>2. DigitStep(g, x) = DigitStep(f, x)
    <3> HIDE DEF g
    <3>. QED
      BY <2>1 DEF DigitStep
  <2>3. g[x] = IF x < m THEN f[x] ELSE DigitStep(f, m)
    OBVIOUS
  <2> HIDE DEF g
  <2>4. x < m => f[x] = DigitStep(f, x)
    BY <1>1
  <2>5. ~(x < m) => x = m
    OBVIOUS
  <2>. QED
    BY <2>2, <2>3, <2>4, <2>5
<1> HIDE DEF g
<1>. QED
  BY <1>3, <1>4 DEF DigitsTo

LEMMA DigitsExist == ASSUME NEW m \in Nat PROVE DigitsTo(m)
<1> DEFINE Bad == {k \in Nat : ~DigitsTo(k)}
<1> SUFFICES Bad = {}
  OBVIOUS
<1> SUFFICES ASSUME Bad # {} PROVE FALSE
  OBVIOUS
<1>1. PICK k \in Bad : \A j \in Bad : k <= j
  BY LeastNat
<1>2. k > 0 => DigitsTo(k - 1)
  BY <1>1
<1>. QED
  BY <1>1, <1>2, DigitsNext

LEMMA DigitsIs ==
  ASSUME NEW x \in 0 .. LONG_MAX
  PROVE  Digits[x] = DigitStep(Digits, x)
<1> DEFINE Solves(f) == f = [y \in 0 .. LONG_MAX |-> <<Digit(y % BASE)>> \o
                              (IF y \div BASE > 0 THEN f[y \div BASE] ELSE <<>>)]
<1>1. PICK f \in [0 .. LONG_MAX -> Seq(Char)] : \A y \in 0 .. LONG_MAX : f[y] = DigitStep(f, y)
  BY DigitsExist, SioAssumption DEF DigitsTo
<1>2. Solves(f)
  BY <1>1 DEF DigitStep
<1>3. Digits = CHOOSE g : Solves(g)
  BY DEF Digits
<1> HIDE DEF Solves
<1>4. Solves(Digits)
  BY <1>2, <1>3
<1>. QED
  BY <1>4 DEF Solves, DigitStep

\* f has the values of the parts of s from its beginning, and x is the last.
Partial(s, f, x) ==
  /\ f \in [0 .. Len(s) -> Int] /\ f[0] = 0 /\ f[Len(s)] = x
  /\ \A k \in 1 .. Len(s) : f[k] = f[k - 1] * BASE + Value(s[k])

LEMMA TotalIs ==
  ASSUME NEW s \in Seq(Char), NEW f, NEW x, Partial(s, f, x)
  PROVE  Total(s) = x
<1> DEFINE Solves(g) == g = [k \in 0 .. Len(s) |->
                              IF k = 0 THEN 0 ELSE g[k - 1] * BASE + Value(s[k])]
           total == CHOOSE g : Solves(g)
<1>0. Len(s) \in Nat
  BY LenProperties
<1>1. Solves(f)
  <2>1. f = [k \in 0 .. Len(s) |-> f[k]]
    BY DEF Partial
  <2>2. \A k \in 0 .. Len(s) : f[k] = IF k = 0 THEN 0 ELSE f[k - 1] * BASE + Value(s[k])
    BY <1>0 DEF Partial
  <2>. QED
    BY <2>1, <2>2
<1>2. Total(s) = total[Len(s)]
  BY DEF Total
<1> HIDE DEF Solves
<1>3. Solves(total)
  BY <1>1
<1> HIDE DEF total
<1>4. \A k \in 0 .. Len(s) :
        total[k] = IF k = 0 THEN 0 ELSE total[k - 1] * BASE + Value(s[k])
  BY <1>3 DEF Solves
<1> DEFINE Bad == {k \in 0 .. Len(s) : total[k] # f[k]}
<1>5. Bad = {}
  <2> SUFFICES ASSUME Bad # {} PROVE FALSE
    OBVIOUS
  <2>1. Bad \in SUBSET Nat
    BY <1>0
  <2>2. PICK k \in Bad : \A j \in Bad : k <= j
    BY <2>1, LeastNat
  <2>3. k # 0
    BY <1>0, <1>4, <2>2 DEF Partial
  <2>4. k \in 1 .. Len(s) /\ k - 1 \in 0 .. Len(s) /\ k - 1 \notin Bad
    BY <1>0, <2>2, <2>3
  <2>5. total[k - 1] = f[k - 1]
    BY <2>4
  <2>. QED
    BY <1>4, <2>2, <2>3, <2>4, <2>5 DEF Partial
<1>. QED
  BY <1>0, <1>2, <1>5 DEF Partial

\* A text of digits that stands for x, without leading zeros.
Reads(s, x) ==
  /\ s \in Seq(Char) /\ Len(s) > 0
  /\ s[1] # MINUS /\ (x > 0 => s[1] # 48)
  /\ \E f : Partial(s, f, x)

LEMMA OneDigit ==
  ASSUME NEW c \in 0 .. BASE - 1
  PROVE  Reads(<<Digit(c)>>, c)
<1> DEFINE s == <<Digit(c)>>
           f == [k \in 0 .. 1 |-> IF k = 0 THEN 0 ELSE c]
<1>1. c \in -35 .. 35 /\ c \in Nat /\ BASE \in Nat
  BY SioAssumption
<1>2. Digit(c) \in Char /\ Digit(c) # MINUS /\ Value(Digit(c)) = c /\ (c > 0 => Digit(c) # 48)
  BY <1>1, DigitIs DEF Char
<1>3. s \in Seq(Char) /\ Len(s) = 1 /\ s[1] = Digit(c)
  BY <1>2
<1>4. f \in [0 .. 1 -> Int] /\ f[0] = 0 /\ f[1] = c
  BY <1>1
<1>5. f[1] = f[1 - 1] * BASE + Value(s[1])
  BY <1>1, <1>2, <1>3, <1>4
<1> HIDE DEF s, f
<1>6. Partial(s, f, c)
  BY <1>3, <1>4, <1>5 DEF Partial
<1>. QED
  BY <1>2, <1>3, <1>6 DEF Reads, s

LEMMA OneMoreDigit ==
  ASSUME NEW s, NEW q \in Nat \ {0}, Reads(s, q), NEW c \in 0 .. BASE - 1
  PROVE  Reads(Append(s, Digit(c)), q * BASE + c)
<1> DEFINE t == Append(s, Digit(c))
           x == q * BASE + c
<1>1. c \in -35 .. 35 /\ c \in Nat /\ BASE \in Nat /\ x \in Int
  BY SioAssumption
<1>2. Digit(c) \in Char /\ Value(Digit(c)) = c
  BY <1>1, DigitIs DEF Char
<1>3. /\ s \in Seq(Char) /\ Len(s) \in Nat /\ Len(s) > 0
      /\ s[1] # MINUS /\ s[1] # 48
  BY LenProperties DEF Reads
<1>4. /\ t \in Seq(Char) /\ Len(t) = Len(s) + 1 /\ t[Len(s) + 1] = Digit(c)
      /\ \A k \in 1 .. Len(s) : t[k] = s[k]
  BY <1>2, <1>3, AppendProperties
<1>5. PICK f : Partial(s, f, q)
  BY DEF Reads
<1> DEFINE g == [k \in 0 .. Len(s) + 1 |-> IF k <= Len(s) THEN f[k] ELSE x]
<1> HIDE DEF t, x
<1>6. /\ g \in [0 .. Len(t) -> Int] /\ g[0] = 0 /\ g[Len(t)] = x
      /\ \A k \in 0 .. Len(s) : g[k] = f[k]
  BY <1>1, <1>3, <1>4, <1>5 DEF Partial
<1> HIDE DEF g
<1>7. ASSUME NEW k \in 1 .. Len(t) PROVE g[k] = g[k - 1] * BASE + Value(t[k])
  <2>1. CASE k <= Len(s)
    <3>1. k \in 1 .. Len(s) /\ k \in 0 .. Len(s) /\ k - 1 \in 0 .. Len(s)
      BY <1>3, <2>1
    <3>2. g[k] = f[k] /\ g[k - 1] = f[k - 1] /\ t[k] = s[k]
      BY <1>4, <1>6, <3>1
    <3>. QED
      BY <1>5, <3>1, <3>2 DEF Partial
  <2>2. CASE k > Len(s)
    <3>1. k = Len(s) + 1 /\ k - 1 = Len(s) /\ k - 1 \in 0 .. Len(s)
      BY <1>3, <1>4, <2>2
    <3>2. g[k - 1] = q /\ t[k] = Digit(c) /\ g[k] = x
      BY <1>4, <1>5, <1>6, <3>1 DEF Partial
    <3>. QED
      BY <1>2, <3>2 DEF x
  <2>. QED
    BY <1>3, <1>4, <2>1, <2>2
<1>8. Partial(t, g, x)
  BY <1>6, <1>7 DEF Partial
<1>9. t[1] # MINUS /\ t[1] # 48 /\ Len(t) > 0
  BY <1>3, <1>4
<1>10. Reads(t, x)
  BY <1>4, <1>8, <1>9 DEF Reads
<1>. QED
  BY <1>10 DEF t, x

LEMMA ReverseCons ==
  ASSUME NEW S, NEW t \in Seq(S), NEW c \in S
  PROVE  /\ Reverse(<<c>> \o t) = Append(Reverse(t), c)
         /\ Reverse(Append(t, c)) = <<c>> \o Reverse(t)
         /\ Reverse(t) \in Seq(S) /\ Len(Reverse(t)) = Len(t)
<1>1. Len(t) \in Nat
  BY LenProperties
<1>2. /\ Reverse(t) \in Seq(S) /\ Len(Reverse(t)) = Len(t)
      /\ \A i \in 1 .. Len(t) : Reverse(t)[i] = t[Len(t) - i + 1]
  BY <1>1 DEF Reverse
<1>3. Reverse(<<c>> \o t) = Append(Reverse(t), c)
  <2> DEFINE a == <<c>> \o t
             b == Append(Reverse(t), c)
  <2>1. /\ a \in Seq(S) /\ Len(a) = Len(t) + 1 /\ a[1] = c
        /\ \A i \in 1 .. Len(t) : a[i + 1] = t[i]
    BY <1>1
  <2>2. /\ b \in Seq(S) /\ Len(b) = Len(t) + 1 /\ b[Len(t) + 1] = c
        /\ \A i \in 1 .. Len(t) : b[i] = Reverse(t)[i]
    BY <1>1, <1>2, AppendProperties
  <2> HIDE DEF a, b
  <2>3. Reverse(a) \in Seq(S) /\ Len(Reverse(a)) = Len(t) + 1
    BY <1>1, <2>1 DEF Reverse
  <2>4. ASSUME NEW i \in 1 .. Len(t) + 1 PROVE Reverse(a)[i] = b[i]
    <3>1. Reverse(a)[i] = a[(Len(t) + 1) - i + 1]
      BY <1>1, <2>1 DEF Reverse
    <3>2. CASE i = Len(t) + 1
      BY <1>1, <2>1, <2>2, <3>1, <3>2
    <3>3. CASE i # Len(t) + 1
      <4>1. i \in 1 .. Len(t) /\ Len(t) - i + 1 \in 1 .. Len(t)
            /\ (Len(t) + 1) - i + 1 = (Len(t) - i + 1) + 1
        BY <1>1, <3>3
      <4>. QED
        BY <1>2, <2>1, <2>2, <3>1, <4>1
    <3>. QED
      BY <3>2, <3>3
  <2>5. Reverse(a) = b
    BY <1>1, <2>2, <2>3, <2>4, SeqEqual
  <2>. QED
    BY <2>5 DEF a, b
<1>4. Reverse(Append(t, c)) = <<c>> \o Reverse(t)
  <2> DEFINE a == Append(t, c)
             r == Reverse(t)
             b == <<c>> \o r
  <2>1. /\ a \in Seq(S) /\ Len(a) = Len(t) + 1 /\ a[Len(t) + 1] = c
        /\ \A i \in 1 .. Len(t) : a[i] = t[i]
    BY <1>1, AppendProperties
  <2> HIDE DEF r
  <2>2. /\ b \in Seq(S) /\ Len(b) = Len(t) + 1 /\ b[1] = c
        /\ \A i \in 1 .. Len(t) : b[i + 1] = r[i]
    BY <1>1, <1>2 DEF r
  <2> HIDE DEF a, b
  <2>3. Reverse(a) \in Seq(S) /\ Len(Reverse(a)) = Len(t) + 1
    BY <1>1, <2>1 DEF Reverse
  <2>4. ASSUME NEW i \in 1 .. Len(t) + 1 PROVE Reverse(a)[i] = b[i]
    <3>1. Reverse(a)[i] = a[(Len(t) + 1) - i + 1]
      BY <1>1, <2>1 DEF Reverse
    <3>2. CASE i = 1
      BY <1>1, <2>1, <2>2, <3>1, <3>2
    <3>3. CASE i # 1
      <4>1. i - 1 \in 1 .. Len(t) /\ Len(t) - (i - 1) + 1 \in 1 .. Len(t)
            /\ (Len(t) + 1) - i + 1 = Len(t) - (i - 1) + 1 /\ (i - 1) + 1 = i
        BY <1>1, <3>3
      <4>. QED
        BY <1>2, <2>1, <2>2, <3>1, <4>1 DEF r
    <3>. QED
      BY <3>2, <3>3
  <2>5. Reverse(a) = b
    BY <1>1, <2>2, <2>3, <2>4, SeqEqual
  <2>. QED
    BY <2>5 DEF a, b, r
<1>. QED
  BY <1>2, <1>3, <1>4

LEMMA EmptyReverse == ASSUME NEW c PROVE Reverse(<<c>>) = <<c>>
<1>1. Len(<<c>>) = 1 /\ <<c>>[1] = c
  OBVIOUS
<1>2. Reverse(<<c>>) = [i \in 1 .. 1 |-> <<c>>[1 - i + 1]]
  BY <1>1 DEF Reverse
<1>3. [i \in 1 .. 1 |-> <<c>>[1 - i + 1]] = [i \in 1 .. 1 |-> c]
  BY <1>1
<1>4. [i \in 1 .. 1 |-> c] = <<c>>
  OBVIOUS
<1>. QED
  BY <1>2, <1>3, <1>4

\* What the loop of sio_ltoa leaves, turned round, stands for the number.
LEMMA DigitsRead ==
  ASSUME NEW x \in 0 .. LONG_MAX
  PROVE  Digits[x] \in Seq(Char) /\ Reads(Reverse(Digits[x]), x)
<1> DEFINE Good(y) == Digits[y] \in Seq(Char) /\ Reads(Reverse(Digits[y]), y)
           Bad == {y \in 0 .. LONG_MAX : ~Good(y)}
<1> SUFFICES Bad = {}
  OBVIOUS
<1> SUFFICES ASSUME Bad # {} PROVE FALSE
  OBVIOUS
<1>1. Bad \in SUBSET Nat
  BY SioAssumption
<1>2. PICK y \in Bad : \A z \in Bad : y <= z
  BY <1>1, LeastNat
<1> DEFINE q == y \div BASE
           c == y % BASE
<1>3. /\ y \in 0 .. LONG_MAX /\ y \in Nat /\ q \in Nat /\ c \in 0 .. BASE - 1
      /\ y = q * BASE + c
      /\ y > 0 => q < y
      /\ q = 0 => c = y
  BY <1>1, <1>2, Quotient, SioAssumption
<1>4. Digits[y] = <<Digit(c)>> \o (IF q > 0 THEN Digits[q] ELSE <<>>)
  BY <1>3, DigitsIs DEF DigitStep
<1>5. Digit(c) \in Char
  <2>1. c \in -35 .. 35
    BY <1>3, SioAssumption
  <2>. QED
    BY <2>1, DigitIs DEF Char
<1> HIDE DEF q, c
<1>6. CASE q = 0
  <2>1. Digits[y] = <<Digit(c)>> /\ c = y
    <3>1. <<Digit(c)>> \in Seq(Char)
      BY <1>5
    <3>. QED
      BY <1>3, <1>4, <1>6, <3>1, ConcatEmptySeq
  <2>2. Digits[y] \in Seq(Char) /\ Reverse(Digits[y]) = <<Digit(c)>>
    BY <1>5, <2>1, EmptyReverse
  <2>3. Reads(<<Digit(c)>>, c)
    BY <1>3, OneDigit
  <2>. QED
    BY <1>2, <2>1, <2>2, <2>3
<1>7. CASE q > 0
  <2>1. q < y /\ q \in 0 .. LONG_MAX
    <3>1. y # 0
      <4>1. y = 0 => q = 0
        BY SioAssumption DEF q
      <4>. QED
        BY <1>7, <4>1
    <3>2. /\ y \in Nat /\ q \in Nat /\ y <= LONG_MAX /\ LONG_MAX \in Nat
          /\ y > 0 => q < y
      BY <1>3, SioAssumption
    <3>. QED
      BY ONLY <3>1, <3>2
  <2>2. Good(q)
    BY <1>1, <1>2, <1>3, <2>1
  <2>3. Digits[q] \in Seq(Char) /\ Reads(Reverse(Digits[q]), q)
    BY <2>2
  <2>4. Digits[y] = <<Digit(c)>> \o Digits[q]
    BY <1>4, <1>7
  <2>5. Reverse(Digits[y]) = Append(Reverse(Digits[q]), Digit(c))
    BY <1>5, <2>3, <2>4, ReverseCons
  <2>6. Digits[y] \in Seq(Char)
    BY <1>5, <2>3, <2>4
  <2>7. Reads(Append(Reverse(Digits[q]), Digit(c)), q * BASE + c)
    BY <1>3, <1>7, <2>3, OneMoreDigit
  <2>. QED
    BY <1>2, <1>3, <2>5, <2>6, <2>7
<1>. QED
  BY <1>3, <1>6, <1>7

\* The text of a number is that number's, but for the least long.
LEMMA LtoaIs ==
  ASSUME NEW x \in Long
  PROVE  /\ sio_ltoa(x) \in Seq(Char)
         /\ x # LONG_MIN =>
              /\ ValueOf(sio_ltoa(x)) = x
              /\ x # 0 => /\ sio_ltoa(x)[1] # 48
                          /\ sio_ltoa(x)[1] = MINUS => sio_ltoa(x)[2] # 48
<1>1. /\ LONG_MAX \in Nat /\ LONG_MIN \in Int /\ LONG_MIN < 0 /\ x \in Int
      /\ LONG_MIN <= x /\ x <= LONG_MAX /\ LONG_MIN = -LONG_MAX - 1
  BY SioAssumption DEF Long, LONG_MIN
<1>2. MINUS \in Char /\ MINUS # 48
  BY DEF MINUS, Char
<1>3. CASE x >= 0
  <2>1. x \in 0 .. LONG_MAX /\ sio_ltoa(x) = Reverse(Digits[x])
    BY <1>1, <1>3 DEF sio_ltoa, sio_reverse, LastFirst
  <2>2. Reads(Reverse(Digits[x]), x)
    BY <2>1, DigitsRead
  <2>3. /\ sio_ltoa(x) \in Seq(Char) /\ Total(sio_ltoa(x)) = x
        /\ sio_ltoa(x)[1] # MINUS /\ (x > 0 => sio_ltoa(x)[1] # 48)
    BY <2>1, <2>2, TotalIs DEF Reads
  <2>. QED
    BY <1>1, <1>3, <2>3 DEF ValueOf
<1>4. CASE x < 0 /\ x # LONG_MIN
  <2> DEFINE y == -x
             s == Reverse(Digits[y])
             t == sio_ltoa(x)
  <2>1. y \in 0 .. LONG_MAX /\ y > 0 /\ -y = x
    BY <1>1, <1>4
  <2>2. t = Reverse(Append(Digits[y], MINUS))
    BY <1>4, <2>1 DEF sio_ltoa, sio_reverse, LastFirst, Negated
  <2> HIDE DEF y
  <2>3. Digits[y] \in Seq(Char) /\ Reads(s, y)
    BY <2>1, DigitsRead
  <2>4. t = <<MINUS>> \o s
    BY <1>2, <2>2, <2>3, ReverseCons
  <2> HIDE DEF s, t
  <2>5. /\ s \in Seq(Char) /\ Len(s) \in Nat /\ Len(s) > 0 /\ Total(s) = y
        /\ s[1] # 48
    BY <2>1, <2>3, TotalIs, LenProperties DEF Reads
  <2>6. t \in Seq(Char) /\ t[1] = MINUS /\ t[2] = s[1] /\ Tail(t) = s
    <3>1. <<MINUS>> \in Seq(Char) /\ Len(<<MINUS>>) = 1
      BY <1>2
    <3>2. /\ t \in Seq(Char) /\ Len(t) = 1 + Len(s)
          /\ t[1] = MINUS /\ \A i \in 1 .. Len(s) : t[i + 1] = s[i]
      BY <1>2, <2>4, <2>5
    <3>3. t # <<>> /\ Tail(t) \in Seq(Char) /\ Len(Tail(t)) = Len(s)
      BY <2>5, <3>2
    <3>4. ASSUME NEW i \in 1 .. Len(s) PROVE Tail(t)[i] = s[i]
      BY <2>5, <3>2, <3>3
    <3>5. Tail(t) = s
      BY <2>5, <3>3, <3>4, SeqEqual
    <3>. QED
      BY <2>5, <3>2, <3>5
  <2>7. ValueOf(t) = x
    BY <2>1, <2>5, <2>6 DEF ValueOf
  <2>. QED
    BY <1>2, <2>5, <2>6, <2>7 DEF t
<1>5. CASE x = LONG_MIN
  <2> DEFINE c == CMod(x)
  <2>1. sio_ltoa(x) = Reverse(Append(<<Digit(c)>>, MINUS))
    BY <1>1, <1>5 DEF sio_ltoa, sio_reverse, LastFirst, Negated
  <2>2. c \in -35 .. 35
    <3>1. c = -((-x) % BASE) /\ -x \in Nat
      BY <1>1, <1>5 DEF CMod
    <3>2. (-x) % BASE \in 0 .. BASE - 1
      BY <3>1, Quotient
    <3>. QED
      BY <3>1, <3>2, SioAssumption
  <2> HIDE DEF c
  <2>3. Digit(c) \in Char
    BY <2>2, DigitIs DEF Char
  <2>4. <<Digit(c)>> \in Seq(Char)
    BY <2>3
  <2>5. Append(<<Digit(c)>>, MINUS) = <<Digit(c)>> \o <<MINUS>> /\ <<MINUS>> \in Seq(Char)
    BY <1>2, <2>3
  <2>6. Reverse(Append(<<Digit(c)>>, MINUS)) = <<MINUS>> \o Reverse(<<Digit(c)>>)
    BY <1>2, <2>4, ReverseCons
  <2>7. <<MINUS>> \o <<Digit(c)>> \in Seq(Char)
    BY <2>4, <2>5, ConcatProperties
  <2>. QED
    BY <1>5, <2>1, <2>6, <2>7, EmptyReverse
<1>. QED
  BY <1>1, <1>3, <1>4, <1>5

-----------------------------------------------------------------------------
(* The text is that of the number                                          *)

SioInv == v \in Long /\ (text = <<>> \/ text = sio_ltoa(v))

LEMMA SioExact == SioInv => SioTypeOK /\ LtoaExact
<1> SUFFICES ASSUME SioInv PROVE SioTypeOK /\ LtoaExact
  OBVIOUS
<1>1. v \in Long /\ (text = <<>> \/ text = sio_ltoa(v))
  BY DEF SioInv
<1>2. text \in Seq(0 .. 127)
  BY <1>1, LtoaIs, EmptySeq DEF Char
<1>3. LtoaExact
  BY <1>1, LtoaIs DEF LtoaExact
<1>. QED
  BY <1>1, <1>2, <1>3 DEF SioTypeOK

LEMMA NoTextInv == v' = 0 /\ text' = <<>> => SioInv'
<1>1. 0 \in Long
  BY SioAssumption DEF Long, LONG_MIN
<1>. QED
  BY <1>1 DEF SioInv

LEMMA SioNextInv == SioInv /\ SioNext => SioInv'
<1> SUFFICES ASSUME SioInv, SioNext PROVE SioInv'
  OBVIOUS
<1>1. CASE Sio_putl
  <2>1. PICK x \in Long : v' = x /\ text' = sio_ltoa(x)
    BY <1>1 DEF Sio_putl, Put
  <2>. QED
    BY <2>1 DEF SioInv
<1>2. CASE Sio_puts
  BY <1>2, NoTextInv DEF Sio_puts, Put
<1>3. CASE Sio_error
  BY <1>3 DEF Sio_error, sioVars, SioInv
<1>. QED
  BY <1>1, <1>2, <1>3 DEF SioNext

-----------------------------------------------------------------------------
(* The library                                                             *)

LEMMA SioReports == ErrorsAreFatal /\ SioNext => ErrorsAreFatal'
<1>1. ASSUME ErrorsAreFatal, NEW s, NEW x, Put(s, x) PROVE ErrorsAreFatal'
  BY <1>1 DEF Put, ErrorsAreFatal, Exits, Returns, RUNNING, APP, UNSET
<1>2. ErrorsAreFatal /\ Sio_error => ErrorsAreFatal'
  BY DEF Sio_error, ErrorsAreFatal, Exits, RUNNING, APP, UNSET
<1>. QED
  BY <1>1, <1>2 DEF SioNext, Sio_putl, Sio_puts

LEMMA SocketsUnchanged ==
  SocketsInv /\ open_pc = "none" /\ UNCHANGED socketVars => SocketsInv'
  BY DEF SocketsInv, NoDescriptorLost, socketVars

LEMMA SocketsTypesStay == SocketsTypeOK /\ UNCHANGED socketVars => SocketsTypeOK'
  BY DEF SocketsTypeOK, socketVars

CsappInv ==
  /\ ErrorsAreFatal
  /\ RioInv /\ BoundsInv /\ ResultInv
  /\ SocketsInv /\ SocketsTypeOK
  /\ SioInv

LEMMA CsappInitInv == Init => CsappInv
<1> SUFFICES ASSUME Init PROVE CsappInv
  OBVIOUS
<1>1. ErrorsAreFatal
  BY DEF Init, ProcessInit, ErrorsAreFatal, RUNNING, UNSET
<1>2. SocketsInv
  BY DEF Init, SocketsInit, NoAddresses, SocketsInv, NoDescriptorLost
<1>3. SocketsTypeOK
  <2>1. SocketsInit
    BY DEF Init
  <2>2. 0 \in 0 .. MaxAddresses
    BY SocketsAssumption
  <2>3. listp \in BOOLEAN
    BY <2>1 DEF SocketsInit
  <2>. QED
    BY <2>1, <2>2, <2>3 DEF SocketsInit, NoAddresses, SocketsTypeOK
<1>4. SioInv
  BY SioAssumption DEF Init, SioInit, NoText, SioInv, Long, LONG_MIN
<1>5. RioInv /\ BoundsInv /\ ResultInv
  BY RioInitInv, MoreInit DEF Init
<1>. QED
  BY <1>1, <1>2, <1>3, <1>4, <1>5 DEF CsappInv

LEMMA CsappNextInv == CsappInv /\ [Next]_vars => CsappInv'
<1> SUFFICES ASSUME CsappInv, [Next]_vars PROVE CsappInv'
  OBVIOUS
<1> USE DEF CsappInv
<1>1. CASE Wrapped
  <2>1. fn = "none" /\ UNCHANGED <<rioVars, socketVars>>
    BY <1>1 DEF Wrapped, Idle
  <2>2. RioInv' /\ BoundsInv' /\ ResultInv'
    BY <2>1, RioUnchanged, RioStays
  <2>3. ErrorsAreFatal' /\ SocketsInv' /\ SocketsTypeOK' /\ SioInv'
    BY <1>1, WrappersReport, SocketsUnchanged, SocketsTypesStay, NoTextInv DEF Wrapped
  <2>. QED
    BY <2>2, <2>3
<1>2. CASE Streams
  <2>1. RioInv' /\ BoundsInv' /\ ResultInv'
    BY <1>2, RioNextInv, RioNextMore DEF Streams
  <2>2. ErrorsAreFatal' /\ SocketsInv' /\ SocketsTypeOK' /\ SioInv'
    BY <1>2, RioReports, SocketsUnchanged, SocketsTypesStay, NoTextInv DEF Streams
  <2>. QED
    BY <2>1, <2>2
<1>3. CASE Connects
  <2>1. fn = "none" /\ UNCHANGED rioVars
    BY <1>3 DEF Connects, NoStream, Idle
  <2>2. RioInv' /\ BoundsInv' /\ ResultInv'
    BY <2>1, RioUnchanged, RioStays
  <2>3. ErrorsAreFatal' /\ SocketsInv' /\ SocketsTypeOK' /\ SioInv'
    BY <1>3, SocketsStep, SocketsTypes, NoTextInv DEF Connects
  <2>. QED
    BY <2>2, <2>3
<1>4. CASE Prints
  <2>1. fn = "none" /\ UNCHANGED <<rioVars, socketVars>>
    BY <1>4 DEF Prints, NoStream, Idle
  <2>2. RioInv' /\ BoundsInv' /\ ResultInv'
    BY <2>1, RioUnchanged, RioStays
  <2>3. ErrorsAreFatal' /\ SocketsInv' /\ SocketsTypeOK' /\ SioInv'
    BY <1>4, SioReports, SocketsUnchanged, SocketsTypesStay, SioNextInv DEF Prints
  <2>. QED
    BY <2>2, <2>3
<1>5. CASE UNCHANGED vars
  <2>1. UNCHANGED <<process, rioVars, socketVars, sioVars>>
    BY <1>5 DEF vars
  <2>2. ErrorsAreFatal'
    BY <2>1 DEF process, ErrorsAreFatal
  <2>3. SocketsInv'
    BY <2>1 DEF process, socketVars, SocketsInv, NoDescriptorLost
  <2>4. SioInv'
    BY <2>1 DEF sioVars, SioInv
  <2>5. RioInv' /\ BoundsInv' /\ ResultInv'
    BY <2>1, RioUnchanged, RioStays DEF process
  <2>. QED
    BY <2>1, <2>2, <2>3, <2>4, <2>5, SocketsTypesStay
<1>. QED
  BY <1>1, <1>2, <1>3, <1>4, <1>5 DEF Next

THEOREM CsappInvariant == Spec => []CsappInv
  BY CsappInitInv, CsappNextInv, PTL DEF Spec

\* However the calls of the wrappers and of the Rio, socket and Sio functions
\* follow one another, and whatever errno they leave to each other: a failure
\* ends the program and is reported as what it was, and nothing else ends it.
THEOREM FailuresAreFatal == Spec => []ErrorsAreFatal
  BY CsappInvariant, PTL DEF CsappInv

\* For any data, sizes and buffer, and however read() and write() cut the data
\* up: the Rio functions hand out the bytes of the descriptor in their order,
\* none twice and none lost, and write the caller's in theirs.
THEOREM StreamIsExact == Spec => []StreamExact
<1>1. CsappInv => StreamExact
  BY DEF CsappInv, RioInv
<1>. QED
  BY <1>1, CsappInvariant, PTL

\* For any lists of addresses and any number of descriptors, and wherever
\* open_clientfd and open_listenfd fail: only the socket that is returned stays
\* open.
THEOREM NoSocketStaysOpen == Spec => []NoDescriptorLost
<1>1. CsappInv => NoDescriptorLost
  BY DEF CsappInv, SocketsInv
<1>. QED
  BY <1>1, CsappInvariant, PTL

\* Every variable of the library keeps its type: no loop stores more than the
\* caller has room for, and none reads past the end of the buffer.
THEOREM CsappTypeCorrect == Spec => []TypeOK
<1>1. CsappInv => TypeOK
  BY BoundsAreTypes, SioExact DEF CsappInv, TypeOK
<1>. QED
  BY <1>1, CsappInvariant, PTL

\* What a Rio function returns is the number of bytes that it has stored or
\* written, less than was asked for only at the end of the stream or of a line;
\* and sio_ltoa's text is that of the number, for any number but the least.
THEOREM ResultsAreExact == Spec => []ResultsExact
<1>1. CsappInv => ResultsExact
  BY SioExact DEF CsappInv, ResultInv, ResultsExact
<1>. QED
  BY <1>1, CsappInvariant, PTL
=============================================================================
