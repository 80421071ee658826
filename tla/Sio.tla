-------------------------------- MODULE Sio --------------------------------
(***************************************************************************)
(* The Sio package of src/src/csapp.c:217-315: output that is safe in a    *)
(* signal handler, with its own conversion of numbers.                     *)
(*                                                                         *)
(* Text is a sequence of character codes.  A long has one negative value   *)
(* more than positive ones; negating the least gives the least again.      *)
(***************************************************************************)
EXTENDS Wrappers, Sequences, SequencesExt

CONSTANTS LONG_MAX, BASE   \* the greatest long, and the base b: 10

ASSUME SioAssumption == LONG_MAX \in Nat \ {0} /\ BASE \in 2 .. 36

VARIABLES
  v,      \* the number printed last
  text    \* the text that was passed to write(), or <<>>

sioVars == <<v, text>>

LONG_MIN == -LONG_MAX - 1
Long == LONG_MIN .. LONG_MAX

SioTypeOK == v \in Long /\ text \in Seq(0 .. 127)

NoText == v = 0 /\ text = <<>>
SioInit == NoText

-----------------------------------------------------------------------------
\* c + '0' or c - 10 + 'a'
Digit(c) == IF c < 10 THEN c + 48 ELSE c - 10 + 97
MINUS == 45

sio_reverse(s) == Reverse(s)

Negated(x) == IF x = LONG_MIN THEN LONG_MIN ELSE -x

\* % and / of C round towards 0, and the loop ends at the first quotient that
\* is not positive.
CMod(x) == IF x >= 0 THEN x % BASE ELSE -((-x) % BASE)

\* The digits of a long that is not negative, from the last one on.
Digits[x \in 0 .. LONG_MAX] ==
  <<Digit(x % BASE)>> \o (IF x \div BASE > 0 THEN Digits[x \div BASE] ELSE <<>>)

LastFirst(x) == IF x >= 0 THEN Digits[x] ELSE <<Digit(CMod(x))>>

\* Mutant: the sign is lost, as before the fix of 10/2016.
LtoaUnsigned(x) == sio_reverse(LastFirst(IF x < 0 THEN Negated(x) ELSE x))

sio_ltoa(x) ==
  sio_reverse(IF x < 0 THEN Append(LastFirst(Negated(x)), MINUS) ELSE LastFirst(x))

\* sio_puts, and sio_putl: one write() of the whole text, whose value, a part
\* of the text perhaps, is returned; Sio_putl and Sio_puts exit with status 1
\* if it is negative.
Put(s, x) ==
  /\ status = RUNNING
  /\ text' = s /\ v' = x
  /\ \/ errno' \in ERRNO /\ cause' = APP /\ Exits(1, APP)
     \/ UNCHANGED errno /\ cause' = 0 /\ Returns

Sio_putl == \E x \in Long : Put(sio_ltoa(x), x)
Sio_puts == Put(<<>>, 0)

\* Sio_error never returns.
Sio_error == /\ status = RUNNING
             /\ cause' = APP /\ Exits(1, APP)
             /\ UNCHANGED <<errno, sioVars>>

SioNext == Sio_putl \/ Sio_puts \/ Sio_error

-----------------------------------------------------------------------------
Value(c) == IF c < 97 THEN c - 48 ELSE c - 97 + 10

\* What a text stands for: digits from the first one on, perhaps with a sign.
Total(s) ==
  LET total[k \in 0 .. Len(s)] ==
        IF k = 0 THEN 0 ELSE total[k - 1] * BASE + Value(s[k])
  IN  total[Len(s)]

ValueOf(s) == IF s[1] = MINUS THEN -Total(Tail(s)) ELSE Total(s)

\* The text of a number, negative or not, reads as that number, without
\* leading zeros; for the least long alone it does not.
LtoaExact ==
  text # <<>> /\ v # LONG_MIN =>
    /\ ValueOf(text) = v
    /\ v # 0 => text[1] # 48 /\ (text[1] = MINUS => text[2] # 48)
=============================================================================
