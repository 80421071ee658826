------------------------- MODULE ProtocolRecvProofs -------------------------
(***************************************************************************)
(* What proto_recv_packet returns when the network cuts the stream up or   *)
(* when signals interrupt it, for any number of packets, any sizes and any *)
(* number of signals.                                                      *)
(***************************************************************************)
EXTENDS ProtocolRecv, SequenceTheorems, TLAPS

-----------------------------------------------------------------------------
(* The size field                                                          *)

LEMMA DivMod ==
  ASSUME NEW B \in Nat \ {0}, NEW n \in 0 .. B * B - 1
  PROVE  /\ n % B \in 0 .. B - 1 /\ n \div B \in 0 .. B - 1
         /\ n = (n \div B) * B + (n % B)
<1>1. n % B \in 0 .. B - 1 /\ n \div B \in Int
  OBVIOUS
<1>2. n = (n \div B) * B + (n % B)
  OBVIOUS
<1>3. n \div B \in 0 .. B - 1
  OBVIOUS
<1>. QED
  BY <1>1, <1>2, <1>3

LEMMA DivModUnique ==
  ASSUME NEW B \in Nat \ {0}, NEW q \in Nat, NEW r \in 0 .. B - 1
  PROVE  (q * B + r) % B = r /\ (q * B + r) \div B = q
  OBVIOUS

LEMMA DigitsBound ==
  ASSUME NEW B \in Nat \ {0}, NEW q \in 0 .. B - 1, NEW r \in 0 .. B - 1
  PROVE  q * B + r \in 0 .. B * B - 1
<1>1. q * B <= (B - 1) * B /\ q * B \in Nat
  OBVIOUS
<1>2. (B - 1) * B = B * B - B
  OBVIOUS
<1>. QED
  BY <1>1, <1>2

SizeField == 0 .. BYTE * BYTE - 1

LEMMA SwapTwice ==
  ASSUME NEW n \in SizeField
  PROVE  Swap(n) \in SizeField /\ Swap(Swap(n)) = n
<1>1. BYTE \in Nat \ {0} /\ n \in 0 .. BYTE * BYTE - 1
  BY BoundAssumption DEF SizeField
<1>2. PICK q \in 0 .. BYTE - 1, r \in 0 .. BYTE - 1 :
        q = n \div BYTE /\ r = n % BYTE /\ n = q * BYTE + r
  BY <1>1, DivMod
<1>3. Swap(n) = r * BYTE + q
  BY <1>2 DEF Swap
<1>4. (r * BYTE + q) % BYTE = q /\ (r * BYTE + q) \div BYTE = r
  BY <1>1, DivModUnique
<1>. QED
  BY <1>1, <1>2, <1>3, <1>4, DigitsBound DEF Swap, SizeField

LEMMA SizesAreNumbers == Sizes \subseteq SizeField /\ SizeField \subseteq Nat
  BY BoundAssumption DEF SizeField

-----------------------------------------------------------------------------
(* The stream                                                              *)

\* Unit j of packet n: its header has the units 0 and 1.
Unit(n, j) ==
  [of |-> n, part |-> IF j = 0 THEN "head" ELSE IF j = 1 THEN "tail" ELSE "payload"]

\* What is in the socket, b, and behind it in the network, w.
Flow(b, w) == [k \in 1 .. Len(b) + Len(w) |->
                 IF k <= Len(b) THEN b[k] ELSE w[k - Len(b)]]

\* The packets of sizes z are on a stream f of length len at the places s[1],
\* s[2], ...; the places of units that were read are not positive.
Layout(s, z, len, f) ==
  /\ s \in [1 .. Len(z) + 1 -> Int]
  /\ s[Len(z) + 1] = len + 1
  /\ \A n \in 1 .. Len(z) : s[n + 1] = s[n] + 2 + z[n]
  /\ \A n \in 1 .. Len(z), b \in 1 .. Len(z) + 1 : n < b => s[n + 1] <= s[b]
  /\ \A n \in 1 .. Len(z) : \A j \in 0 .. z[n] + 1 :
       s[n] + j >= 1 => f[s[n] + j] = Unit(n, j)
  /\ \A k \in 1 .. len : \E n \in 1 .. Len(z) : k \in s[n] .. s[n] + z[n] + 1

\* Reading k units makes a stream g of the stream f, and what is left of b.
Taken(k, len, f, g) == \A i \in 1 .. len - k : g[i] = f[i + k]
Rest(b, k) == SubSeq(b, k + 1, Len(b))

\* All places k units earlier.
Shifted(s, z, k) == [n \in 1 .. Len(z) + 1 |-> s[n] - k]

LEMMA LayoutShift ==
  ASSUME NEW z, Len(z) \in Nat, \A n \in 1 .. Len(z) : z[n] \in Nat,
         NEW len \in Nat, NEW f, NEW s, Layout(s, z, len, f),
         NEW k \in 0 .. len, NEW g, Taken(k, len, f, g)
  PROVE  /\ Layout(Shifted(s, z, k), z, len - k, g)
         /\ \A n \in 1 .. Len(z) + 1 : Shifted(s, z, k)[n] = s[n] - k
<1>length. PICK L \in Nat : L = Len(z)
  OBVIOUS
<1>0. PICK t : /\ L \in Nat /\ L = Len(z) /\ t = Shifted(s, z, k)
               /\ t = [n \in 1 .. L + 1 |-> s[n] - k]
  BY <1>length DEF Shifted
<1>1. /\ s \in [1 .. L + 1 -> Int] /\ s[L + 1] = len + 1
      /\ \A n \in 1 .. L : s[n + 1] = s[n] + 2 + z[n]
      /\ \A n \in 1 .. L, b \in 1 .. L + 1 : n < b => s[n + 1] <= s[b]
  BY <1>0 DEF Layout
<1>2. \A n \in 1 .. L + 1 : t[n] = s[n] - k /\ s[n] \in Int /\ t[n] \in Int
  BY ONLY <1>0, <1>1, k \in 0 .. len, len \in Nat
<1>3. t \in [1 .. L + 1 -> Int]
  BY ONLY <1>0, <1>2
<1>4. L + 1 \in 1 .. L + 1 /\ \A n \in 1 .. L : n \in 1 .. L + 1 /\ n + 1 \in 1 .. L + 1
  OBVIOUS
<1>5. t[L + 1] = (len - k) + 1
  BY ONLY <1>1, <1>2, <1>4, k \in 0 .. len, len \in Nat
<1>6. ASSUME NEW n \in 1 .. L PROVE t[n + 1] = t[n] + 2 + z[n]
  <2>1. s[n + 1] = s[n] + 2 + z[n] /\ z[n] \in Nat
    BY <1>0, <1>1
  <2>2. t[n] = s[n] - k /\ t[n + 1] = s[n + 1] - k /\ s[n] \in Int
    BY <1>2, <1>4
  <2>3. PICK q \in Int, m \in Nat : q = s[n] /\ m = z[n]
    BY <2>1, <2>2
  <2>. QED
    BY ONLY <2>1, <2>2, <2>3, k \in 0 .. len, len \in Nat
<1>7. ASSUME NEW n \in 1 .. L, NEW b \in 1 .. L + 1, n < b PROVE t[n + 1] <= t[b]
  <2>1. s[n + 1] <= s[b]
    BY <1>1, <1>7
  <2>2. /\ t[n + 1] = s[n + 1] - k /\ s[n + 1] \in Int
        /\ t[b] = s[b] - k /\ s[b] \in Int
    BY <1>2, <1>4
  <2>. QED
    BY ONLY <2>1, <2>2, k \in 0 .. len, len \in Nat
<1>8. ASSUME NEW n \in 1 .. L, NEW j \in 0 .. z[n] + 1, t[n] + j >= 1
      PROVE  g[t[n] + j] = Unit(n, j)
  <2>1. PICK q \in Int, m \in Nat : q = s[n] /\ m = z[n] /\ t[n] = q - k
    BY <1>0, <1>2, <1>4
  <2>2. j \in 0 .. m + 1 /\ (q - k) + j >= 1
    BY <1>8, <2>1
  <2>3. q + j >= 1
    BY ONLY <2>2, <2>1, k \in 0 .. len, len \in Nat
  <2>4. f[q + j] = Unit(n, j)
    BY <1>0, <2>1, <2>2, <2>3 DEF Layout
  <2>5. n < L + 1
    OBVIOUS
  <2>6. s[n + 1] <= len + 1 /\ s[n + 1] = q + 2 + m
    BY <1>1, <1>4, <2>1, <2>5
  <2>7. (q - k) + j \in 1 .. len - k /\ ((q - k) + j) + k = q + j
    BY ONLY <2>1, <2>2, <2>6, k \in 0 .. len, len \in Nat
  <2>. QED
    BY <2>1, <2>4, <2>7 DEF Taken
<1>9. ASSUME NEW i \in 1 .. len - k
      PROVE  \E n \in 1 .. L : i \in t[n] .. t[n] + z[n] + 1
  <2>1. i + k \in 1 .. len
    OBVIOUS
  <2>2. PICK n \in 1 .. L : i + k \in s[n] .. s[n] + z[n] + 1
    BY <1>0, <2>1 DEF Layout
  <2>3. PICK q \in Int, m \in Nat : q = s[n] /\ m = z[n] /\ t[n] = q - k
    BY <1>0, <1>2, <1>4
  <2>4. i + k \in q .. q + m + 1
    BY <2>2, <2>3
  <2>5. i \in (q - k) .. (q - k) + m + 1
    BY ONLY <2>3, <2>4, i \in 1 .. len - k, k \in 0 .. len, len \in Nat
  <2>. QED
    BY <2>3, <2>5
<1>. QED
  BY <1>0, <1>2, <1>3, <1>5, <1>6, <1>7, <1>8, <1>9 DEF Layout

\* Sending a packet of size x.
LEMMA LayoutAppend ==
  ASSUME NEW z \in Seq(Nat), NEW len \in Nat, NEW f, NEW s, Layout(s, z, len, f),
         NEW x \in Nat, NEW g, \A i \in 1 .. len : g[i] = f[i],
         \A j \in 0 .. x + 1 : g[len + 1 + j] = Unit(Len(z) + 1, j),
         NEW t, t = [n \in 1 .. Len(z) + 2 |-> IF n = Len(z) + 2 THEN len + 3 + x ELSE s[n]]
  PROVE  Layout(t, Append(z, x), len + 2 + x, g)
<1> DEFINE y == Append(z, x)
<1>1. /\ Len(z) \in Nat /\ \A n \in 1 .. Len(z) : z[n] \in Nat
      /\ s \in [1 .. Len(z) + 1 -> Int] /\ s[Len(z) + 1] = len + 1
  BY LenProperties DEF Layout
<1>2. /\ Len(y) = Len(z) + 1 /\ y[Len(z) + 1] = x
      /\ \A n \in 1 .. Len(z) : y[n] = z[n]
  OBVIOUS
<1> HIDE DEF y
<1>3. /\ t \in [1 .. Len(y) + 1 -> Int] /\ t[Len(y) + 1] = (len + 2 + x) + 1
      /\ \A n \in 1 .. Len(z) + 1 : t[n] = s[n]
  BY <1>1, <1>2
<1>4. \A n \in 1 .. Len(z) : s[n + 1] <= len + 1
  <2>1. ASSUME NEW n \in 1 .. Len(z) PROVE s[n + 1] <= s[Len(z) + 1]
    <3>1. n < Len(z) + 1 /\ Len(z) + 1 \in 1 .. Len(z) + 1
      BY <1>1
    <3>. QED
      BY <3>1 DEF Layout
  <2>. QED
    BY <1>1, <2>1
<1>5. \A n \in 1 .. Len(y) : t[n + 1] = t[n] + 2 + y[n]
  BY <1>1, <1>2, <1>3 DEF Layout
<1>6. \A n \in 1 .. Len(y), b \in 1 .. Len(y) + 1 : n < b => t[n + 1] <= t[b]
  <2>1. ASSUME NEW n \in 1 .. Len(y), NEW b \in 1 .. Len(y) + 1, n < b
        PROVE  t[n + 1] <= t[b]
    <3>1. CASE b \in 1 .. Len(z) + 1
      <4>1. n \in 1 .. Len(z) /\ n + 1 \in 1 .. Len(z) + 1
        BY <1>1, <1>2, <2>1, <3>1
      <4>2. s[n + 1] <= s[b]
        BY <2>1, <3>1, <4>1 DEF Layout
      <4>. QED
        BY <1>3, <3>1, <4>1, <4>2
    <3>2. CASE b = Len(y) + 1
      <4>1. CASE n \in 1 .. Len(z)
        <5>1. n + 1 \in 1 .. Len(z) + 1
          BY <1>1, <4>1
        <5>2. t[n + 1] = s[n + 1] /\ s[n + 1] \in Int
          BY <1>1, <1>3, <5>1
        <5>3. s[n + 1] <= len + 1
          BY <1>4, <4>1
        <5>4. t[b] = len + 3 + x
          BY <1>3, <3>2
        <5>. QED
          BY ONLY <5>2, <5>3, <5>4, len \in Nat, x \in Nat
      <4>2. CASE n = Len(y)
        BY <1>3, <3>2, <4>2
      <4>. QED
        BY <1>1, <1>2, <4>1, <4>2
    <3>. QED
      BY <1>1, <1>2, <3>1, <3>2
  <2>. QED
    BY <2>1
<1>7. ASSUME NEW n \in 1 .. Len(y), NEW j \in 0 .. y[n] + 1, t[n] + j >= 1
      PROVE  g[t[n] + j] = Unit(n, j)
  <2>1. CASE n \in 1 .. Len(z)
    <3>0. n \in 1 .. Len(z) + 1
      BY <1>1, <2>1
    <3>1. PICK q \in Int, m \in Nat : t[n] = q /\ s[n] = q /\ y[n] = m /\ z[n] = m
      BY <1>1, <1>2, <1>3, <2>1, <3>0
    <3>2. j \in 0 .. m + 1 /\ q + j >= 1
      BY <1>7, <3>1
    <3>3. f[q + j] = Unit(n, j)
      BY <2>1, <3>1, <3>2 DEF Layout
    <3>4. s[n + 1] = q + 2 + m /\ s[n + 1] <= len + 1
      BY <1>4, <2>1, <3>1 DEF Layout
    <3>5. q + j \in 1 .. len
      BY ONLY <3>1, <3>2, <3>4, len \in Nat
    <3>. QED
      BY <3>1, <3>3, <3>5
  <2>2. CASE n = Len(z) + 1
    <3>1. t[n] = len + 1 /\ y[n] = x
      BY <1>1, <1>2, <1>3, <2>2
    <3>2. j \in 0 .. x + 1
      BY <1>7, <3>1
    <3>. QED
      BY <2>2, <3>1, <3>2
  <2>. QED
    BY <1>1, <1>2, <2>1, <2>2
<1>8. ASSUME NEW k \in 1 .. len + 2 + x
      PROVE  \E n \in 1 .. Len(y) : k \in t[n] .. t[n] + y[n] + 1
  <2>1. CASE k \in 1 .. len
    <3>1. PICK n \in 1 .. Len(z) : k \in s[n] .. s[n] + z[n] + 1
      BY <2>1 DEF Layout
    <3>2. t[n] = s[n] /\ y[n] = z[n] /\ n \in 1 .. Len(y)
      BY <1>1, <1>2, <1>3
    <3>. QED
      BY <3>1, <3>2
  <2>2. CASE k \in len + 1 .. len + 2 + x
    <3>1. /\ Len(z) + 1 \in 1 .. Len(y) /\ t[Len(z) + 1] = len + 1
          /\ y[Len(z) + 1] = x
      BY <1>1, <1>2, <1>3
    <3>2. k \in len + 1 .. (len + 1) + x + 1
      BY <2>2
    <3>. QED
      BY ONLY <3>1, <3>2
  <2>3. k \in 1 .. len \/ k \in len + 1 .. len + 2 + x
    OBVIOUS
  <2>. QED
    BY ONLY <2>1, <2>2, <2>3
<1>. QED
  BY <1>3, <1>5, <1>6, <1>7, <1>8 DEF Layout, y

-----------------------------------------------------------------------------
(* Sequences                                                               *)

LEMMA AppendFacts ==
  ASSUME NEW S, NEW z \in Seq(S), NEW x \in S
  PROVE  /\ Append(z, x) \in Seq(S) /\ Len(Append(z, x)) = Len(z) + 1
         /\ Append(z, x)[Len(z) + 1] = x
         /\ \A n \in 1 .. Len(z) : Append(z, x)[n] = z[n]
  OBVIOUS

LEMMA TokensShape ==
  ASSUME NEW n \in 1 .. MaxSent, NEW size \in Nat
  PROVE  /\ Tokens(n, size) \in Seq(Token) /\ Len(Tokens(n, size)) = size + 2
         /\ \A j \in 0 .. size + 1 : Tokens(n, size)[1 + j] = Unit(n, j)
<1> DEFINE h == <<[of |-> n, part |-> "head"], [of |-> n, part |-> "tail"]>>
           d == [k \in 1 .. size |-> [of |-> n, part |-> "payload"]]
<1>1. h \in Seq(Token) /\ Len(h) = 2 /\ h[1] = Unit(n, 0) /\ h[2] = Unit(n, 1)
  BY DEF Token, Unit
<1>2. d \in Seq(Token) /\ Len(d) = size /\ \A k \in 1 .. size : d[k] = Unit(n, k + 1)
  BY DEF Token, Unit
<1> HIDE DEF h, d
<1>3. /\ h \o d \in Seq(Token) /\ Len(h \o d) = size + 2
      /\ \A k \in 1 .. size + 2 : (h \o d)[k] = IF k <= 2 THEN h[k] ELSE d[k - 2]
  <2>1. /\ h \o d \in Seq(Token) /\ Len(h \o d) = Len(h) + Len(d)
        /\ \A k \in 1 .. Len(h) + Len(d) :
             (h \o d)[k] = IF k <= Len(h) THEN h[k] ELSE d[k - Len(h)]
    BY <1>1, <1>2, ConcatProperties
  <2>2. Len(h) + Len(d) = size + 2
    BY <1>1, <1>2
  <2>. QED
    BY <1>1, <2>1, <2>2
<1>4. ASSUME NEW j \in 0 .. size + 1 PROVE (h \o d)[1 + j] = Unit(n, j)
  <2>1. 1 + j \in 1 .. size + 2
    OBVIOUS
  <2>2. CASE j = 0
    BY <1>1, <1>3, <2>1, <2>2
  <2>3. CASE j = 1
    BY <1>1, <1>3, <2>1, <2>3
  <2>4. CASE j >= 2
    <3>1. j - 1 \in 1 .. size /\ (1 + j) - 2 = j - 1 /\ ~(1 + j <= 2) /\ (j - 1) + 1 = j
      BY <2>4
    <3>. QED
      BY <1>2, <1>3, <2>1, <3>1
  <2>5. j = 0 \/ j = 1 \/ j >= 2
    OBVIOUS
  <2>. QED
    BY ONLY <2>2, <2>3, <2>4, <2>5
<1>. QED
  BY <1>3, <1>4 DEF Tokens, h, d

\* Reading k units takes them from the front.
LEMMA FlowRead ==
  ASSUME NEW S, NEW b \in Seq(S), NEW w \in Seq(S), NEW k \in 0 .. Len(b)
  PROVE  /\ Rest(b, k) \in Seq(S) /\ Len(Rest(b, k)) = Len(b) - k
         /\ Taken(k, Len(b) + Len(w), Flow(b, w), Flow(Rest(b, k), w))
<1>0. PICK c : c = SubSeq(b, k + 1, Len(b)) /\ c = Rest(b, k)
  BY DEF Rest
<1>1. /\ c \in Seq(S) /\ Len(c) = Len(b) - k
      /\ \A i \in 1 .. Len(b) - k : c[i] = b[i + k]
  BY <1>0
<1>2. ASSUME NEW i \in 1 .. (Len(b) + Len(w)) - k
      PROVE  Flow(c, w)[i] = Flow(b, w)[i + k]
  <2>1. PICK lb \in Nat, lw \in Nat :
          lb = Len(b) /\ lw = Len(w) /\ Len(c) = lb - k /\ k \in 0 .. lb
          /\ i \in 1 .. (lb + lw) - k
    BY <1>1
  <2>2. /\ i \in 1 .. Len(c) + Len(w) /\ i + k \in 1 .. Len(b) + Len(w)
        /\ (i <= Len(c) <=> i + k <= Len(b)) /\ i - Len(c) = (i + k) - Len(b)
        /\ (i <= Len(c) => i \in 1 .. Len(b) - k)
    BY ONLY <2>1
  <2>3. Flow(c, w)[i] = IF i <= Len(c) THEN c[i] ELSE w[i - Len(c)]
    BY <2>2 DEF Flow
  <2>4. Flow(b, w)[i + k] = IF i + k <= Len(b) THEN b[i + k] ELSE w[(i + k) - Len(b)]
    BY <2>2 DEF Flow
  <2>. QED
    BY <1>1, <2>2, <2>3, <2>4
<1>. QED
  BY <1>0, <1>1, <1>2 DEF Taken

\* Delivery moves units from the network to the socket, not on the stream.
LEMMA FlowDeliver ==
  ASSUME NEW S, NEW b \in Seq(S), NEW w \in Seq(S), NEW k \in 1 .. Len(w)
  PROVE  /\ b \o SubSeq(w, 1, k) \in Seq(S) /\ Rest(w, k) \in Seq(S)
         /\ Len(b \o SubSeq(w, 1, k)) = Len(b) + k /\ Len(Rest(w, k)) = Len(w) - k
         /\ Flow(b \o SubSeq(w, 1, k), Rest(w, k)) = Flow(b, w)
<1>0. PICK c, v : /\ c = b \o SubSeq(w, 1, k)
                  /\ v = SubSeq(w, k + 1, Len(w)) /\ v = Rest(w, k)
  BY DEF Rest
<1>1. /\ v \in Seq(S) /\ Len(v) = Len(w) - k
      /\ \A i \in 1 .. Len(w) - k : v[i] = w[i + k]
  <2>0. v \in Seq(S)
    BY <1>0
  <2>1. v \in Seq(S) /\ \A i \in 1 .. Len(v) : v[i] = w[(k + 1) + i - 1]
    BY <1>0, <2>0
  <2>2. PICK lw \in Nat : lw = Len(w) /\ k \in 1 .. lw
    OBVIOUS
  <2>3. Len(v) = IF k + 1 <= lw THEN lw - (k + 1) + 1 ELSE 0
    BY <1>0, <2>2
  <2>4. Len(v) = lw - k
    BY ONLY <2>2, <2>3
  <2>5. ASSUME NEW i \in 1 .. lw - k PROVE (k + 1) + i - 1 = i + k
    BY ONLY <2>2, <2>5
  <2>. QED
    BY <2>1, <2>2, <2>4, <2>5
<1>2. /\ SubSeq(w, 1, k) \in Seq(S) /\ Len(SubSeq(w, 1, k)) = k
      /\ \A i \in 1 .. k : SubSeq(w, 1, k)[i] = w[i]
  OBVIOUS
<1>3. /\ c \in Seq(S) /\ Len(c) = Len(b) + k
      /\ \A i \in 1 .. Len(b) + k :
           c[i] = IF i <= Len(b) THEN b[i] ELSE SubSeq(w, 1, k)[i - Len(b)]
  BY <1>0, <1>2, ConcatProperties
<1>4. Len(c) + Len(v) = Len(b) + Len(w)
  <2>1. PICK lb \in Nat, lw \in Nat : lb = Len(b) /\ lw = Len(w) /\ k \in 1 .. lw
    OBVIOUS
  <2>2. Len(c) = lb + k /\ Len(v) = lw - k
    BY <1>1, <1>3, <2>1
  <2>. QED
    BY ONLY <2>1, <2>2
<1>5. ASSUME NEW i \in 1 .. Len(b) + Len(w)
      PROVE  (IF i <= Len(c) THEN c[i] ELSE v[i - Len(c)])
               = (IF i <= Len(b) THEN b[i] ELSE w[i - Len(b)])
  <2>0. PICK lb \in Nat, lw \in Nat : lb = Len(b) /\ lw = Len(w)
    OBVIOUS
  <2>1. CASE i <= Len(b)
    BY <1>3, <2>0, <2>1
  <2>2. CASE i > Len(b) /\ i <= Len(c)
    <3>1. i \in 1 .. Len(b) + k /\ i - Len(b) \in 1 .. k /\ ~(i <= Len(b))
      BY <1>3, <2>0, <2>2
    <3>. QED
      BY <1>2, <1>3, <2>2, <3>1
  <2>3. CASE i > Len(c)
    <3>1. i - Len(c) \in 1 .. Len(w) - k /\ (i - Len(c)) + k = i - Len(b)
      BY <1>3, <2>0, <2>3
    <3>2. ~(i <= Len(c)) /\ ~(i <= Len(b))
      BY <1>3, <2>0, <2>3
    <3>. QED
      BY <1>1, <3>1, <3>2
  <2>4. i <= Len(b) \/ (i > Len(b) /\ i <= Len(c)) \/ i > Len(c)
    BY <1>3, <2>0
  <2>. QED
    BY <2>1, <2>2, <2>3, <2>4
<1>. QED
  BY <1>0, <1>1, <1>3, <1>4, <1>5 DEF Flow

\* Sending puts units at the end.
LEMMA FlowSend ==
  ASSUME NEW S, NEW b \in Seq(S), NEW w \in Seq(S), NEW u \in Seq(S)
  PROVE  /\ w \o u \in Seq(S) /\ Len(w \o u) = Len(w) + Len(u)
         /\ \A i \in 1 .. Len(b) + Len(w) : Flow(b, w \o u)[i] = Flow(b, w)[i]
         /\ \A j \in 1 .. Len(u) : Flow(b, w \o u)[Len(b) + Len(w) + j] = u[j]
<1>1. /\ w \o u \in Seq(S) /\ Len(w \o u) = Len(w) + Len(u)
      /\ \A i \in 1 .. Len(w) : (w \o u)[i] = w[i]
      /\ \A j \in 1 .. Len(u) : (w \o u)[Len(w) + j] = u[j]
  OBVIOUS
<1>2. PICK lb \in Nat, lw \in Nat, lu \in Nat :
        lb = Len(b) /\ lw = Len(w) /\ lu = Len(u)
  OBVIOUS
<1>3. ASSUME NEW i \in 1 .. lb + lw PROVE Flow(b, w \o u)[i] = Flow(b, w)[i]
  <2>1. i \in 1 .. lb + (lw + lu) /\ (~(i <= lb) => i - lb \in 1 .. lw)
    OBVIOUS
  <2>. QED
    BY <1>1, <1>2, <2>1 DEF Flow
<1>4. ASSUME NEW j \in 1 .. lu PROVE Flow(b, w \o u)[lb + lw + j] = u[j]
  <2>1. /\ lb + lw + j \in 1 .. lb + (lw + lu) /\ ~(lb + lw + j <= lb)
        /\ (lb + lw + j) - lb = lw + j
    OBVIOUS
  <2>. QED
    BY <1>1, <1>2, <2>1 DEF Flow
<1>. QED
  BY <1>1, <1>2, <1>3, <1>4

-----------------------------------------------------------------------------
(* The invariant                                                           *)

Received == [of : Nat, size : Nat, data : Nat]

\* The last packet that has been received.
LastIn(rc) == IF Len(rc) = 0 THEN 0 ELSE rc[Len(rc)].of

\* Every packet received is the one before it again, or the next one, which
\* then has its own size and payload.
Steps(rc, z) == \A i \in 1 .. Len(rc) :
  LET last == IF i = 1 THEN 0 ELSE rc[i - 1].of
      n == rc[i].of
  IN  \/ n = last
      \/ n = last + 1 /\ rc[i].size = z[n] /\ (z[n] # 0 => rc[i].data = n)

InOrder(rc, z) == \A i \in 1 .. Len(rc) :
  rc[i].of = i /\ rc[i].size = z[i] /\ (z[i] # 0 => rc[i].data = i)

StreamInv == /\ sent \in Seq(Sizes) /\ wire \in Seq(Token) /\ buffer \in Seq(Token)
             /\ signals \in Nat
             /\ reset => wire = <<>> /\ buffer = <<>>

ValuesInv == /\ received \in Seq(Received) /\ datap \in Nat
             /\ pkt \in [of : Nat, size : SizeField]
             /\ \A i \in 1 .. Len(received) : received[i].of \in 0 .. Len(sent)

\* The packet in *pkt, and what signals have added to the packets received: an
\* errno that nobody has reset is a repetition to come.
ProgressInv ==
  /\ pc = "header" => pkt.of = LastIn(received)
  /\ pc = "payload" => /\ pkt.of = LastIn(received) + 1 /\ pkt.of \in 1 .. Len(sent)
                       /\ pkt.size = sent[pkt.of] /\ pkt.size # 0
  /\ signals = 0 => errno # EINTR /\ LastIn(received) = Len(received)
  /\ Len(received) + (IF errno = EINTR THEN 1 ELSE 0) <= LastIn(received) + signals

HistoryInv == /\ Steps(received, sent)
              /\ signals = 0 => InOrder(received, sent)

\* The next packet starts where the thread reads, or its payload does, and if
\* packets arrive whole the socket ends where a packet does.
Placed(s) ==
  /\ Layout(s, sent, Len(buffer) + Len(wire), Flow(buffer, wire))
  /\ pc = "header" => s[pkt.of + 1] = 1
  /\ pc = "payload" => s[pkt.of] = -1
  /\ whole => \E b \in 1 .. Len(sent) + 1 : s[b] = Len(buffer) + 1

PlaceInv == ~reset /\ pc # "failed" => \E s : Placed(s)

\* With a signal and a packet in pieces the thread may lose its place.
Guard == signals = 0 \/ whole

PacketsInv == StreamInv /\ ValuesInv /\ ProgressInv /\ HistoryInv /\ PlaceInv

RecvInv == signals \in Nat /\ (Guard => PacketsInv)

LEMMA LastInBounds ==
  ASSUME StreamInv, ValuesInv
  PROVE  LastIn(received) \in 0 .. Len(sent) /\ Len(received) \in Nat
<1>1. Len(received) \in Nat /\ Len(sent) \in Nat
  BY DEF StreamInv, ValuesInv
<1>2. CASE Len(received) = 0
  BY <1>1, <1>2 DEF LastIn
<1>3. CASE Len(received) # 0
  <2>1. Len(received) \in 1 .. Len(received)
    BY <1>1, <1>3
  <2>. QED
    BY <1>1, <1>3, <2>1 DEF LastIn, ValuesInv
<1>. QED
  BY <1>2, <1>3

\* One more packet is received.
LEMMA ReceivedOnce ==
  ASSUME StreamInv, ValuesInv, HistoryInv, NEW r \in Received,
         r.of \in 0 .. Len(sent),
         NEW rc, rc = Append(received, r)
  PROVE  /\ rc \in Seq(Received) /\ Len(rc) = Len(received) + 1
         /\ LastIn(rc) = r.of
         /\ \A i \in 1 .. Len(rc) : rc[i].of \in 0 .. Len(sent)
         /\ \/ r.of = LastIn(received)
            \/ /\ r.of = LastIn(received) + 1 /\ r.size = sent[r.of]
               /\ sent[r.of] # 0 => r.data = r.of
            => Steps(rc, sent)
         /\ /\ signals = 0 /\ r.of = Len(received) + 1 /\ r.size = sent[r.of]
            /\ sent[r.of] # 0 => r.data = r.of
            => InOrder(rc, sent)
<1>1. PICK m \in Nat : m = Len(received) /\ Len(sent) \in Nat
  BY DEF StreamInv, ValuesInv
<1>2. /\ rc \in Seq(Received) /\ Len(rc) = m + 1 /\ rc[m + 1] = r
      /\ \A n \in 1 .. m : rc[n] = received[n]
  BY <1>1, AppendFacts DEF ValuesInv
<1>3. \A i \in 1 .. m + 1 : i \in 1 .. m \/ i = m + 1
  OBVIOUS
<1>4. LastIn(rc) = r.of
  BY <1>2 DEF LastIn
<1>5. \A i \in 1 .. Len(rc) : rc[i].of \in 0 .. Len(sent)
  BY <1>1, <1>2, <1>3 DEF ValuesInv
<1>6. ASSUME \/ r.of = LastIn(received)
             \/ /\ r.of = LastIn(received) + 1 /\ r.size = sent[r.of]
                /\ sent[r.of] # 0 => r.data = r.of
      PROVE  Steps(rc, sent)
  <2>1. ASSUME NEW i \in 1 .. m + 1
        PROVE  LET last == IF i = 1 THEN 0 ELSE rc[i - 1].of
                   n == rc[i].of
               IN  \/ n = last
                   \/ /\ n = last + 1 /\ rc[i].size = sent[n]
                      /\ sent[n] # 0 => rc[i].data = n
    <3>1. CASE i \in 1 .. m
      <4>1. i # 1 => i - 1 \in 1 .. m
        BY <3>1
      <4>2. rc[i] = received[i] /\ (i # 1 => rc[i - 1] = received[i - 1])
        BY <1>2, <3>1, <4>1
      <4>. QED
        BY <1>1, <3>1, <4>2 DEF HistoryInv, Steps
    <3>2. CASE i = m + 1
      <4>1. (IF i = 1 THEN 0 ELSE rc[i - 1].of) = LastIn(received)
        <5>1. CASE m = 0
          BY <1>1, <3>2, <5>1 DEF LastIn
        <5>2. CASE m # 0
          <6>1. i # 1 /\ i - 1 = m /\ m \in 1 .. m
            BY <3>2, <5>2
          <6>. QED
            BY <1>1, <1>2, <5>2, <6>1 DEF LastIn
        <5>. QED
          BY <5>1, <5>2
      <4>2. rc[i] = r
        BY <1>2, <3>2
      <4>. QED
        BY ONLY <1>6, <4>1, <4>2
    <3>. QED
      BY <1>3, <3>1, <3>2
  <2>. QED
    BY <1>2, <2>1 DEF Steps
<1>7. ASSUME signals = 0, r.of = Len(received) + 1, r.size = sent[r.of],
             sent[r.of] # 0 => r.data = r.of
      PROVE  InOrder(rc, sent)
  BY <1>1, <1>2, <1>3, <1>7 DEF HistoryInv, InOrder
<1>. QED
  BY <1>1, <1>2, <1>4, <1>5, <1>6, <1>7

-----------------------------------------------------------------------------
(* The client and the network                                              *)

LEMMA RecvInit ==
  ASSUME Init
  PROVE  RecvInv
<1>1. StreamInv
  BY DEF Init, StreamInv
<1>2. ValuesInv
  BY BoundAssumption DEF Init, ValuesInv, SizeField
<1>3. ProgressInv /\ HistoryInv
  BY DEF Init, ProgressInv, LastIn, HistoryInv, Steps, InOrder, EINTR
<1>4. Placed([n \in 1 .. 1 |-> 1])
  BY DEF Init, Placed, Layout
<1>. QED
  BY <1>1, <1>2, <1>3, <1>4 DEF RecvInv, PacketsInv, PlaceInv, StreamInv

\* A step that leaves the thread and the stream where they are.
LEMMA QuietInv ==
  ASSUME PacketsInv, UNCHANGED <<sent, wire, buffer, reset, server, signals, whole>>
  PROVE  PacketsInv'
BY DEF PacketsInv, StreamInv, ValuesInv, ProgressInv, HistoryInv, PlaceInv, Placed, server

LEMMA BreakInv ==
  ASSUME PacketsInv, ConnectionBreaks
  PROVE  PacketsInv'
<1>1. StreamInv'
  BY DEF PacketsInv, StreamInv, ConnectionBreaks, server
<1>2. (ValuesInv /\ ProgressInv /\ HistoryInv /\ PlaceInv)'
  BY DEF PacketsInv, ConnectionBreaks, server, ValuesInv, ProgressInv, HistoryInv, PlaceInv
<1>. QED
  BY <1>1, <1>2 DEF PacketsInv

LEMMA OtherCallInv ==
  ASSUME PacketsInv, OtherCallInterrupted
  PROVE  PacketsInv'
<1> USE DEF OtherCallInterrupted, client
<1>1. StreamInv /\ ValuesInv /\ ProgressInv /\ HistoryInv /\ PlaceInv
  BY DEF PacketsInv
<1>2. signals \in Nat /\ signals' = signals + 1 /\ signals' # 0
  BY <1>1 DEF StreamInv
<1>3. StreamInv' /\ ValuesInv' /\ HistoryInv' /\ PlaceInv'
  BY <1>1, <1>2 DEF StreamInv, ValuesInv, HistoryInv, PlaceInv, Placed
<1>4. ProgressInv'
  <2>1. PICK l \in Nat, m \in Nat : l = Len(received) /\ m = LastIn(received)
    BY <1>1, LastInBounds
  <2>2. l + (IF errno = EINTR THEN 1 ELSE 0) <= m + signals
    BY <1>1, <2>1 DEF ProgressInv
  <2>3. l + 1 <= m + (signals + 1)
    BY ONLY <1>2, <2>1, <2>2
  <2>. QED
    BY <1>1, <1>2, <2>1, <2>3 DEF ProgressInv
<1>. QED
  BY <1>3, <1>4 DEF PacketsInv

LEMMA SendInv ==
  ASSUME PacketsInv, ClientSend
  PROVE  PacketsInv'
<1>1. PICK size \in Sizes : /\ sent' = Append(sent, size)
                            /\ wire' = wire \o Tokens(Len(sent) + 1, size)
  BY DEF ClientSend
<1>2. /\ StreamInv /\ ~reset /\ Len(sent) < MaxSent
      /\ UNCHANGED <<eof, reset, buffer, server, signals, whole>>
  BY DEF PacketsInv, ClientSend
<1>3. PICK m \in Nat : m = Len(sent) /\ m + 1 \in 1 .. MaxSent
  BY <1>2, BoundAssumption DEF StreamInv
<1>4. /\ sent' \in Seq(Sizes) /\ Len(sent') = m + 1 /\ sent'[m + 1] = size
      /\ \A n \in 1 .. m : sent'[n] = sent[n]
  BY <1>1, <1>2, <1>3, AppendFacts DEF StreamInv
<1>5. PICK u : /\ u = Tokens(m + 1, size) /\ u \in Seq(Token) /\ Len(u) = size + 2
               /\ \A j \in 0 .. size + 1 : u[1 + j] = Unit(m + 1, j)
  <2>1. size \in Nat
    BY SizesAreNumbers
  <2>2. PICK n \in 1 .. MaxSent : n = m + 1
    BY <1>3
  <2>3. /\ Tokens(n, size) \in Seq(Token) /\ Len(Tokens(n, size)) = size + 2
        /\ \A j \in 0 .. size + 1 : Tokens(n, size)[1 + j] = Unit(n, j)
    BY <2>1, TokensShape
  <2>. QED
    BY ONLY <2>2, <2>3
<1>6. wire' = wire \o u
  BY <1>1, <1>3, <1>5
<1>7. /\ wire' \in Seq(Token) /\ Len(wire') = Len(wire) + (size + 2)
      /\ \A i \in 1 .. Len(buffer) + Len(wire) :
           Flow(buffer, wire')[i] = Flow(buffer, wire)[i]
      /\ \A j \in 1 .. size + 2 :
           Flow(buffer, wire')[Len(buffer) + Len(wire) + j] = u[j]
  <2>1. wire \in Seq(Token) /\ buffer \in Seq(Token) /\ u \in Seq(Token)
    BY <1>2, <1>5 DEF StreamInv
  <2>2. /\ wire \o u \in Seq(Token) /\ Len(wire \o u) = Len(wire) + Len(u)
        /\ \A i \in 1 .. Len(buffer) + Len(wire) :
             Flow(buffer, wire \o u)[i] = Flow(buffer, wire)[i]
        /\ \A j \in 1 .. Len(u) : Flow(buffer, wire \o u)[Len(buffer) + Len(wire) + j] = u[j]
    BY ONLY <2>1, FlowSend
  <2>3. Len(u) = size + 2
    BY <1>5
  <2>. QED
    BY ONLY <1>6, <2>2, <2>3
<1>8. StreamInv'
  BY <1>2, <1>4, <1>7 DEF StreamInv, server
<1>9. (ValuesInv /\ ProgressInv /\ HistoryInv /\ PlaceInv)'
  <2>2. ValuesInv /\ ProgressInv /\ HistoryInv /\ PlaceInv
    BY DEF PacketsInv
  <2>3. ValuesInv'
    <3>1. \A k \in 0 .. Len(sent) : k \in 0 .. m + 1
      BY <1>3
    <3>. QED
      BY <1>2, <1>4, <2>2, <3>1 DEF ValuesInv, server
  <2>4. ProgressInv'
    <3>1. \A k \in 1 .. Len(sent) : k \in 1 .. m + 1 /\ sent'[k] = sent[k]
      BY <1>3, <1>4
    <3>. QED
      BY <1>2, <1>4, <2>2, <3>1 DEF ProgressInv, server
  <2>5. HistoryInv'
    <3>1. \A k \in 1 .. m : sent'[k] = sent[k]
      BY <1>4
    <3>2. Steps(received, sent')
      <4>1. ASSUME NEW i \in 1 .. Len(received),
                   NEW p, p = IF i = 1 THEN 0 ELSE received[i - 1].of,
                   NEW n, n = received[i].of,
                   n # p
            PROVE  n = p + 1 /\ received[i].size = sent'[n]
                             /\ (sent'[n] # 0 => received[i].data = n)
        <5>1. /\ n = p + 1 /\ received[i].size = sent[n]
              /\ sent[n] # 0 => received[i].data = n
          BY <2>2, <4>1 DEF HistoryInv, Steps
        <5>2. p \in Nat
          <6>1. Len(received) \in Nat
            BY <2>2 DEF ValuesInv
          <6>2. i # 1 => i - 1 \in 1 .. Len(received)
            BY <6>1
          <6>. QED
            BY <2>2, <4>1, <6>2 DEF ValuesInv
        <5>3. n \in 0 .. m
          BY <1>3, <2>2, <4>1 DEF ValuesInv
        <5>4. n \in 1 .. m
          BY ONLY <5>1, <5>2, <5>3
        <5>. QED
          BY <3>1, <5>1, <5>4
      <4>. QED
        BY <4>1 DEF Steps
    <3>3. ASSUME signals' = 0 PROVE InOrder(received, sent')
      <4>1. signals = 0 /\ LastIn(received) = Len(received)
        BY <1>2, <2>2, <3>3 DEF ProgressInv
      <4>2. Len(received) \in 0 .. m
        BY <1>2, <1>3, <2>2, <4>1, LastInBounds
      <4>3. \A i \in 1 .. Len(received) : i \in 1 .. m
        BY <4>2
      <4>. QED
        BY <2>2, <3>1, <4>1, <4>3 DEF HistoryInv, InOrder
    <3>. QED
      BY <1>2, <3>2, <3>3 DEF HistoryInv, server
  <2>6. PlaceInv'
    <3>1. ASSUME pc # "failed" PROVE \E s : Placed(s)'
      <4>1. PICK s : Placed(s)
        BY <1>2, <2>2, <3>1 DEF PlaceInv
      <4>2. PICK len \in Nat : len = Len(buffer) + Len(wire) /\ Len(buffer) \in Nat
        BY <1>2 DEF StreamInv
      <4> DEFINE t == [n \in 1 .. m + 2 |-> IF n = m + 2 THEN len + 3 + size ELSE s[n]]
      <4>3. Layout(t, sent', len + 2 + size, Flow(buffer, wire'))
        <5>1. size \in Nat /\ sent \in Seq(Nat)
          <6>1. size \in Nat /\ \A n \in 1 .. Len(sent) : sent[n] \in Nat
            BY <1>2, SizesAreNumbers, ElementOfSeq DEF StreamInv
          <6>2. sent \in Seq(Sizes)
            BY <1>2 DEF StreamInv
          <6>. QED
            BY ONLY <6>1, <6>2
        <5>2. Layout(s, sent, len, Flow(buffer, wire))
          BY <4>1, <4>2 DEF Placed
        <5>3. \A j \in 0 .. size + 1 :
                Flow(buffer, wire')[len + 1 + j] = Unit(Len(sent) + 1, j)
          <6>1. ASSUME NEW j \in 0 .. size + 1
                PROVE  Flow(buffer, wire')[len + 1 + j] = Unit(m + 1, j)
            <7>1. 1 + j \in 1 .. size + 2 /\ len + 1 + j = len + (1 + j)
              BY <5>1
            <7>. QED
              BY <1>5, <1>7, <4>2, <7>1
          <6>. QED
            BY <1>3, <6>1
        <5>4. \A i \in 1 .. len : Flow(buffer, wire')[i] = Flow(buffer, wire)[i]
          BY <1>7, <4>2
        <5>5. t = [n \in 1 .. Len(sent) + 2 |->
                     IF n = Len(sent) + 2 THEN len + 3 + size ELSE s[n]]
          BY <1>3
        <5>6. Layout(t, Append(sent, size), len + 2 + size, Flow(buffer, wire'))
          <6> HIDE DEF t
          <6>. QED
            BY ONLY <5>1, <5>2, <5>3, <5>4, <5>5, len \in Nat, LayoutAppend
        <5>. QED
          BY ONLY <1>1, <5>6
      <4>4. Len(buffer) + Len(wire') = len + 2 + size
        <5>1. Len(wire) \in Nat /\ size \in Nat
          BY <1>2, SizesAreNumbers DEF StreamInv
        <5>. QED
          BY <1>7, <4>2, <5>1
      <4>5. \A n \in 1 .. m + 1 : t[n] = s[n] /\ n \in 1 .. (m + 1) + 1
        OBVIOUS
      <4> HIDE DEF t
      <4>6. pc = "header" => t[pkt.of + 1] = 1
        <5>1. ASSUME pc = "header" PROVE pkt.of + 1 \in 1 .. m + 1
          <6>1. pkt.of \in 0 .. m
            BY <1>2, <1>3, <2>2, <5>1, LastInBounds DEF ProgressInv
          <6>. QED
            BY <6>1
        <5>. QED
          BY <4>1, <4>5, <5>1 DEF Placed
      <4>7. pc = "payload" => t[pkt.of] = -1
        <5>1. ASSUME pc = "payload" PROVE pkt.of \in 1 .. m + 1
          <6>1. pkt.of \in 1 .. m
            BY <1>3, <2>2, <5>1 DEF ProgressInv
          <6>. QED
            BY <6>1
        <5>. QED
          BY <4>1, <4>5, <5>1 DEF Placed
      <4>8. whole => \E b \in 1 .. (m + 1) + 1 : t[b] = Len(buffer) + 1
        BY <1>3, <4>1, <4>5 DEF Placed
      <4>9. Placed(t)'
        BY <1>2, <1>4, <4>3, <4>4, <4>6, <4>7, <4>8 DEF Placed, server
      <4>. QED
        BY <4>9
    <3>. QED
      BY <1>2, <3>1 DEF PlaceInv, server
  <2>. QED
    BY <2>3, <2>4, <2>5, <2>6
<1>. QED
  BY <1>8, <1>9 DEF PacketsInv

LEMMA DeliverInv ==
  ASSUME PacketsInv, Deliver
  PROVE  PacketsInv'
<1>1. PICK n \in 1 .. Len(wire) :
        /\ whole' = (whole /\ (n < Len(wire) => wire[n + 1].part = "head"))
        /\ buffer' = buffer \o SubSeq(wire, 1, n)
        /\ wire' = SubSeq(wire, n + 1, Len(wire))
  BY DEF Deliver
<1>2. StreamInv /\ UNCHANGED <<client, server, signals>>
  BY DEF PacketsInv, Deliver
<1>3. PICK lb \in Nat, lw \in Nat : lb = Len(buffer) /\ lw = Len(wire) /\ n \in 1 .. lw
  BY <1>2 DEF StreamInv
<1>4. /\ buffer' \in Seq(Token) /\ wire' \in Seq(Token)
      /\ Len(buffer') = lb + n /\ Len(wire') = lw - n
      /\ Flow(buffer', wire') = Flow(buffer, wire)
  <2>1. wire \in Seq(Token) /\ buffer \in Seq(Token)
    BY <1>2 DEF StreamInv
  <2>2. /\ buffer' \in Seq(Token) /\ wire' \in Seq(Token)
        /\ Len(buffer') = Len(buffer) + n /\ Len(wire') = Len(wire) - n
        /\ Flow(buffer', wire') = Flow(buffer, wire)
    BY ONLY <1>1, <2>1, FlowDeliver DEF Rest
  <2>. QED
    BY ONLY <1>3, <2>2
<1>5. ~reset
  BY <1>2, <1>3 DEF StreamInv
<1>6. StreamInv'
  BY <1>2, <1>4, <1>5 DEF StreamInv, client
<1>7. (ValuesInv /\ ProgressInv /\ HistoryInv /\ PlaceInv)'
  <2>2. ValuesInv /\ ProgressInv /\ HistoryInv /\ PlaceInv
    BY DEF PacketsInv
  <2>3. ValuesInv' /\ ProgressInv' /\ HistoryInv'
    BY <1>2, <2>2 DEF ValuesInv, ProgressInv, HistoryInv, client, server
  <2>4. ASSUME pc # "failed" PROVE \E s : Placed(s)'
    <3>1. PICK s : Placed(s)
      BY <1>5, <2>2, <2>4 DEF PlaceInv
    <3>2. lb + lw = Len(buffer') + Len(wire')
      BY ONLY <1>3, <1>4
    <3>3. Layout(s, sent, lb + lw, Flow(buffer, wire))
      BY <1>3, <3>1 DEF Placed
    <3>4. ASSUME whole' PROVE \E b \in 1 .. Len(sent) + 1 : s[b] = (lb + n) + 1
      <4>1. CASE n = lw
        <5>1. Len(sent) + 1 \in 1 .. Len(sent) + 1
          BY <1>2 DEF StreamInv
        <5>. QED
          BY <3>3, <4>1, <5>1 DEF Layout
      <4>2. CASE n # lw
        <5>1. n + 1 \in 1 .. lw /\ n < lw
          BY ONLY <1>3, <4>2
        <5>2. wire[n + 1].part = "head"
          BY <1>1, <1>3, <3>4, <5>1
        <5>3. PICK q \in Nat : /\ q = lb + n + 1 /\ q \in 1 .. lb + lw
                               /\ ~(q <= lb) /\ q - lb = n + 1
          BY ONLY <1>3, <5>1
        <5>4. Flow(buffer, wire)[q] = wire[n + 1]
          BY <1>3, <5>3 DEF Flow
        <5>5. PICK a \in 1 .. Len(sent) : q \in s[a] .. s[a] + sent[a] + 1
          BY <3>3, <5>3 DEF Layout
        <5>6. PICK x \in Int, y \in Nat : x = s[a] /\ y = sent[a]
          <6>1. sent[a] \in Sizes
            BY <1>2, ElementOfSeq DEF StreamInv
          <6>2. a \in 1 .. Len(sent) + 1
            BY <1>2 DEF StreamInv
          <6>. QED
            BY <3>3, <6>1, <6>2, SizesAreNumbers DEF Layout
        <5>7. PICK j \in 0 .. y + 1 : x + j = q
          <6>1. q \in x .. x + y + 1
            BY <5>5, <5>6
          <6>2. q - x \in 0 .. y + 1 /\ x + (q - x) = q
            BY ONLY <5>3, <5>6, <6>1
          <6>. QED
            BY <6>2
        <5>8. Flow(buffer, wire)[q] = Unit(a, j)
          <6>1. x + j >= 1
            BY ONLY <5>3, <5>7
          <6>. QED
            BY <3>3, <5>6, <5>7, <6>1 DEF Layout
        <5>9. j = 0
          BY <5>2, <5>4, <5>8 DEF Unit
        <5>10. s[a] = (lb + n) + 1 /\ a \in 1 .. Len(sent) + 1
          <6>1. Len(sent) \in Nat
            BY <1>2 DEF StreamInv
          <6>. QED
            BY <5>3, <5>6, <5>7, <5>9, <6>1
        <5>. QED
          BY <5>10
      <4>. QED
        BY <4>1, <4>2
    <3>5. Placed(s)'
      BY <1>2, <1>4, <3>1, <3>2, <3>3, <3>4 DEF Placed, client, server
    <3>. QED
      BY <3>5
  <2>5. PlaceInv'
    BY <1>2, <2>4 DEF PlaceInv, server
  <2>. QED
    BY <2>3, <2>5
<1>. QED
  BY <1>6, <1>7 DEF PacketsInv

-----------------------------------------------------------------------------
(* proto_recv_packet                                                       *)

\* What a read() does.
LEMMA ReadFacts ==
  ASSUME StreamInv, NEW want \in Nat, NEW n, NEW e, Read(want, n, e)
  PROVE  /\ buffer' \in Seq(Token) /\ signals' \in Nat
         /\ buffer = <<>> => buffer' = <<>>
         /\ \/ /\ buffer # <<>> /\ n = MinOf(want, Len(buffer)) /\ n \in 0 .. Len(buffer)
               /\ buffer' = SubSeq(buffer, n + 1, Len(buffer))
               /\ e = errno /\ signals' = signals
            \/ /\ n \in {-1, 0} /\ buffer' = buffer
               /\ \/ e = errno /\ signals' = signals
                  \/ e = EINTR /\ signals' = signals + 1
                  \/ e = ECONNRESET /\ signals' = signals
<1>1. signals \in Nat /\ buffer \in Seq(Token) /\ Len(buffer) \in Nat
  BY DEF StreamInv
<1>2. CASE ReadData(want, n, e)
  <2>1. n \in 0 .. Len(buffer)
    BY <1>1, <1>2 DEF ReadData, MinOf
  <2>2. SubSeq(buffer, n + 1, Len(buffer)) \in Seq(Token)
    BY <1>1, <2>1, FlowRead
  <2>. QED
    BY <1>1, <1>2, <2>1, <2>2 DEF ReadData
<1>3. CASE ReadEof(n, e)
  BY <1>1, <1>3 DEF ReadEof
<1>4. CASE ReadInterrupted(n, e)
  BY <1>1, <1>4 DEF ReadInterrupted
<1>5. CASE ReadBroken(n, e)
  BY <1>1, <1>5 DEF ReadBroken
<1>. QED
  BY <1>2, <1>3, <1>4, <1>5 DEF Read

\* The units of packet n, from j on, that are in the socket.
LEMMA UnitsInSocket ==
  ASSUME StreamInv, NEW s, Layout(s, sent, Len(buffer) + Len(wire), Flow(buffer, wire)),
         NEW n \in 1 .. Len(sent), NEW j \in 0 .. sent[n] + 1,
         NEW k \in 1 .. Len(buffer), s[n] + j = k
  PROVE  buffer[k] = Unit(n, j)
<1>1. Len(buffer) \in Nat /\ Len(wire) \in Nat
  BY DEF StreamInv
<1>2. Flow(buffer, wire)[k] = Unit(n, j)
  <2>1. s[n] + j >= 1
    BY <1>1
  <2>. QED
    BY <2>1 DEF Layout
<1>3. k \in 1 .. Len(buffer) + Len(wire) /\ k <= Len(buffer)
  BY <1>1
<1>. QED
  BY <1>2, <1>3 DEF Flow

\* Where a header is expected there is the header of the next packet, and all
\* of it if packets arrive whole.
LEMMA HeaderRead ==
  ASSUME StreamInv, ValuesInv, ProgressInv, NEW s, Placed(s),
         pc = "header", buffer # <<>>, NEW p, p = pkt.of + 1
  PROVE  /\ p \in 1 .. Len(sent) /\ s[p] = 1
         /\ buffer[1] = Unit(p, 0)
         /\ Len(buffer) >= 2 => buffer[2] = Unit(p, 1)
         /\ whole => Len(buffer) >= 2
<1>1. PICK lb \in Nat, lw \in Nat, m \in Nat :
        lb = Len(buffer) /\ lb # 0 /\ lw = Len(wire) /\ m = Len(sent)
  BY DEF StreamInv
<1>2. /\ Layout(s, sent, lb + lw, Flow(buffer, wire)) /\ s[p] = 1
      /\ whole => \E b \in 1 .. m + 1 : s[b] = lb + 1
  BY <1>1 DEF Placed
<1>3. p \in 1 .. m + 1
  <2>1. pkt.of \in 0 .. m
    BY <1>1, LastInBounds DEF ProgressInv
  <2>. QED
    BY <2>1
<1>4. p \in 1 .. m
  <2>1. s[m + 1] = (lb + lw) + 1
    BY <1>1, <1>2 DEF Layout
  <2>2. p # m + 1
    BY ONLY <1>1, <1>2, <2>1
  <2>. QED
    BY ONLY <1>1, <1>3, <2>2
<1>5. PICK y \in Nat : y = sent[p]
  BY <1>1, <1>4, ElementOfSeq, SizesAreNumbers DEF StreamInv
<1>6. 0 \in 0 .. y + 1 /\ 1 \in 0 .. y + 1
  OBVIOUS
<1>7. buffer[1] = Unit(p, 0)
  <2>1. 1 \in 1 .. Len(buffer) /\ s[p] + 0 = 1
    BY <1>1, <1>2
  <2>. QED
    BY <1>1, <1>2, <1>4, <1>5, <1>6, <2>1, UnitsInSocket
<1>8. ASSUME lb >= 2 PROVE buffer[2] = Unit(p, 1)
  <2>1. 2 \in 1 .. Len(buffer) /\ s[p] + 1 = 2
    BY <1>1, <1>2, <1>8
  <2>. QED
    BY <1>1, <1>2, <1>4, <1>5, <1>6, <2>1, UnitsInSocket
<1>9. ASSUME whole PROVE lb >= 2
  <2>1. PICK b \in 1 .. m + 1 : s[b] = lb + 1
    BY <1>2, <1>9
  <2>2. CASE b < p
    <3>1. b \in 1 .. m /\ p \in 1 .. m + 1
      BY ONLY <1>3, <1>1, <2>1, <2>2, b \in 1 .. m + 1
    <3>2. s[b + 1] <= s[p] /\ s[b + 1] = s[b] + 2 + sent[b]
      BY <1>1, <1>2, <2>2, <3>1 DEF Layout
    <3>3. PICK z \in Nat : z = sent[b]
      BY <1>1, <3>1, ElementOfSeq, SizesAreNumbers DEF StreamInv
    <3>. QED
      BY ONLY <1>1, <1>2, <2>1, <3>2, <3>3
  <2>3. CASE b = p
    BY ONLY <1>1, <1>2, <2>1, <2>3
  <2>4. CASE p < b
    <3>1. s[p + 1] <= s[b] /\ s[p + 1] = s[p] + 2 + y
      BY <1>1, <1>2, <1>4, <1>5, <2>4 DEF Layout
    <3>. QED
      BY ONLY <1>1, <1>2, <2>1, <3>1, y \in Nat
  <2>5. b < p \/ b = p \/ p < b
    BY ONLY <1>1, <1>3, b \in 1 .. m + 1
  <2>. QED
    BY ONLY <2>2, <2>3, <2>4, <2>5
<1>. QED
  BY <1>1, <1>2, <1>4, <1>7, <1>8, <1>9

\* Taking k units from the socket keeps the layout.
LEMMA ReadLayout ==
  ASSUME StreamInv, NEW s, Layout(s, sent, Len(buffer) + Len(wire), Flow(buffer, wire)),
         NEW k \in 0 .. Len(buffer), buffer' = SubSeq(buffer, k + 1, Len(buffer)),
         wire' = wire
  PROVE  /\ Layout(Shifted(s, sent, k), sent, Len(buffer') + Len(wire'),
                   Flow(buffer', wire'))
         /\ \A n \in 1 .. Len(sent) + 1 : Shifted(s, sent, k)[n] = s[n] - k
         /\ Len(buffer') = Len(buffer) - k
<1>1. PICK lb \in Nat, lw \in Nat, m \in Nat :
        lb = Len(buffer) /\ lw = Len(wire) /\ m = Len(sent) /\ k \in 0 .. lb
  BY DEF StreamInv
<1>2. /\ Len(buffer') = lb - k
      /\ Taken(k, lb + lw, Flow(buffer, wire), Flow(buffer', wire))
  <2>1. wire \in Seq(Token) /\ buffer \in Seq(Token)
    BY DEF StreamInv
  <2>2. /\ Len(Rest(buffer, k)) = Len(buffer) - k
        /\ Taken(k, Len(buffer) + Len(wire), Flow(buffer, wire), Flow(Rest(buffer, k), wire))
    BY ONLY <2>1, k \in 0 .. Len(buffer), FlowRead
  <2>. QED
    BY <1>1, <2>2 DEF Rest
<1>3. \A n \in 1 .. m : sent[n] \in Nat
  BY <1>1, ElementOfSeq, SizesAreNumbers DEF StreamInv
<1>4. /\ Layout(Shifted(s, sent, k), sent, (lb + lw) - k, Flow(buffer', wire))
      /\ \A n \in 1 .. Len(sent) + 1 : Shifted(s, sent, k)[n] = s[n] - k
  <2>1. k \in 0 .. lb + lw /\ lb + lw \in Nat
    BY ONLY <1>1
  <2>2. Layout(s, sent, lb + lw, Flow(buffer, wire))
    BY <1>1
  <2>3. Len(sent) \in Nat /\ \A n \in 1 .. Len(sent) : sent[n] \in Nat
    BY <1>1, <1>3
  <2>length. PICK len \in Nat : len = lb + lw
    BY <2>1
  <2>4. PICK f, g :
          /\ len \in Nat /\ len = lb + lw /\ k \in 0 .. len
          /\ f = Flow(buffer, wire) /\ g = Flow(buffer', wire)
    BY <2>1, <2>length
  <2>5. Layout(s, sent, len, f) /\ Taken(k, len, f, g)
    BY ONLY <1>2, <2>2, <2>4
  <2>6. /\ Layout(Shifted(s, sent, k), sent, len - k, g)
        /\ \A n \in 1 .. Len(sent) + 1 : Shifted(s, sent, k)[n] = s[n] - k
    BY ONLY <2>3, <2>4, <2>5, LayoutShift
  <2>. QED
    BY ONLY <2>4, <2>6
<1>5. Len(buffer') + Len(wire') = (lb + lw) - k
  <2>1. Len(buffer') = lb - k /\ Len(wire') = lw
    BY <1>1, <1>2
  <2>. QED
    BY ONLY <1>1, <2>1
<1>. QED
  BY <1>1, <1>2, <1>4, <1>5

\* What a read() may do to errno and the number of signals.
Signalled == \/ errno' = errno /\ signals' = signals
             \/ errno' = EINTR /\ signals' = signals + 1
             \/ errno' = ECONNRESET /\ signals' = signals

LEMMA SignalledProgress ==
  ASSUME PacketsInv, Signalled
  PROVE  /\ signals' \in Nat /\ (signals' = 0 => signals = 0 /\ errno' # EINTR)
         /\ Len(received) + (IF errno' = EINTR THEN 1 ELSE 0) <= LastIn(received) + signals'
<1>1. StreamInv /\ ValuesInv /\ ProgressInv
  BY DEF PacketsInv
<1>2. PICK l \in Nat, m \in Nat : l = Len(received) /\ m = LastIn(received)
  BY <1>1, LastInBounds
<1>3. signals \in Nat
  BY <1>1 DEF StreamInv
<1>4. l + (IF errno = EINTR THEN 1 ELSE 0) <= m + signals /\ (signals = 0 => errno # EINTR)
  BY <1>1, <1>2 DEF ProgressInv
<1>5. signals' \in Nat /\ (signals' = 0 => signals = 0 /\ errno' # EINTR)
  BY <1>3, <1>4 DEF Signalled, EINTR, ECONNRESET
<1>6. l + (IF errno' = EINTR THEN 1 ELSE 0) <= m + signals'
  BY <1>3, <1>4 DEF Signalled, EINTR, ECONNRESET
<1>. QED
  BY <1>2, <1>5, <1>6

\* The call fails: the thread does not read again.
LEMMA FailInv ==
  ASSUME PacketsInv, UNCHANGED <<client, wire, whole>>, Signalled, ReturnError,
         buffer' \in Seq(Token), buffer = <<>> => buffer' = <<>>,
         pkt' \in [of : Nat, size : SizeField], datap' = datap
  PROVE  PacketsInv'
<1>1. StreamInv /\ ValuesInv /\ ProgressInv /\ HistoryInv
  BY DEF PacketsInv
<1>2. /\ signals' \in Nat /\ (signals' = 0 => signals = 0 /\ errno' # EINTR)
      /\ Len(received) + (IF errno' = EINTR THEN 1 ELSE 0) <= LastIn(received) + signals'
  BY SignalledProgress
<1>3. pc' = "failed" /\ received' = received
  BY DEF ReturnError
<1>4. StreamInv'
  BY <1>1, <1>2 DEF StreamInv, client
<1>5. ValuesInv'
  BY <1>1, <1>3 DEF ValuesInv, client
<1>6. ProgressInv'
  BY <1>1, <1>2, <1>3 DEF ProgressInv, client
<1>7. HistoryInv'
  BY <1>1, <1>2, <1>3 DEF HistoryInv, client
<1>8. PlaceInv'
  BY <1>3 DEF PlaceInv
<1>. QED
  BY <1>4, <1>5, <1>6, <1>7, <1>8 DEF PacketsInv

\* The EINTR branch: the call returns zero with the packet of the call before.
LEMMA RepeatInv ==
  ASSUME PacketsInv, UNCHANGED <<client, wire, buffer, whole>>, pc = "header",
         pkt' \in [of : Nat, size : SizeField], pkt'.of = pkt.of,
         ReturnZero(pkt', datap), datap' = datap, errno' = 0,
         \/ errno = EINTR /\ signals' = signals
         \/ signals' = signals + 1
  PROVE  PacketsInv'
<1>1. StreamInv /\ ValuesInv /\ ProgressInv /\ HistoryInv /\ PlaceInv
  BY DEF PacketsInv
<1>2. PICK l \in Nat, m \in Nat, n \in Nat :
        l = Len(received) /\ m = LastIn(received) /\ n = Len(sent) /\ m <= n
  BY <1>1, LastInBounds DEF StreamInv
<1>3. /\ signals \in Nat /\ pkt.of = m /\ (signals = 0 => errno # EINTR)
      /\ l + (IF errno = EINTR THEN 1 ELSE 0) <= m + signals
  BY <1>1, <1>2 DEF StreamInv, ProgressInv
<1>4. signals' \in Nat /\ signals' # 0 /\ l + 1 <= m + signals'
  BY <1>3
<1>5. PICK r : /\ r = [of |-> pkt'.of, size |-> pkt'.size, data |-> datap]
               /\ r.of = m /\ r \in Received
  <2>0. pkt'.size \in SizeField
    OBVIOUS
  <2>1. pkt'.size \in Nat /\ datap \in Nat /\ pkt'.of = m
    BY <1>1, <1>3, <2>0, SizesAreNumbers DEF ValuesInv
  <2>2. [of |-> pkt'.of, size |-> pkt'.size, data |-> datap] \in Received
    BY <2>1, <1>2 DEF Received
  <2>. QED
    BY <2>1, <2>2
<1>6. pc' = "header" /\ received' = Append(received, r)
  BY <1>5 DEF ReturnZero
<1>7. r.of \in 0 .. Len(sent)
  BY <1>2, <1>5
<1>8. /\ received' \in Seq(Received) /\ Len(received') = l + 1
      /\ LastIn(received') = m
      /\ \A i \in 1 .. Len(received') : received'[i].of \in 0 .. Len(sent)
      /\ Steps(received', sent)
  BY <1>1, <1>2, <1>5, <1>6, <1>7, ReceivedOnce
<1>9. StreamInv'
  BY <1>1, <1>4 DEF StreamInv, client
<1>10. ValuesInv'
  <2>1. datap' \in Nat /\ sent' = sent /\ pkt' \in [of : Nat, size : SizeField]
    BY <1>1 DEF ValuesInv, client
  <2>. QED
    BY <1>8, <2>1 DEF ValuesInv
<1>11. ProgressInv'
  <2>0. (IF errno' = EINTR THEN 1 ELSE 0) = 0 /\ errno' # EINTR
    BY ONLY errno' = 0 DEF EINTR
  <2>1. (l + 1) + (IF errno' = EINTR THEN 1 ELSE 0) <= m + signals'
    BY ONLY <1>2, <1>4, <2>0
  <2>. QED
    BY <1>3, <1>4, <1>6, <1>8, <2>1 DEF ProgressInv
<1>12. HistoryInv'
  BY <1>4, <1>8 DEF HistoryInv, client
<1>13. PlaceInv'
  BY <1>1, <1>6 DEF PlaceInv, Placed, client
<1>. QED
  BY <1>9, <1>10, <1>11, <1>12, <1>13 DEF PacketsInv

LEMMA HeaderShortInv ==
  ASSUME PacketsInv, RecvHeaderShort, Guard'
  PROVE  PacketsInv'
<1>1. StreamInv /\ ValuesInv /\ ProgressInv /\ PlaceInv
  BY DEF PacketsInv
<1>2. PICK r \in Results(HeaderSize) :
        /\ Read(HeaderSize, r[1], r[2]) /\ HeaderShort(r[1])
        /\ pkt' = Overwritten(r[1])
        /\ \/ r[2] # EINTR /\ errno' = r[2] /\ ReturnError
           \/ r[2] = EINTR /\ errno' = ErrnoCleared
              /\ ReturnZero(Overwritten(r[1]), datap)
  BY DEF RecvHeaderShort
<1>3. pc = "header" /\ UNCHANGED <<client, wire, datap, whole>>
  BY DEF RecvHeaderShort
<1>4. PICK n, e : /\ n = r[1] /\ e = r[2] /\ Read(2, n, e) /\ n # 2 /\ pkt' = Overwritten(n)
                  /\ \/ e # EINTR /\ errno' = e /\ ReturnError
                     \/ e = EINTR /\ errno' = 0 /\ ReturnZero(pkt', datap)
  BY <1>2 DEF HeaderSize, HeaderShort, ErrnoCleared
<1>5. /\ buffer' \in Seq(Token) /\ signals' \in Nat
      /\ buffer = <<>> => buffer' = <<>>
      /\ \/ /\ buffer # <<>> /\ n = MinOf(2, Len(buffer)) /\ n \in 0 .. Len(buffer)
            /\ e = errno /\ signals' = signals
         \/ /\ n \in {-1, 0} /\ buffer' = buffer
            /\ \/ e = errno /\ signals' = signals
               \/ e = EINTR /\ signals' = signals + 1
               \/ e = ECONNRESET /\ signals' = signals
  BY <1>1, <1>4, ReadFacts
<1>6. n \in {-1, 0, 1} /\ (n = 1 => buffer # <<>> /\ Len(buffer) = 1)
  <2>1. PICK l \in Nat : l = Len(buffer) /\ (buffer # <<>> => l # 0)
    BY <1>1 DEF StreamInv
  <2>2. CASE n \in {-1, 0}
    BY ONLY <2>2
  <2>3. CASE buffer # <<>> /\ n = MinOf(2, l)
    BY ONLY <1>4, <2>1, <2>3 DEF MinOf
  <2>. QED
    BY <1>5, <2>1, <2>2, <2>3
<1>7. pkt' = [of |-> IF n = 1 THEN buffer[1].of ELSE pkt.of, size |-> Swap(pkt.size)]
  <2>1. ~(n >= 2) /\ n < 2 /\ (n >= 1 <=> n = 1)
    BY <1>6
  <2>. QED
    BY <1>4, <2>1 DEF Overwritten
<1>8. pkt' \in [of : Nat, size : SizeField]
  <2>1. pkt.of \in Nat /\ Swap(pkt.size) \in SizeField
    BY <1>1, SwapTwice DEF ValuesInv
  <2>2. n = 1 => buffer[1].of \in Nat
    <3>1. ASSUME n = 1 PROVE buffer[1] \in Token
      BY <1>1, <1>6, <3>1, ElementOfSeq DEF StreamInv
    <3>. QED
      BY <3>1, BoundAssumption DEF Token
  <2>. QED
    BY <1>7, <2>1, <2>2
<1>9. CASE e # EINTR
  <2>1. ReturnError /\ errno' = e
    BY <1>4, <1>9
  <2>2. Signalled
    BY <1>5, <1>9, <2>1 DEF Signalled
  <2>. QED
    BY <1>3, <1>5, <1>8, <2>1, <2>2, FailInv
<1>10. CASE e = EINTR
  <2>1. ReturnZero(pkt', datap) /\ errno' = 0
    BY <1>4, <1>10
  <2>2. signals' # 0 /\ ((errno = EINTR /\ signals' = signals) \/ signals' = signals + 1)
    BY <1>1, <1>5, <1>10 DEF ProgressInv, StreamInv, EINTR, ECONNRESET
  <2>3. whole
    BY <1>3, <2>2 DEF Guard
  <2>4. n # 1
    <3>1. ASSUME n = 1 PROVE FALSE
      <4>1. buffer # <<>> /\ Len(buffer) = 1 /\ ~reset
        BY <1>1, <1>6, <3>1 DEF StreamInv
      <4>2. PICK s : Placed(s)
        BY <1>1, <1>3, <4>1 DEF PlaceInv
      <4>3. Len(buffer) >= 2
        BY <1>1, <1>3, <2>3, <4>1, <4>2, HeaderRead
      <4>. QED
        BY <4>1, <4>3
    <3>. QED
      BY <3>1
  <2>5. buffer' = buffer
    <3>1. ASSUME n = MinOf(2, Len(buffer)), buffer # <<>> PROVE FALSE
      <4>1. PICK l \in Nat : l = Len(buffer) /\ l # 0
        BY <1>1, <3>1 DEF StreamInv
      <4>2. n = MinOf(2, l) /\ n # 2 /\ n # 1
        BY <1>4, <2>4, <3>1, <4>1
      <4>. QED
        BY ONLY <4>1, <4>2 DEF MinOf
    <3>. QED
      BY <1>5, <3>1
  <2>6. pkt'.of = pkt.of
    BY <1>7, <2>4
  <2>. QED
    BY <1>3, <1>8, <2>1, <2>2, <2>5, <2>6, RepeatInv
<1>. QED
  BY <1>9, <1>10

LEMMA HeaderInv ==
  ASSUME PacketsInv, RecvHeader
  PROVE  PacketsInv'
<1>1. StreamInv /\ ValuesInv /\ ProgressInv /\ HistoryInv /\ PlaceInv
  BY DEF PacketsInv
<1>2. PICK n, e : /\ Read(2, n, e) /\ n = 2 /\ errno' = e /\ pkt' = Overwritten(n)
                  /\ \/ pkt'.size = 0 /\ ReturnZero(pkt', datap)
                     \/ pkt'.size # 0 /\ pc' = "payload" /\ UNCHANGED received
  BY DEF RecvHeader, HeaderSize, HeaderShort
<1>3. pc = "header" /\ UNCHANGED <<client, wire, datap, whole>>
  BY DEF RecvHeader
<1>4. PICK l \in Nat : l = Len(buffer) /\ (buffer # <<>> => l # 0)
  BY <1>1 DEF StreamInv
<1>5. /\ buffer # <<>> /\ 2 = MinOf(2, l) /\ buffer' = SubSeq(buffer, 2 + 1, Len(buffer))
      /\ buffer' \in Seq(Token) /\ signals' = signals /\ errno' = errno
  <2>1. 2 \in Nat /\ ~(2 \in {-1, 0})
    OBVIOUS
  <2>. QED
    BY <1>1, <1>2, <1>4, <2>1, ReadFacts
<1>6. l >= 2 /\ 2 \in 0 .. Len(buffer)
  <2>1. l >= 2
    BY ONLY <1>4, <1>5 DEF MinOf
  <2>. QED
    BY ONLY <1>4, <2>1
<1>7. ~reset
  BY <1>1, <1>5 DEF StreamInv
<1>8. PICK s : Placed(s)
  BY <1>1, <1>3, <1>7 DEF PlaceInv
<1>9. PICK p : /\ p = pkt.of + 1 /\ p \in 1 .. Len(sent) /\ s[p] = 1
               /\ buffer[1] = Unit(p, 0) /\ buffer[2] = Unit(p, 1)
  BY <1>1, <1>3, <1>4, <1>5, <1>6, <1>8, HeaderRead
<1>10. PICK y \in SizeField : y = sent[p] /\ y \in Nat /\ p \in Nat
  <2>1. sent[p] \in Sizes
    BY <1>1, <1>9, ElementOfSeq DEF StreamInv
  <2>2. Len(sent) \in Nat
    BY <1>1 DEF StreamInv
  <2>3. p \in Nat
    BY <1>9, <2>2
  <2>. QED
    BY <2>1, <2>3, SizesAreNumbers
<1>11. pkt' = [of |-> p, size |-> y]
  <2>1. Overwritten(2) = [of |-> buffer[1].of, size |-> Swap(Swap(sent[buffer[2].of]))]
    BY <1>9 DEF Overwritten, Unit
  <2>2. buffer[1].of = p /\ buffer[2].of = p
    BY <1>9 DEF Unit
  <2>. QED
    BY <1>2, <1>10, <2>1, <2>2, SwapTwice
<1>12. PICK m \in Nat, x \in Nat :
         /\ m = Len(received) /\ x = LastIn(received) /\ p = x + 1
         /\ m + (IF errno = EINTR THEN 1 ELSE 0) <= x + signals
         /\ signals \in Nat /\ (signals = 0 => errno # EINTR /\ x = m)
  BY <1>1, <1>3, <1>9, LastInBounds DEF ProgressInv, StreamInv
<1>13. PICK t :
         /\ Layout(t, sent, Len(buffer') + Len(wire'), Flow(buffer', wire'))
         /\ \A i \in 1 .. Len(sent) + 1 : t[i] = s[i] - 2
         /\ Len(buffer') = Len(buffer) - 2
  BY <1>1, <1>3, <1>5, <1>6, <1>8, ReadLayout DEF Placed
<1>14. p \in 1 .. Len(sent) + 1 /\ p + 1 \in 1 .. Len(sent) + 1
  <2>1. Len(sent) \in Nat
    BY <1>1 DEF StreamInv
  <2>. QED
    BY ONLY <1>9, <1>10, <2>1
<1>15. t[p] = -1
  BY <1>9, <1>13, <1>14
<1>16. whole' => \E b \in 1 .. Len(sent) + 1 : t[b] = Len(buffer') + 1
  <2>1. ASSUME whole PROVE \E b \in 1 .. Len(sent) + 1 : t[b] = Len(buffer') + 1
    <3>1. PICK b \in 1 .. Len(sent) + 1 : s[b] = l + 1
      BY <1>4, <1>8, <2>1 DEF Placed
    <3>2. t[b] = (l + 1) - 2 /\ Len(buffer') = l - 2
      BY <1>4, <1>13, <3>1
    <3>3. t[b] = Len(buffer') + 1
      BY ONLY <1>4, <3>2
    <3>. QED
      BY <3>3
  <2>. QED
    BY <1>3, <2>1
<1>17. StreamInv'
  BY <1>1, <1>3, <1>5, <1>7 DEF StreamInv, client
<1>18. pkt' \in [of : Nat, size : SizeField] /\ datap' \in Nat /\ sent' = sent
  BY <1>1, <1>3, <1>10, <1>11 DEF ValuesInv, client
<1>19. CASE y = 0
  <2>1. PICK r : /\ r = [of |-> p, size |-> y, data |-> datap] /\ r \in Received
                 /\ r.of = p /\ r.size = y
    <3>1. datap \in Nat
      BY <1>1 DEF ValuesInv
    <3>2. [of |-> p, size |-> y, data |-> datap] \in Received
      BY <1>10, <3>1 DEF Received
    <3>. QED
      BY <3>2
  <2>2. pc' = "header" /\ received' = Append(received, r)
    BY <1>2, <1>11, <1>19, <2>1 DEF ReturnZero
  <2>3. r.of \in 0 .. Len(sent)
    <3>1. Len(sent) \in Nat
      BY <1>1 DEF StreamInv
    <3>. QED
      BY <1>9, <2>1, <3>1
  <2>4. /\ received' \in Seq(Received) /\ Len(received') = m + 1
        /\ LastIn(received') = p
        /\ \A i \in 1 .. Len(received') : received'[i].of \in 0 .. Len(sent)
        /\ Steps(received', sent)
        /\ signals = 0 => InOrder(received', sent)
    BY <1>1, <1>10, <1>12, <1>19, <2>1, <2>2, <2>3, ReceivedOnce
  <2>5. ValuesInv'
    BY <1>18, <2>4 DEF ValuesInv
  <2>6. ProgressInv'
    <3>1. (m + 1) + (IF errno = EINTR THEN 1 ELSE 0) <= p + signals
      BY ONLY <1>12
    <3>. QED
      BY <1>5, <1>11, <1>12, <2>2, <2>4, <3>1 DEF ProgressInv
  <2>7. HistoryInv'
    BY <1>5, <1>18, <2>4 DEF HistoryInv
  <2>8. t[p + 1] = 1
    <3>1. t[p + 1] = t[p] + 2 + sent[p]
      BY <1>9, <1>13 DEF Layout
    <3>2. t[p + 1] = -1 + 2 + 0
      BY <1>10, <1>15, <1>19, <3>1
    <3>. QED
      BY ONLY <3>2
  <2>9. Placed(t)'
    BY <1>3, <1>11, <1>13, <1>16, <1>18, <2>2, <2>8 DEF Placed
  <2>10. PlaceInv'
    BY <2>9 DEF PlaceInv
  <2>. QED
    BY <1>17, <2>5, <2>6, <2>7, <2>10 DEF PacketsInv
<1>20. CASE y # 0
  <2>1. pc' = "payload" /\ received' = received
    BY <1>2, <1>11, <1>20
  <2>2. ValuesInv'
    BY <1>1, <1>18, <2>1 DEF ValuesInv
  <2>3. ProgressInv'
    BY <1>5, <1>9, <1>10, <1>11, <1>12, <1>18, <1>20, <2>1 DEF ProgressInv
  <2>4. HistoryInv'
    BY <1>1, <1>5, <1>18, <2>1 DEF HistoryInv
  <2>5. Placed(t)'
    BY <1>3, <1>11, <1>13, <1>15, <1>16, <1>18, <2>1 DEF Placed
  <2>6. PlaceInv'
    BY <2>5 DEF PlaceInv
  <2>. QED
    BY <1>17, <2>2, <2>3, <2>4, <2>6 DEF PacketsInv
<1>. QED
  BY <1>19, <1>20

LEMMA PayloadInv ==
  ASSUME PacketsInv, RecvPayload
  PROVE  PacketsInv'
<1>1. StreamInv /\ ValuesInv /\ ProgressInv /\ HistoryInv /\ PlaceInv
  BY DEF PacketsInv
<1>2. PICK n, e : /\ Read(pkt.size, n, e) /\ errno' = e
                  /\ \/ n = pkt.size /\ datap' = PayloadOf(n) /\ ReturnZero(pkt, PayloadOf(n))
                     \/ n # pkt.size /\ ReturnError /\ UNCHANGED datap
  BY DEF RecvPayload
<1>3. pc = "payload" /\ UNCHANGED <<client, wire, pkt, whole>>
  BY DEF RecvPayload
<1>4. PICK p \in Nat, y \in Nat :
        /\ p = pkt.of /\ y = pkt.size /\ y = sent[p] /\ y # 0 /\ p \in 1 .. Len(sent)
        /\ p = LastIn(received) + 1
  <2>1. pkt.of \in Nat /\ pkt.size \in SizeField
    BY <1>1 DEF ValuesInv
  <2>. QED
    BY <1>1, <1>3, <2>1, SizesAreNumbers DEF ProgressInv
<1>5. /\ buffer' \in Seq(Token) /\ signals' \in Nat
      /\ buffer = <<>> => buffer' = <<>>
      /\ \/ /\ buffer # <<>> /\ n = MinOf(y, Len(buffer)) /\ n \in 0 .. Len(buffer)
            /\ buffer' = SubSeq(buffer, n + 1, Len(buffer))
            /\ e = errno /\ signals' = signals
         \/ /\ n \in {-1, 0} /\ buffer' = buffer
            /\ \/ e = errno /\ signals' = signals
               \/ e = EINTR /\ signals' = signals + 1
               \/ e = ECONNRESET /\ signals' = signals
  BY <1>1, <1>2, <1>4, ReadFacts
<1>6. CASE n # y
  <2>1. ReturnError /\ datap' = datap
    BY <1>2, <1>4, <1>6
  <2>2. Signalled
    BY <1>2, <1>5 DEF Signalled
  <2>3. pkt' \in [of : Nat, size : SizeField]
    BY <1>1, <1>3 DEF ValuesInv
  <2>. QED
    BY <1>3, <1>5, <2>1, <2>2, <2>3, FailInv
<1>7. CASE n = y
  <2>1. /\ buffer # <<>> /\ y \in 0 .. Len(buffer)
        /\ buffer' = SubSeq(buffer, y + 1, Len(buffer))
        /\ errno' = errno /\ signals' = signals
    <3>0. y # 0
      BY <1>4
    <3>1. n # -1 /\ n # 0
      BY ONLY <1>7, <3>0, y \in Nat
    <3>. QED
      BY <1>2, <1>5, <1>7, <3>1
  <2>2. ~reset
    BY <1>1, <2>1 DEF StreamInv
  <2>3. PICK s : Placed(s)
    BY <1>1, <1>3, <2>2 DEF PlaceInv
  <2>4. s[p] = -1 /\ Layout(s, sent, Len(buffer) + Len(wire), Flow(buffer, wire))
    BY <1>3, <1>4, <2>3 DEF Placed
  <2>5. PICK l \in Nat : l = Len(buffer) /\ y <= l
    BY <1>1, <2>1 DEF StreamInv
  <2>6. ASSUME NEW k \in 1 .. y PROVE buffer[k] = [of |-> p, part |-> "payload"]
    <3>1. k + 1 \in 0 .. y + 1 /\ -1 + (k + 1) = k /\ k \in 1 .. l /\ k + 1 >= 2
      BY ONLY <1>4, <2>5, k \in 1 .. y
    <3>2. buffer[k] = Unit(p, k + 1)
      <4>1. s[p] + (k + 1) = k /\ k \in 1 .. Len(buffer) /\ k + 1 \in 0 .. sent[p] + 1
        BY <1>4, <2>4, <2>5, <3>1
      <4>. QED
        BY <1>1, <1>4, <2>4, <4>1, UnitsInSocket
    <3>3. k + 1 # 0 /\ k + 1 # 1
      BY ONLY <3>1, k \in 1 .. y
    <3>. QED
      BY <3>2, <3>3 DEF Unit
  <2>7. PayloadOf(n) = p
    <3>1. 1 \in 1 .. y
      BY <1>4
    <3>. QED
      BY <1>7, <2>6, <3>1 DEF PayloadOf
  <2>8. PICK r : /\ r = [of |-> p, size |-> y, data |-> p] /\ r \in Received
                 /\ r.of = p /\ r.size = y /\ r.data = p
    <3>1. [of |-> p, size |-> y, data |-> p] \in Received
      BY <1>4 DEF Received
    <3>. QED
      BY <3>1
  <2>9. pc' = "header" /\ received' = Append(received, r) /\ datap' = p
    BY <1>2, <1>4, <1>7, <2>7, <2>8 DEF ReturnZero
  <2>10. PICK m \in Nat, x \in Nat :
         /\ m = Len(received) /\ x = LastIn(received) /\ p = x + 1
         /\ m + (IF errno = EINTR THEN 1 ELSE 0) <= x + signals
         /\ signals \in Nat /\ (signals = 0 => errno # EINTR /\ x = m)
    BY <1>1, <1>4, LastInBounds DEF ProgressInv, StreamInv
  <2>11. r.of \in 0 .. Len(sent)
    <3>1. Len(sent) \in Nat
      BY <1>1 DEF StreamInv
    <3>. QED
      BY <1>4, <2>8, <3>1
  <2>12. /\ received' \in Seq(Received) /\ Len(received') = m + 1
         /\ LastIn(received') = p
         /\ \A i \in 1 .. Len(received') : received'[i].of \in 0 .. Len(sent)
         /\ Steps(received', sent)
         /\ signals = 0 => InOrder(received', sent)
    BY <1>1, <1>4, <2>8, <2>9, <2>10, <2>11, ReceivedOnce
  <2>13. PICK t :
           /\ Layout(t, sent, Len(buffer') + Len(wire'), Flow(buffer', wire'))
           /\ \A i \in 1 .. Len(sent) + 1 : t[i] = s[i] - y
           /\ Len(buffer') = Len(buffer) - y
    BY <1>1, <1>3, <2>1, <2>4, ReadLayout
  <2>14. p + 1 \in 1 .. Len(sent) + 1
    <3>1. Len(sent) \in Nat
      BY <1>1 DEF StreamInv
    <3>. QED
      BY ONLY <1>4, <3>1
  <2>15. t[p + 1] = 1
    <3>1. s[p + 1] = s[p] + 2 + sent[p]
      BY <1>4, <2>4 DEF Layout
    <3>2. s[p + 1] = -1 + 2 + y
      BY <1>4, <2>4, <3>1
    <3>3. t[p + 1] = s[p + 1] - y
      BY <2>13, <2>14
    <3>. QED
      BY ONLY <3>2, <3>3, y \in Nat
  <2>16. whole' => \E b \in 1 .. Len(sent) + 1 : t[b] = Len(buffer') + 1
    <3>1. ASSUME whole PROVE \E b \in 1 .. Len(sent) + 1 : t[b] = Len(buffer') + 1
      <4>1. PICK b \in 1 .. Len(sent) + 1 : s[b] = l + 1
        BY <2>3, <2>5, <3>1 DEF Placed
      <4>2. t[b] = (l + 1) - y /\ Len(buffer') = l - y
        BY <2>5, <2>13, <4>1
      <4>3. t[b] = Len(buffer') + 1
        BY ONLY y \in Nat, l \in Nat, <4>2
      <4>. QED
        BY <4>3
    <3>. QED
      BY <1>3, <3>1
  <2>17. StreamInv'
    BY <1>1, <1>3, <1>5, <2>2 DEF StreamInv, client
  <2>18. pkt' = pkt /\ sent' = sent
    BY <1>3 DEF client
  <2>19. ValuesInv'
    BY <1>1, <2>9, <2>12, <2>18 DEF ValuesInv
  <2>20. ProgressInv'
    <3>1. (m + 1) + (IF errno = EINTR THEN 1 ELSE 0) <= p + signals
      BY ONLY <2>10
    <3>. QED
      BY <1>4, <2>1, <2>9, <2>10, <2>12, <2>18, <3>1 DEF ProgressInv
  <2>21. HistoryInv'
    BY <2>1, <2>12, <2>18 DEF HistoryInv
  <2>22. Placed(t)'
    BY <1>3, <1>4, <2>9, <2>13, <2>15, <2>16, <2>18 DEF Placed
  <2>23. PlaceInv'
    BY <2>22 DEF PlaceInv
  <2>. QED
    BY <2>17, <2>19, <2>20, <2>21, <2>23 DEF PacketsInv
<1>. QED
  BY <1>6, <1>7

-----------------------------------------------------------------------------
(* The theorems                                                            *)

\* Signals and cut packets are never undone.
LEMMA GuardStep ==
  ASSUME signals \in Nat, [Next]_vars
  PROVE  signals' \in Nat /\ (Guard' => Guard)
<1>1. signals' \in {signals, signals + 1} /\ (whole' => whole)
  <2>1. ASSUME NEW want, NEW n, NEW e, Read(want, n, e)
        PROVE  signals' \in {signals, signals + 1}
    BY <2>1 DEF Read, ReadData, ReadEof, ReadInterrupted, ReadBroken
  <2>2. CASE Recv
    <3>1. whole' = whole
      BY <2>2 DEF Recv, RecvHeaderShort, RecvHeader, RecvPayload
    <3>2. CASE RecvHeaderShort
      BY <2>1, <3>2 DEF RecvHeaderShort
    <3>3. CASE RecvHeader
      BY <2>1, <3>3 DEF RecvHeader
    <3>4. CASE RecvPayload
      BY <2>1, <3>4 DEF RecvPayload
    <3>. QED
      BY <2>2, <3>1, <3>2, <3>3, <3>4 DEF Recv
  <2>3. CASE Environment
    <3>1. CASE Deliver
      BY <3>1, Zenon DEF Deliver
    <3>2. CASE ClientSend \/ ClientClose \/ ConnectionBreaks
      BY <3>2 DEF ClientSend, ClientClose, ConnectionBreaks
    <3>3. CASE OtherCallInterrupted
      BY <3>3 DEF OtherCallInterrupted
    <3>. QED
      BY <2>3, <3>1, <3>2, <3>3 DEF Environment
  <2>4. CASE UNCHANGED vars
    BY <2>4 DEF vars
  <2>. QED
    BY <2>2, <2>3, <2>4 DEF Next
<1>. QED
  BY <1>1 DEF Guard

LEMMA RecvStep ==
  ASSUME RecvInv, [Next]_vars
  PROVE  RecvInv'
<1>1. signals' \in Nat /\ (Guard' => Guard)
  BY GuardStep DEF RecvInv
<1>2. ASSUME Guard' PROVE PacketsInv'
  <2>1. PacketsInv
    BY <1>1, <1>2 DEF RecvInv
  <2>2. CASE ClientSend
    BY <2>1, <2>2, SendInv
  <2>3. CASE ClientClose
    BY <2>1, <2>3, QuietInv DEF ClientClose
  <2>4. CASE ConnectionBreaks
    BY <2>1, <2>4, BreakInv
  <2>5. CASE Deliver
    BY <2>1, <2>5, DeliverInv
  <2>6. CASE OtherCallInterrupted
    BY <2>1, <2>6, OtherCallInv
  <2>7. CASE RecvHeaderShort
    BY <1>2, <2>1, <2>7, HeaderShortInv
  <2>8. CASE RecvHeader
    BY <2>1, <2>8, HeaderInv
  <2>9. CASE RecvPayload
    BY <2>1, <2>9, PayloadInv
  <2>10. CASE UNCHANGED vars
    BY <2>1, <2>10, QuietInv DEF vars, client
  <2>. QED
    BY <2>2, <2>3, <2>4, <2>5, <2>6, <2>7, <2>8, <2>9, <2>10
       DEF Next, Environment, Recv
<1>. QED
  BY <1>1, <1>2 DEF RecvInv

\* The place of the thread on the stream, and what signals have added, however
\* many packets of whatever sizes are sent.
THEOREM RecvInvariant == Spec => []RecvInv
<1>1. Init => RecvInv
  BY RecvInit
<1>2. RecvInv /\ [Next]_vars => RecvInv'
  BY RecvStep
<1>. QED
  BY <1>1, <1>2, PTL DEF Spec

\* Without signals proto_recv_packet returns the packets in the order in which
\* they were sent, each one once, unchanged, however the network cuts them.
THEOREM PacketsInOrder == Spec => []ReceivedInOrder
<1>1. RecvInv => ReceivedInOrder
  <2>1. ASSUME RecvInv, signals = 0 PROVE InOrder(received, sent)
    BY <2>1 DEF RecvInv, Guard, PacketsInv, HistoryInv
  <2>. QED
    BY <2>1 DEF ReceivedInOrder, InOrder
<1>. QED
  BY <1>1, RecvInvariant, PTL

\* As long as packets arrive whole, no signal makes the thread skip a packet or
\* take one for another.
THEOREM PacketsNotSkipped == Spec => []NothingSkipped
<1>1. RecvInv => NothingSkipped
  <2>1. ASSUME RecvInv, whole PROVE Steps(received, sent)
    BY <2>1 DEF RecvInv, Guard, PacketsInv, HistoryInv
  <2>. QED
    BY <2>1 DEF NothingSkipped, Steps
<1>. QED
  BY <1>1, RecvInvariant, PTL

\* ... and each signal repeats one request at most.
THEOREM RepetitionsCounted == Spec => []OneRepetitionPerSignal
<1>1. RecvInv => OneRepetitionPerSignal
  <2>1. ASSUME RecvInv, whole PROVE Len(received) <= Len(sent) + signals
    <3>1. StreamInv /\ ValuesInv /\ ProgressInv
      BY <2>1 DEF RecvInv, Guard, PacketsInv
    <3>2. PICK l \in Nat, m \in Nat, n \in Nat :
            l = Len(received) /\ m = LastIn(received) /\ n = Len(sent) /\ m <= n
      BY <3>1, LastInBounds DEF StreamInv
    <3>3. signals \in Nat /\ l + (IF errno = EINTR THEN 1 ELSE 0) <= m + signals
      BY <3>1, <3>2 DEF StreamInv, ProgressInv
    <3>4. l <= n + signals
      BY ONLY <3>2, <3>3
    <3>. QED
      BY <3>2, <3>4
  <2>. QED
    BY <2>1 DEF OneRepetitionPerSignal
<1>. QED
  BY <1>1, RecvInvariant, PTL
=============================================================================
