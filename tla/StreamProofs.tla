----------------------------- MODULE StreamProofs -----------------------------
(***************************************************************************)
(* Proofs about a connection of package nio.                               *)
(***************************************************************************)
EXTENDS ReadIo, SequenceTheorems, WellFoundedInduction, TLAPS

-------------------------------------------------------------------------------
(* Numbers *)

Below == {ss \in Nat \X Nat : ss[1] < ss[2]}

\* A set of natural numbers that is not empty has a least element.
LEMMA Least ==
    ASSUME NEW S \in SUBSET Nat, S # {}
    PROVE  \E x \in S : \A y \in S : x <= y
<1>1. IsWellFoundedOn(Below, Nat)
  BY Zenon, NatLessThanWellFounded DEF OpToRel, Below
<1>2. \A x, y \in Nat : <<x, y>> \in Below <=> x < y
  BY Zenon DEF Below
<1>3. \E x \in S : \A y \in S : ~(<<y, x>> \in Below)
  BY <1>1, WFMin, Zenon
<1>4. PICK x \in S : \A y \in S : ~(<<y, x>> \in Below)
  BY <1>3, Zenon
<1>5. \A y \in S : ~(y < x) /\ x \in Nat /\ y \in Nat
  BY <1>2, <1>4, Zenon
<1>6. \A y \in S : x <= y
  BY <1>5
<1> QED
  BY <1>6, Zenon

\* What holds from 0 on, step by step, holds up to a bound.
LEMMA StepByStep ==
    ASSUME NEW n \in Nat, NEW S, 0 \in S, \A i \in 1 .. n : i - 1 \in S => i \in S
    PROVE  \A i \in 0 .. n : i \in S
<1> SUFFICES ASSUME {i \in 0 .. n : i \notin S} # {} PROVE FALSE
  BY Zenon
<1> DEFINE B == {i \in 0 .. n : i \notin S}
<1>1. B \in SUBSET Nat /\ B # {}
  OBVIOUS
<1>2. PICK x \in B : \A y \in B : x <= y
  BY <1>1, Least, Zenon
<1>3. x \in 0 .. n /\ x \notin S
  BY <1>2, Zenon
<1>4. x # 0
  BY <1>3, Zenon
<1>5. x \in 1 .. n /\ x - 1 \in 0 .. n /\ ~(x <= x - 1)
  BY <1>3, <1>4
<1>6. x - 1 \in S
  BY <1>2, <1>5, Zenon
<1> QED
  BY <1>3, <1>5, <1>6, Zenon

\* A byte shifted out and the rest make up the number.
LEMMA Shifted ==
    ASSUME NEW n \in Nat
    PROVE  /\ Shift(n) \in Nat /\ n % ByteBase \in Byte
           /\ n = Shift(n) * ByteBase + (n % ByteBase)
<1>1. ByteBase \in Nat /\ ByteBase >= 2
  BY ReadAssumption, Zenon
<1>2. n \div ByteBase \in Nat
  BY <1>1
<1>3. n % ByteBase \in 0 .. ByteBase - 1
  BY <1>1
<1>4. n = (n \div ByteBase) * ByteBase + (n % ByteBase)
  BY <1>1
<1> QED
  BY <1>2, <1>3, <1>4, Zenon DEF Shift, Byte

\* A shifted number is below b if the number is below b times the base.
LEMMA ShiftBelow ==
    ASSUME NEW n \in Nat, NEW b \in Nat, n < b * ByteBase
    PROVE  Shift(n) < b
<1>1. ByteBase \in Nat /\ ByteBase >= 2
  BY ReadAssumption, Zenon
<1>2. Shift(n) \in Nat /\ Shift(n) * ByteBase <= n
  BY <1>1 DEF Shift
<1>3. ASSUME b <= Shift(n) PROVE FALSE
  <2>1. b * ByteBase <= Shift(n) * ByteBase
    BY <1>1, <1>2, <1>3
  <2>2. b * ByteBase \in Nat /\ Shift(n) * ByteBase \in Nat
    BY <1>1, <1>2
  <2> QED
    BY <1>2, <2>1, <2>2
<1> QED
  BY <1>2, <1>3

\* The four bytes of a uint32 are bytes, and reading them gives the number.
LEMMA BigEndianValue ==
    ASSUME NEW n \in Nat
    PROVE  /\ BigEndian(n) \in Seq(Byte) /\ Len(BigEndian(n)) = 4
           /\ n < ByteBase * ByteBase * ByteBase * ByteBase => Value(BigEndian(n)) = n
<1> DEFINE p == Shift(n)
           q == Shift(p)
           r == Shift(q)
<1>1. ByteBase \in Nat /\ ByteBase >= 2
  BY ReadAssumption, Zenon
<1>2. p \in Nat /\ n % ByteBase \in Byte /\ n = p * ByteBase + (n % ByteBase)
  BY Shifted, Zenon
<1>3. q \in Nat /\ p % ByteBase \in Byte /\ p = q * ByteBase + (p % ByteBase)
  BY <1>2, Shifted, Zenon
<1>4. r \in Nat /\ q % ByteBase \in Byte /\ q = r * ByteBase + (q % ByteBase)
  BY <1>3, Shifted, Zenon
<1>5. r % ByteBase \in Byte
  BY <1>4, Shifted, Zenon
<1>6. BigEndian(n) = <<r % ByteBase, q % ByteBase, p % ByteBase, n % ByteBase>>
  BY Zenon DEF BigEndian
<1> HIDE DEF p, q, r
<1>7. BigEndian(n) \in Seq(Byte) /\ Len(BigEndian(n)) = 4
  BY <1>2, <1>3, <1>4, <1>5, <1>6
<1>8. ASSUME n < ByteBase * ByteBase * ByteBase * ByteBase PROVE Value(BigEndian(n)) = n
  <2> DEFINE b2 == ByteBase * ByteBase
             b3 == b2 * ByteBase
  <2>1. b2 \in Nat /\ b3 \in Nat
    BY <1>1
  <2>2. p < b3
    BY <1>8, <2>1, ShiftBelow, Zenon DEF p
  <2>3. q < b2
    BY <1>2, <2>1, <2>2, ShiftBelow, Zenon DEF q
  <2>4. r < ByteBase
    BY <1>1, <1>3, <2>3, ShiftBelow, Zenon DEF r
  <2>5. r % ByteBase = r
    BY <1>1, <1>4, <2>4
  <2>6. /\ BigEndian(n)[1] = r /\ BigEndian(n)[2] = q % ByteBase
        /\ BigEndian(n)[3] = p % ByteBase /\ BigEndian(n)[4] = n % ByteBase
    BY <1>6, <2>5
  <2>7. Value(BigEndian(n)) = ((r * ByteBase + (q % ByteBase)) * ByteBase + (p % ByteBase)) * ByteBase + (n % ByteBase)
    BY <2>6, Zenon DEF Value
  <2> QED
    BY <1>2, <1>3, <1>4, <2>7, Zenon
<1> QED
  BY <1>7, <1>8, Zenon

-------------------------------------------------------------------------------
(* Sequences *)

\* A sequence cut in two.
LEMMA SplitAt ==
    ASSUME NEW S, NEW s \in Seq(S), NEW n \in 0 .. Len(s)
    PROVE  /\ SubSeq(s, 1, n) \in Seq(S) /\ Len(SubSeq(s, 1, n)) = n
           /\ From(s, n + 1) \in Seq(S) /\ Len(From(s, n + 1)) = Len(s) - n
           /\ SubSeq(s, 1, n) \o From(s, n + 1) = s
           /\ \A i \in 1 .. n : SubSeq(s, 1, n)[i] = s[i]
           /\ \A i \in 1 .. Len(s) - n : From(s, n + 1)[i] = s[n + i]
<1>1. /\ Len(s) \in Nat /\ n \in Nat /\ 1 \in Int /\ n \in Int /\ n + 1 \in Int /\ Len(s) \in Int
      /\ 1 \in 1 .. Len(s) + 1 /\ n \in 1 - 1 .. Len(s) /\ Len(s) \in n .. Len(s)
  BY LenProperties
<1>2. (\A i \in 1 .. n : s[i] \in S) /\ \A i \in n + 1 .. Len(s) : s[i] \in S
  BY <1>1, LenProperties
<1>3. /\ SubSeq(s, 1, n) \in Seq(S) /\ Len(SubSeq(s, 1, n)) = (IF 1 <= n THEN n - 1 + 1 ELSE 0)
      /\ \A i \in 1 .. n - 1 + 1 : SubSeq(s, 1, n)[i] = s[1 + i - 1]
  BY <1>1, <1>2, SubSeqProperties
<1>4. /\ From(s, n + 1) \in Seq(S)
      /\ Len(From(s, n + 1)) = (IF n + 1 <= Len(s) THEN Len(s) - (n + 1) + 1 ELSE 0)
      /\ \A i \in 1 .. Len(s) - (n + 1) + 1 : From(s, n + 1)[i] = s[n + 1 + i - 1]
  BY <1>1, <1>2, SubSeqProperties DEF From
<1>5. SubSeq(s, 1, n) \o From(s, n + 1) = s
  BY <1>1, ConcatAdjacentSubSeq, SubSeqFull, Zenon DEF From
<1>6. Len(SubSeq(s, 1, n)) = n /\ \A i \in 1 .. n : i \in 1 .. n - 1 + 1 /\ 1 + i - 1 = i
  BY <1>1, <1>3
<1>7. /\ Len(From(s, n + 1)) = Len(s) - n
      /\ \A i \in 1 .. Len(s) - n : i \in 1 .. Len(s) - (n + 1) + 1 /\ n + 1 + i - 1 = n + i
  BY <1>1, <1>4
<1>8. \A i \in 1 .. n : SubSeq(s, 1, n)[i] = s[i]
  BY <1>3, <1>6, Zenon
<1>9. \A i \in 1 .. Len(s) - n : From(s, n + 1)[i] = s[n + i]
  BY <1>4, <1>7, Zenon
<1> QED
  BY <1>3, <1>4, <1>5, <1>6, <1>7, <1>8, <1>9, Zenon

\* The elements of a concatenation.
LEMMA FrontAt ==
    ASSUME NEW S, NEW a \in Seq(S), NEW b \in Seq(S), NEW i \in 1 .. Len(a)
    PROVE  (a \o b)[i] = a[i]
<1>1. i \in 1 .. Len(a) + Len(b) /\ i <= Len(a)
  BY LenProperties
<1> QED
  BY <1>1, ConcatProperties, Zenon

\* What is in the second of two sequences.
LEMMA BackAt ==
    ASSUME NEW S, NEW a \in Seq(S), NEW b \in Seq(S), NEW i \in 1 .. Len(b)
    PROVE  (a \o b)[Len(a) + i] = b[i]
<1>1. Len(a) + i \in 1 .. Len(a) + Len(b) /\ ~(Len(a) + i <= Len(a)) /\ (Len(a) + i) - Len(a) = i
  BY LenProperties
<1>2. \A k \in 1 .. Len(a) + Len(b) : (a \o b)[k] = IF k <= Len(a) THEN a[k] ELSE b[k - Len(a)]
  BY ConcatProperties, Zenon
<1> QED
  BY <1>1, <1>2, Zenon

\* Two ways to write a sequence, cut at the same place.
LEMMA SameCut ==
    ASSUME NEW S, NEW a \in Seq(S), NEW b \in Seq(S), NEW x \in Seq(S), NEW y \in Seq(S),
           a \o x = b \o y, Len(a) = Len(b)
    PROVE  a = b /\ x = y
<1>1. ASSUME NEW i \in 1 .. Len(a) PROVE a[i] = b[i]
  <2>1. (a \o x)[i] = a[i] /\ (b \o y)[i] = b[i]
    BY FrontAt, Zenon
  <2> QED
    BY <2>1, Zenon
<1>2. a = b
  BY <1>1, SeqEqual, Zenon
<1> QED
  BY <1>2, ConcatSimplifications, Zenon

\* The parts of a sequence cut in two.
Halves(S, s, n) ==
    /\ SubSeq(s, 1, n) \in Seq(S) /\ Len(SubSeq(s, 1, n)) = n
    /\ From(s, n + 1) \in Seq(S) /\ Len(From(s, n + 1)) = Len(s) - n
    /\ SubSeq(s, 1, n) \o From(s, n + 1) = s

\* They are sequences that make up the whole.
LEMMA HalvesOf ==
    ASSUME NEW S, NEW s \in Seq(S), NEW n \in 0 .. Len(s)
    PROVE  Halves(S, s, n)
  BY SplitAt, Zenon DEF Halves

\* A sequence with one more element.
Grown(S, s, x) ==
    /\ Append(s, x) \in Seq(S) /\ Len(Append(s, x)) = Len(s) + 1
    /\ \A i \in 1 .. Len(s) : Append(s, x)[i] = s[i]
    /\ Append(s, x)[Len(s) + 1] = x

\* It has the element at its end.
LEMMA GrownBy ==
    ASSUME NEW S, NEW s \in Seq(S), NEW x \in S
    PROVE  Grown(S, s, x)
  BY AppendProperties DEF Grown

\* The n elements of a sequence behind the first k.
Middle(S, s, k, n) ==
    /\ SubSeq(s, k + 1, k + n) \in Seq(S) /\ Len(SubSeq(s, k + 1, k + n)) = n
    /\ \A i \in 1 .. n : SubSeq(s, k + 1, k + n)[i] = s[k + i]

\* They are a sequence.
LEMMA MiddleOf ==
    ASSUME NEW S, NEW s \in Seq(S), NEW k \in 0 .. Len(s), NEW n \in 0 .. Len(s) - k
    PROVE  Middle(S, s, k, n)
<1>1. Len(s) \in Nat /\ \A i \in k + 1 .. k + n : s[i] \in S
  BY LenProperties, ElementOfSeq
<1> QED
  BY <1>1, SubSeqProperties DEF Middle

\* Three sequences can be joined in any order.
Regroups(a, b, c) == (a \o b) \o c = a \o (b \o c)

\* They always can.
LEMMA SeqRegroups ==
    ASSUME NEW S, NEW a \in Seq(S), NEW b \in Seq(S), NEW c \in Seq(S)
    PROVE  Regroups(a, b, c)
  BY ConcatAssociative DEF Regroups

-------------------------------------------------------------------------------
(* Messages as bytes *)

Bytes == Seq(Byte)

\* The bytes of a message, and the length and flag in front of its body.
Coded(m) == Encode(m[1], m[2])
Header(m) == BigEndian(Len(m[2]) + 1) \o <<m[1]>>

\* Concatenation of bytes.
LEMMA BytesJoin ==
    ASSUME NEW a \in Bytes, NEW b \in Bytes
    PROVE  a \o b \in Bytes /\ Len(a \o b) = Len(a) + Len(b) /\ Len(a) \in Nat /\ Len(b) \in Nat
  BY ConcatProperties, LenProperties, Zenon DEF Bytes

\* Bytes in front of bytes.
LEMMA BytesAt ==
    ASSUME NEW a \in Bytes, NEW b \in Bytes
    PROVE  /\ \A i \in 1 .. Len(a) : (a \o b)[i] = a[i]
           /\ \A i \in 1 .. Len(b) : (a \o b)[Len(a) + i] = b[i]
<1>1. a \in Seq(Byte) /\ b \in Seq(Byte)
  BY Zenon DEF Bytes
<1>2. \A i \in 1 .. Len(a) : (a \o b)[i] = a[i]
  BY <1>1, FrontAt, Zenon
<1>3. \A i \in 1 .. Len(b) : (a \o b)[Len(a) + i] = b[i]
  BY <1>1, BackAt, Zenon
<1> QED
  BY <1>2, <1>3, Zenon

\* Three pieces, one behind the other.
LEMMA BytesAssoc ==
    ASSUME NEW a \in Bytes, NEW b \in Bytes, NEW c \in Bytes
    PROVE  (a \o b) \o c = a \o (b \o c)
  BY ConcatAssociative DEF Bytes

\* No bytes, in front or behind.
LEMMA BytesEmpty ==
    ASSUME NEW a \in Bytes
    PROVE  <<>> \in Bytes /\ a \o <<>> = a /\ <<>> \o a = a /\ Len(a) \in Nat
  BY ConcatEmptySeq, EmptySeq, LenProperties, Zenon DEF Bytes

\* The same bytes cut at the same place.
LEMMA BytesCut ==
    ASSUME NEW a \in Bytes, NEW b \in Bytes, NEW x \in Bytes, NEW y \in Bytes,
           a \o x = b \o y, Len(a) = Len(b)
    PROVE  a = b /\ x = y
  BY SameCut, Zenon DEF Bytes

\* What is behind the same bytes.
LEMMA BytesCancel ==
    ASSUME NEW a \in Bytes, NEW x \in Bytes, NEW y \in Bytes, a \o x = a \o y
    PROVE  x = y
  BY BytesCut, Zenon

\* A message of the model: a flag, and a body whose length fits in a uint32.
LEMMA MessageType ==
    ASSUME NEW m \in Message
    PROVE  /\ m[1] \in Byte /\ m[2] \in Bytes /\ m = <<m[1], m[2]>> /\ Len(m[2]) \in Nat
           /\ Len(m[2]) + 1 \in Nat /\ Len(m[2]) + 1 # 0
           /\ Len(m[2]) + 1 < ByteBase * ByteBase * ByteBase * ByteBase
<1>1. m \in Byte \X Seq(Byte) /\ Len(m[2]) + 1 < ByteBase * ByteBase * ByteBase * ByteBase
  BY ReadAssumption, Zenon
<1>2. m[1] \in Byte /\ m[2] \in Bytes /\ m = <<m[1], m[2]>>
  BY <1>1 DEF Bytes
<1>3. Len(m[2]) \in Nat
  BY <1>2, BytesEmpty, Zenon
<1>4. Len(m[2]) + 1 \in Nat /\ Len(m[2]) + 1 # 0
  BY <1>3
<1> QED
  BY <1>1, <1>2, <1>3, <1>4, Zenon

\* The header of a message is five bytes; whatever follows, Decode reads the
\* length and the flag out of it.
LEMMA HeaderOf ==
    ASSUME NEW m \in Message
    PROVE  /\ Header(m) \in Bytes /\ Len(Header(m)) = 5
           /\ Coded(m) = Header(m) \o m[2] /\ Coded(m) \in Bytes /\ Len(Coded(m)) = 5 + Len(m[2])
           /\ \A x \in Bytes : Value(Header(m) \o x) = Len(m[2]) + 1 /\ (Header(m) \o x)[5] = m[1]
<1> DEFINE n == Len(m[2]) + 1
           b == BigEndian(n)
<1>1. /\ m[1] \in Byte /\ m[2] \in Bytes /\ Len(m[2]) \in Nat
      /\ n \in Nat /\ n < ByteBase * ByteBase * ByteBase * ByteBase
  BY MessageType, Zenon
<1>2. b \in Bytes /\ Len(b) = 4 /\ Value(b) = n
  <2> HIDE DEF n
  <2> QED
    BY <1>1, BigEndianValue, Zenon DEF Bytes
<1>3. <<m[1]>> \in Bytes /\ Len(<<m[1]>>) = 1 /\ <<m[1]>>[1] = m[1]
  BY <1>1 DEF Bytes
<1>4. Header(m) = b \o <<m[1]>>
  BY Zenon DEF Header
<1>5. Coded(m) = Header(m) \o m[2]
  BY Zenon DEF Coded, Encode, Header
<1> HIDE DEF n, b
<1>6. Header(m) \in Bytes /\ Len(Header(m)) = 4 + 1
  BY <1>2, <1>3, <1>4, BytesJoin, Zenon
<1>7. Len(Header(m)) = 5
  BY <1>6
<1>8. Coded(m) \in Bytes /\ Len(Coded(m)) = 5 + Len(m[2])
  BY <1>1, <1>5, <1>6, <1>7, BytesJoin, Zenon
<1>9. ASSUME NEW x \in Bytes PROVE Value(Header(m) \o x) = n /\ (Header(m) \o x)[5] = m[1]
  <2> DEFINE h == Header(m) \o x
  <2>1. \A i \in 1 .. 5 : h[i] = Header(m)[i]
    <3>1. \A i \in 1 .. Len(Header(m)) : (Header(m) \o x)[i] = Header(m)[i]
      BY <1>6, BytesAt, Zenon
    <3> QED
      BY <1>7, <3>1, Zenon
  <2>2. \A i \in 1 .. 4 : Header(m)[i] = b[i]
    <3>1. \A i \in 1 .. Len(b) : (b \o <<m[1]>>)[i] = b[i]
      BY <1>2, <1>3, BytesAt, Zenon
    <3> QED
      BY <1>2, <1>4, <3>1, Zenon
  <2>3. Header(m)[4 + 1] = <<m[1]>>[1]
    <3>1. 1 \in 1 .. Len(<<m[1]>>)
      BY <1>3
    <3>2. (b \o <<m[1]>>)[Len(b) + 1] = <<m[1]>>[1]
      BY <1>2, <1>3, <3>1, BytesAt, Zenon
    <3> QED
      BY <1>2, <1>4, <3>2, Zenon
  <2> HIDE DEF h
  <2>4. \A i \in 1 .. 4 : h[i] = b[i]
    BY <2>1, <2>2
  <2>5. h[5] = m[1]
    BY <1>3, <2>1, <2>3
  <2>6. h[1] = b[1] /\ h[2] = b[2] /\ h[3] = b[3] /\ h[4] = b[4]
    BY <2>4
  <2>7. Value(h) = Value(b)
    BY <2>6, Zenon DEF Value
  <2> QED
    BY <1>2, <2>5, <2>7, Zenon DEF h
<1> QED
  BY <1>5, <1>6, <1>7, <1>8, <1>9, Zenon DEF n

-------------------------------------------------------------------------------
(* The bytes of a sequence of messages *)

Joins(msgs, w, n) == [k \in 0 .. n |-> IF k = 0 THEN <<>> ELSE w[k - 1] \o Encode(msgs[k][1], msgs[k][2])]

\* Upto(msgs)[k]: the bytes of the first k messages.
Upto(msgs) == CHOOSE w : w = Joins(msgs, w, Len(msgs))

\* The function by which Stream is defined exists.
LEMMA UptoExists ==
    ASSUME NEW msgs, NEW n \in Nat
    PROVE  \E w : w = Joins(msgs, w, n)
<1> DEFINE S == {m \in 0 .. n : \E w : w = Joins(msgs, w, m)}
<1>1. 0 \in S
  <2> DEFINE w == [k \in 0 .. 0 |-> <<>>]
  <2>1. \A k \in 0 .. 0 : k = 0
    OBVIOUS
  <2>2. w = Joins(msgs, w, 0)
    BY <2>1, Zenon DEF Joins
  <2> QED
    BY <2>2
<1>2. ASSUME NEW m \in 1 .. n, m - 1 \in S PROVE m \in S
  <2>1. PICK w : w = Joins(msgs, w, m - 1)
    BY <1>2, Zenon
  <2> DEFINE last == w[m - 1] \o Encode(msgs[m][1], msgs[m][2])
             x == [k \in 0 .. m |-> IF k < m THEN w[k] ELSE last]
             new(k) == IF k = 0 THEN <<>> ELSE x[k - 1] \o Encode(msgs[k][1], msgs[k][2])
  <2>2. ASSUME NEW k \in 0 .. m PROVE x[k] = new(k)
    <3>1. CASE k < m
      <4>1. k \in 0 .. m - 1 /\ (k # 0 => k - 1 \in 0 .. m /\ k - 1 < m)
        BY <3>1
      <4>2. x[k] = w[k] /\ (k # 0 => x[k - 1] = w[k - 1])
        BY <3>1, <4>1, Zenon
      <4>3. w[k] = IF k = 0 THEN <<>> ELSE w[k - 1] \o Encode(msgs[k][1], msgs[k][2])
        BY <2>1, <4>1, Zenon DEF Joins
      <4> HIDE DEF x
      <4> QED
        BY <4>2, <4>3, Zenon
    <3>2. CASE k = m
      <4>1. m # 0 /\ m - 1 \in 0 .. m /\ m - 1 < m /\ ~(m < m)
        OBVIOUS
      <4>2. x[m] = last /\ x[m - 1] = w[m - 1]
        BY <3>2, <4>1, Zenon
      <4> HIDE DEF x
      <4> QED
        BY <3>2, <4>1, <4>2, Zenon
    <3> QED
      BY <3>1, <3>2
  <2>3. x = [k \in 0 .. m |-> x[k]]
    BY Zenon
  <2> HIDE DEF x
  <2>4. x = Joins(msgs, x, m)
    BY <2>2, <2>3, Zenon DEF Joins
  <2>5. m \in 0 .. n
    OBVIOUS
  <2> QED
    BY <2>4, <2>5, Zenon
<1>3. n \in S
  <2>1. n \in 0 .. n
    OBVIOUS
  <2> HIDE DEF S
  <2> QED
    BY <1>1, <1>2, <2>1, StepByStep, Zenon
<1> QED
  BY <1>3, Zenon

\* The bytes of the first messages, one message after the other.
LEMMA UptoIs ==
    ASSUME NEW msgs \in Seq(Message)
    PROVE  /\ Stream(msgs) = Upto(msgs)[Len(msgs)] /\ Upto(msgs)[0] = <<>>
           /\ \A k \in 1 .. Len(msgs) : Upto(msgs)[k] = Upto(msgs)[k - 1] \o Coded(msgs[k])
<1>1. Len(msgs) \in Nat
  BY LenProperties, Zenon
<1>2. Upto(msgs) = Joins(msgs, Upto(msgs), Len(msgs))
  BY <1>1, UptoExists, Zenon DEF Upto
<1>3. Stream(msgs) = Upto(msgs)[Len(msgs)]
  BY Zenon DEF Stream, Upto, Joins
<1>4. 0 \in 0 .. Len(msgs) /\ \A k \in 1 .. Len(msgs) : k \in 0 .. Len(msgs) /\ k # 0
  BY <1>1
<1>5. \A k \in 0 .. Len(msgs) : Upto(msgs)[k] = IF k = 0 THEN <<>> ELSE Upto(msgs)[k - 1] \o Encode(msgs[k][1], msgs[k][2])
  BY <1>2, Zenon DEF Joins
<1> QED
  BY <1>3, <1>4, <1>5, Zenon DEF Coded

\* Messages are made of bytes.
LEMMA UptoBytes ==
    ASSUME NEW msgs \in Seq(Message)
    PROVE  \A k \in 0 .. Len(msgs) : Upto(msgs)[k] \in Bytes
<1> DEFINE S == {k \in Nat : Upto(msgs)[k] \in Bytes}
<1>1. Len(msgs) \in Nat /\ 0 \in Nat
  BY LenProperties, Zenon
<1>2. 0 \in S
  BY <1>1, UptoIs, EmptySeq, Zenon DEF Bytes
<1>3. ASSUME NEW k \in 1 .. Len(msgs), k - 1 \in S PROVE k \in S
  <2>1. k \in Nat /\ msgs[k] \in Message
    BY ElementOfSeq
  <2>2. Coded(msgs[k]) \in Bytes /\ Upto(msgs)[k - 1] \in Bytes
    BY <1>3, <2>1, HeaderOf, Zenon
  <2>3. Upto(msgs)[k] = Upto(msgs)[k - 1] \o Coded(msgs[k])
    BY UptoIs, Zenon
  <2> QED
    BY <2>1, <2>2, <2>3, BytesJoin, Zenon
<1> HIDE DEF S
<1>4. \A k \in 0 .. Len(msgs) : k \in S
  BY <1>1, <1>2, <1>3, StepByStep, Zenon
<1> QED
  BY <1>4, Zenon DEF S

\* The bytes of the first k messages depend on these only.
LEMMA UptoSame ==
    ASSUME NEW a \in Seq(Message), NEW b \in Seq(Message), NEW n \in Nat, n <= Len(a), n <= Len(b),
           \A i \in 1 .. n : a[i] = b[i]
    PROVE  \A k \in 0 .. n : Upto(a)[k] = Upto(b)[k]
<1> DEFINE S == {k \in Nat : Upto(a)[k] = Upto(b)[k]}
<1>1. 0 \in S
  BY UptoIs, Zenon
<1>2. ASSUME NEW k \in 1 .. n, k - 1 \in S PROVE k \in S
  <2>1. k \in Nat /\ k \in 1 .. Len(a) /\ k \in 1 .. Len(b)
    BY LenProperties
  <2>2. Upto(a)[k] = Upto(a)[k - 1] \o Coded(a[k]) /\ Upto(b)[k] = Upto(b)[k - 1] \o Coded(b[k])
    BY <2>1, UptoIs, Zenon
  <2> QED
    BY <1>2, <2>1, <2>2, Zenon
<1> HIDE DEF S
<1>3. \A k \in 0 .. n : k \in S
  BY <1>1, <1>2, StepByStep, Zenon
<1> QED
  BY <1>3, Zenon DEF S

\* The bytes of the first j messages come first among those of the first k.
LEMMA UptoRest ==
    ASSUME NEW msgs \in Seq(Message), NEW j \in 0 .. Len(msgs)
    PROVE  \A k \in j .. Len(msgs) : \E c \in Bytes : Upto(msgs)[k] = Upto(msgs)[j] \o c
<1> DEFINE u == Upto(msgs)
           S == {k \in 0 .. Len(msgs) : j <= k => \E c \in Bytes : u[k] = u[j] \o c}
<1>1. Len(msgs) \in Nat /\ j \in Nat
  BY LenProperties
<1>2. u[j] \in Bytes /\ u[j] = u[j] \o <<>> /\ <<>> \in Bytes
  BY UptoBytes, BytesEmpty, Zenon
<1>3. ASSUME NEW k \in 0 .. Len(msgs), k = j PROVE k \in S
  BY <1>2, <1>3, Zenon
<1>4. 0 \in S
  <2>1. 0 \in 0 .. Len(msgs) /\ (j <= 0 => 0 = j)
    BY <1>1
  <2> HIDE DEF u
  <2> QED
    BY <1>3, <2>1, Zenon
<1>5. ASSUME NEW k \in 1 .. Len(msgs), k - 1 \in S PROVE k \in S
  <2>1. k \in 0 .. Len(msgs) /\ (j <= k => k = j \/ j <= k - 1)
    BY <1>1
  <2>2. CASE k = j
    BY <1>3, <2>1, <2>2, Zenon
  <2>3. CASE ~(j <= k)
    BY <2>1, <2>3, Zenon
  <2>4. CASE j <= k - 1
    <3>1. PICK c \in Bytes : u[k - 1] = u[j] \o c
      BY <1>5, <2>4, Zenon
    <3>2. msgs[k] \in Message
      BY ElementOfSeq, Zenon
    <3>3. Coded(msgs[k]) \in Bytes
      BY <3>2, HeaderOf, Zenon
    <3>4. u[k] = (u[j] \o c) \o Coded(msgs[k])
      BY <3>1, UptoIs, Zenon
    <3>5. c \o Coded(msgs[k]) \in Bytes
      BY <3>3, BytesJoin, Zenon
    <3> HIDE DEF u
    <3>6. (u[j] \o c) \o Coded(msgs[k]) = u[j] \o (c \o Coded(msgs[k]))
      BY <1>2, <3>3, BytesAssoc, Zenon
    <3> QED
      BY <2>1, <3>4, <3>5, <3>6, Zenon
  <2> QED
    BY <2>1, <2>2, <2>3, <2>4, Zenon
<1>6. \A k \in j .. Len(msgs) : k \in 0 .. Len(msgs) /\ j <= k
  BY <1>1
<1> HIDE DEF S
<1>7. \A k \in 0 .. Len(msgs) : k \in S
  BY <1>1, <1>4, <1>5, StepByStep, Zenon
<1> QED
  BY <1>6, <1>7, Zenon DEF S

\* One more message adds its bytes at the end.
LEMMA StreamAppend ==
    ASSUME NEW msgs \in Seq(Message), NEW m \in Message
    PROVE  Stream(Append(msgs, m)) = Stream(msgs) \o Coded(m) /\ Stream(msgs) \in Bytes
<1> DEFINE a == Append(msgs, m)
           n == Len(msgs)
<1>1. a \in Seq(Message) /\ Len(a) = n + 1 /\ (\A i \in 1 .. n : a[i] = msgs[i]) /\ a[n + 1] = m
  BY AppendProperties
<1>2. n \in Nat /\ n <= n /\ n <= n + 1 /\ n + 1 \in 1 .. n + 1 /\ (n + 1) - 1 = n /\ n \in 0 .. n
  BY LenProperties
<1> HIDE DEF a
<1>3. Upto(a)[n] = Upto(msgs)[n]
  BY <1>1, <1>2, UptoSame, Zenon
<1>4. Upto(a)[n + 1] = Upto(a)[n] \o Coded(m)
  BY <1>1, <1>2, UptoIs, Zenon
<1>5. Stream(a) = Upto(a)[n + 1] /\ Stream(msgs) = Upto(msgs)[n]
  BY <1>1, UptoIs, Zenon
<1>6. Upto(msgs)[n] \in Bytes
  BY <1>2, UptoBytes, Zenon
<1> QED
  BY <1>3, <1>4, <1>5, <1>6, Zenon DEF a

-------------------------------------------------------------------------------
(* Decode *)

Msg == [length : Nat, flag : Byte, data : {<<>>}]

\* The bytes that Decode has put into lastMsg.
Taken(msg) == IF msg.length = 0 THEN <<>> ELSE BigEndian(msg.length) \o <<msg.flag>>

\* What Decode holds is made of bytes.
LEMMA TakenBytes ==
    ASSUME NEW msg \in Msg
    PROVE  Taken(msg) \in Bytes
<1>1. msg.length \in Nat /\ msg.flag \in Byte
  BY Zenon DEF Msg
<1>2. BigEndian(msg.length) \in Bytes /\ <<msg.flag>> \in Bytes /\ <<>> \in Bytes
  BY <1>1, BigEndianValue DEF Bytes
<1> QED
  BY <1>2, BytesJoin, Zenon DEF Taken

\* A new message.
LEMMA NewMsgType ==
    NewMsg \in Msg /\ NewMsg.length = 0
<1>1. 0 \in Byte
  BY ReadAssumption DEF Byte
<1> QED
  BY <1>1, Zenon DEF NewMsg, Msg

\* A header that was decoded is that of the message after the first d.
HeadOf(msgs, d, msg) ==
    msg.length # 0 =>
        d < Len(msgs) /\ msg.length = Len(msgs[d + 1][2]) + 1 /\ msg.flag = msgs[d + 1][1]

\* The bytes in msg, in the buffer and behind it are what follows the first d
\* messages.
Follows(msgs, d, msg, bytes, behind) ==
    /\ msgs \in Seq(Message) /\ d \in 0 .. Len(msgs) /\ msg \in Msg /\ bytes \in Bytes /\ behind \in Bytes
    /\ HeadOf(msgs, d, msg)
    /\ Upto(msgs)[d] \o (Taken(msg) \o (bytes \o behind)) = Stream(msgs)

\* What Decode returns: the next message, or its header, and the rest of the bytes.
Decoded(msgs, d, msg, bytes, r) ==
    IF r.ok
    THEN /\ d < Len(msgs) /\ r.reader \in Bytes /\ <<r.msg.flag, r.msg.data>> = msgs[d + 1]
         /\ Taken(msg) \o bytes = Coded(msgs[d + 1]) \o r.reader
    ELSE /\ r.msg \in Msg /\ r.reader \in Bytes /\ HeadOf(msgs, d, r.msg)
         /\ Taken(msg) \o bytes = Taken(r.msg) \o r.reader

\* The bytes t start with the message m.
Starts(t, m) == m \in Message /\ \E c \in Bytes : t = Coded(m) \o c

\* The stream from the message after the first d on.
LEMMA NextMessage ==
    ASSUME NEW msgs, NEW d, NEW msg, NEW bytes, NEW behind, Follows(msgs, d, msg, bytes, behind),
           d < Len(msgs)
    PROVE  Starts(Taken(msg) \o (bytes \o behind), msgs[d + 1])
<1> DEFINE m == msgs[d + 1]
           u == Upto(msgs)
           t == Taken(msg) \o (bytes \o behind)
<1>1. /\ msgs \in Seq(Message) /\ d \in 0 .. Len(msgs) /\ bytes \in Bytes /\ behind \in Bytes
      /\ u[d] \o t = Stream(msgs) /\ msg \in Msg
  BY Zenon DEF Follows
<1>2. /\ Len(msgs) \in Nat /\ d + 1 \in 1 .. Len(msgs) /\ (d + 1) - 1 = d /\ d + 1 \in 0 .. Len(msgs)
      /\ Len(msgs) \in d + 1 .. Len(msgs)
  BY <1>1, LenProperties
<1>3. m \in Message
  BY <1>1, <1>2, ElementOfSeq, Zenon
<1>4. PICK c \in Bytes : u[Len(msgs)] = u[d + 1] \o c
  BY <1>1, <1>2, UptoRest, Zenon
<1>5. Stream(msgs) = (u[d] \o Coded(m)) \o c
  BY <1>1, <1>2, <1>4, UptoIs, Zenon
<1>6. u[d] \in Bytes /\ Coded(m) \in Bytes /\ Coded(m) \o c \in Bytes
  BY <1>1, <1>3, HeaderOf, UptoBytes, BytesJoin, Zenon
<1>7. Stream(msgs) = u[d] \o (Coded(m) \o c)
  <2> HIDE DEF u, m
  <2> QED
    BY <1>5, <1>6, BytesAssoc, Zenon
<1>8. Taken(msg) \in Bytes
  BY <1>1, TakenBytes, Zenon
<1>9. t \in Bytes
  BY <1>1, <1>8, BytesJoin, Zenon
<1>10. t = Coded(m) \o c
  <2> HIDE DEF u, m, t
  <2>1. u[d] \o t = u[d] \o (Coded(m) \o c)
    BY <1>1, <1>7, Zenon
  <2> QED
    BY <1>6, <1>9, <2>1, BytesCancel, Zenon
<1> QED
  BY <1>3, <1>10, Zenon DEF Starts

\* The body of a message whose header was decoded.
LEMMA BodyDecodes ==
    ASSUME NEW msgs, NEW d, NEW msg, NEW bytes, NEW behind, Follows(msgs, d, msg, bytes, behind),
           msg.length # 0
    PROVE  Decoded(msgs, d, msg, bytes, Body(msg, bytes))
<1> DEFINE m == msgs[d + 1]
           n == Len(m[2])
           h == Header(m)
<1>1. /\ msgs \in Seq(Message) /\ d \in 0 .. Len(msgs) /\ msg \in Msg
      /\ bytes \in Bytes /\ behind \in Bytes /\ HeadOf(msgs, d, msg)
  BY Zenon DEF Follows
<1>2. d < Len(msgs) /\ msg.length = n + 1 /\ msg.flag = m[1]
  BY <1>1, Zenon DEF HeadOf
<1>0. Starts(Taken(msg) \o (bytes \o behind), m)
  BY <1>2, NextMessage, Zenon
<1>3. m \in Message
  BY <1>0, Zenon DEF Starts
<1>4. PICK c \in Bytes : Taken(msg) \o (bytes \o behind) = Coded(m) \o c
  BY <1>0, Zenon DEF Starts
<1>5. m[1] \in Byte /\ m[2] \in Bytes /\ n \in Nat /\ m = <<m[1], m[2]>>
  BY <1>3, MessageType, Zenon
<1>6. h \in Bytes /\ Coded(m) = h \o m[2]
  BY <1>3, HeaderOf, Zenon
<1>7. Taken(msg) = h
  BY <1>2, Zenon DEF Taken, Header
<1>8. msg.length - 1 = n /\ Len(bytes) \in Nat
  BY <1>1, <1>2, <1>5, LenProperties DEF Bytes
<1> HIDE DEF m, n, h
<1>9. CASE Len(bytes) >= n
  <2> DEFINE data == SubSeq(bytes, 1, n)
             rest == From(bytes, n + 1)
  <2>1. n \in 0 .. Len(bytes)
    BY <1>5, <1>8, <1>9
  <2>2. data \in Bytes /\ Len(data) = n /\ rest \in Bytes /\ bytes = data \o rest
    BY <1>1, <2>1, SplitAt, Zenon DEF Bytes
  <2>3. Body(msg, bytes) = Result(TRUE, [msg EXCEPT !.data = data], rest)
    BY <1>2, <1>8, <1>9, Zenon DEF Body
  <2> HIDE DEF data, rest
  <2>4. h \o ((data \o rest) \o behind) = (h \o m[2]) \o c
    BY <1>4, <1>6, <1>7, <2>2, Zenon
  <2>5. h \o (data \o (rest \o behind)) = h \o (m[2] \o c)
    <3>1. (data \o rest) \o behind = data \o (rest \o behind)
      <4>1. data \in Bytes /\ rest \in Bytes /\ behind \in Bytes
        BY <1>1, <2>2, Zenon
      <4> QED
        BY <4>1, BytesAssoc, Zenon
    <3>2. (h \o m[2]) \o c = h \o (m[2] \o c)
      <4>1. h \in Bytes /\ m[2] \in Bytes /\ c \in Bytes
        BY <1>5, <1>6, Zenon
      <4> QED
        BY <4>1, BytesAssoc, Zenon
    <3> QED
      BY <2>4, <3>1, <3>2, Zenon
  <2>6. rest \o behind \in Bytes /\ data \o (rest \o behind) \in Bytes /\ m[2] \o c \in Bytes
    BY <1>1, <1>5, <2>2, BytesJoin, Zenon
  <2>7. data \o (rest \o behind) = m[2] \o c
    BY <1>6, <2>5, <2>6, BytesCancel, Zenon
  <2>8. data = m[2]
    BY <1>5, <2>2, <2>6, <2>7, BytesCut, Zenon DEF n
  <2>9. Taken(msg) \o bytes = Coded(m) \o rest
    <3>1. (h \o m[2]) \o rest = h \o (m[2] \o rest)
      BY <1>5, <1>6, <2>2, BytesAssoc, Zenon
    <3> QED
      BY <1>6, <1>7, <2>2, <2>8, <3>1, Zenon
  <2> DEFINE r == Result(TRUE, [msg EXCEPT !.data = data], rest)
  <2>10. r.ok = TRUE /\ r.reader = rest /\ r.msg.flag = msg.flag /\ r.msg.data = data
    BY <1>1, Zenon DEF Result, Msg
  <2>11. <<r.msg.flag, r.msg.data>> = m
    BY <1>2, <1>5, <2>8, <2>10, Zenon
  <2> HIDE DEF r
  <2> QED
    BY <1>2, <2>2, <2>3, <2>9, <2>10, <2>11, Zenon DEF Decoded, m, r
<1>10. CASE ~(Len(bytes) >= n)
  <2> DEFINE r == Result(FALSE, msg, bytes)
  <2>1. Body(msg, bytes) = r
    BY <1>8, <1>10, Zenon DEF Body
  <2>2. r.ok = FALSE /\ r.msg = msg /\ r.reader = bytes
    BY Zenon DEF Result
  <2> HIDE DEF r
  <2> QED
    BY <1>1, <2>1, <2>2, Zenon DEF Decoded
<1> QED
  BY <1>9, <1>10, Zenon

\* The bytes start with the header of the message after the first d.
FrontIs(msgs, d, bytes) ==
    /\ d < Len(msgs) /\ msgs[d + 1] \in Message
    /\ Value(bytes) = Len(msgs[d + 1][2]) + 1 /\ bytes[5] = msgs[d + 1][1]
    /\ From(bytes, 6) \in Bytes /\ bytes = Header(msgs[d + 1]) \o From(bytes, 6)

\* Where no header was taken yet, the first five bytes are the next one.
LEMMA HeaderFront ==
    ASSUME NEW msgs, NEW d, NEW msg, NEW bytes, NEW behind, Follows(msgs, d, msg, bytes, behind),
           msg.length = 0, Len(bytes) >= 5
    PROVE  FrontIs(msgs, d, bytes)
<1> DEFINE front == SubSeq(bytes, 1, 5)
           rest == From(bytes, 6)
           m == msgs[d + 1]
<1>1. /\ msgs \in Seq(Message) /\ d \in 0 .. Len(msgs) /\ msg \in Msg
      /\ bytes \in Bytes /\ behind \in Bytes /\ HeadOf(msgs, d, msg)
      /\ Upto(msgs)[d] \o (Taken(msg) \o (bytes \o behind)) = Stream(msgs)
  BY Zenon DEF Follows
<1>2. front \in Bytes /\ Len(front) = 5 /\ rest \in Bytes /\ bytes = front \o rest
  <2>0. bytes \in Seq(Byte)
    BY <1>1, Zenon DEF Bytes
  <2>1. 5 \in 0 .. Len(bytes) /\ 5 + 1 = 6
    BY <2>0, LenProperties
  <2>2. /\ SubSeq(bytes, 1, 5) \in Seq(Byte) /\ Len(SubSeq(bytes, 1, 5)) = 5
        /\ From(bytes, 5 + 1) \in Seq(Byte) /\ SubSeq(bytes, 1, 5) \o From(bytes, 5 + 1) = bytes
    <3>1. Halves(Byte, bytes, 5)
      BY <2>0, <2>1, HalvesOf, Zenon
    <3> QED
      BY <3>1, Zenon DEF Halves
  <2> QED
    BY <2>1, <2>2, Zenon DEF Bytes
<1>3. Taken(msg) = <<>> /\ bytes \o behind \in Bytes /\ <<>> \o (bytes \o behind) = bytes \o behind
  BY <1>1, BytesJoin, BytesEmpty, Zenon DEF Taken
<1>4. d < Len(msgs)
  <2>1. SUFFICES ASSUME d = Len(msgs) PROVE FALSE
    BY <1>1, LenProperties
  <2>2. Upto(msgs)[d] \in Bytes /\ Upto(msgs)[d] \o (bytes \o behind) = Upto(msgs)[d]
    BY <1>1, <1>3, <2>1, UptoBytes, UptoIs, Zenon
  <2>3. <<>> \in Bytes /\ Upto(msgs)[d] \o <<>> = Upto(msgs)[d]
    BY <2>2, BytesEmpty, Zenon
  <2>4. bytes \o behind = <<>>
    BY <1>3, <2>2, <2>3, BytesCancel, Zenon
  <2>5. Len(bytes \o behind) = Len(bytes) + Len(behind) /\ Len(bytes) \in Nat /\ Len(behind) \in Nat
    BY <1>1, BytesJoin, Zenon
  <2>6. Len(<<>>) = 0
    BY Zenon
  <2>7. Len(bytes) + Len(behind) = 0
    BY <2>4, <2>5, <2>6, Zenon
  <2> QED
    BY <2>5, <2>7
<1>5. Starts(bytes \o behind, m)
  BY <1>3, <1>4, NextMessage, Zenon
<1>6. m \in Message
  BY <1>5, Zenon DEF Starts
<1>7. PICK c \in Bytes : bytes \o behind = Coded(m) \o c
  BY <1>5, Zenon DEF Starts
<1>8. /\ Header(m) \in Bytes /\ Len(Header(m)) = 5 /\ Coded(m) = Header(m) \o m[2]
      /\ Value(Header(m) \o rest) = Len(m[2]) + 1 /\ (Header(m) \o rest)[5] = m[1]
  BY <1>2, <1>6, HeaderOf, Zenon
<1>9. /\ m[1] \in Byte /\ m[2] \in Bytes
      /\ Len(m[2]) + 1 \in Nat /\ Len(m[2]) + 1 # 0
  BY <1>6, MessageType, Zenon
<1> HIDE DEF front, rest, m
<1>10. front = Header(m)
  <2> DEFINE x == rest \o behind
             y == m[2] \o c
  <2>1. (front \o rest) \o behind = front \o (rest \o behind)
    <3>1. front \in Bytes /\ rest \in Bytes /\ behind \in Bytes
      BY <1>1, <1>2, Zenon
    <3> QED
      BY <3>1, BytesAssoc, Zenon
  <2>2. (Header(m) \o m[2]) \o c = Header(m) \o (m[2] \o c)
    <3>1. Header(m) \in Bytes /\ m[2] \in Bytes /\ c \in Bytes
      BY <1>8, <1>9, Zenon
    <3> QED
      BY <3>1, BytesAssoc, Zenon
  <2>3. front \o x = Header(m) \o y
    BY <1>2, <1>7, <1>8, <2>1, <2>2, Zenon
  <2>4. x \in Bytes /\ y \in Bytes
    BY <1>1, <1>2, <1>9, BytesJoin, Zenon
  <2>5. Len(front) = Len(Header(m))
    BY <1>2, <1>8, Zenon
  <2>6. front \in Bytes /\ Header(m) \in Bytes
    BY <1>2, <1>8, Zenon
  <2> HIDE DEF x, y
  <2> QED
    BY <2>3, <2>4, <2>5, <2>6, BytesCut, Zenon
<1>11. Value(bytes) = Len(m[2]) + 1 /\ bytes[5] = m[1] /\ bytes = Header(m) \o rest
  BY <1>2, <1>8, <1>10, Zenon
<1> QED
  BY <1>2, <1>4, <1>6, <1>11, Zenon DEF FrontIs, m, rest

\* Decode takes the next message, or as much of it as has arrived, and no other
\* byte.
LEMMA DecodeDecodes ==
    ASSUME NEW msgs, NEW d, NEW msg, NEW bytes, NEW behind, Follows(msgs, d, msg, bytes, behind)
    PROVE  Decoded(msgs, d, msg, bytes, Decode(msg, bytes))
<1>1. /\ msgs \in Seq(Message) /\ d \in 0 .. Len(msgs) /\ msg \in Msg
      /\ bytes \in Bytes /\ behind \in Bytes /\ HeadOf(msgs, d, msg)
      /\ Upto(msgs)[d] \o (Taken(msg) \o (bytes \o behind)) = Stream(msgs)
  BY Zenon DEF Follows
<1>2. CASE msg.length # 0
  BY <1>2, BodyDecodes, Zenon DEF Decode
<1>3. CASE msg.length = 0 /\ ~(Len(bytes) >= 5)
  <2> DEFINE r == Result(FALSE, msg, bytes)
  <2>1. Decode(msg, bytes) = r
    BY <1>3, Zenon DEF Decode
  <2>2. r.ok = FALSE /\ r.msg = msg /\ r.reader = bytes
    BY Zenon DEF Result
  <2> HIDE DEF r
  <2> QED
    BY <1>1, <2>1, <2>2, Zenon DEF Decoded
<1>4. CASE msg.length = 0 /\ Len(bytes) >= 5
  <2> DEFINE head == [msg EXCEPT !.length = Value(bytes), !.flag = bytes[5]]
             rest == From(bytes, 6)
             m == msgs[d + 1]
  <2>1. Decode(msg, bytes) = Body(head, rest)
    BY <1>4, Zenon DEF Decode
  <2>2. FrontIs(msgs, d, bytes)
    BY <1>4, HeaderFront, Zenon
  <2>3. Taken(msg) = <<>> /\ bytes \o behind \in Bytes /\ <<>> \o (bytes \o behind) = bytes \o behind
    BY <1>1, <1>4, BytesJoin, BytesEmpty, Zenon DEF Taken
  <2>4. d < Len(msgs) /\ m \in Message /\ rest \in Bytes
    BY <2>2, Zenon DEF FrontIs
  <2>5. Value(bytes) = Len(m[2]) + 1 /\ bytes[5] = m[1] /\ bytes = Header(m) \o rest
    BY <2>2, Zenon DEF FrontIs
  <2>8. Header(m) \in Bytes
    BY <2>4, HeaderOf, Zenon
  <2>9. m[1] \in Byte /\ Len(m[2]) + 1 \in Nat /\ Len(m[2]) + 1 # 0
    BY <2>4, MessageType, Zenon
  <2> HIDE DEF rest, m
  <2>12. head \in Msg /\ head.length = Len(m[2]) + 1 /\ head.flag = m[1]
    BY <1>1, <2>9, <2>5, Zenon DEF Msg
  <2> HIDE DEF head
  <2>13. Taken(head) = Header(m)
    BY <2>9, <2>12, Zenon DEF Taken, Header
  <2>14. HeadOf(msgs, d, head)
    BY <2>4, <2>12, Zenon DEF HeadOf, m
  <2>15. Taken(head) \o (rest \o behind) = bytes \o behind
    <3>1. (Header(m) \o rest) \o behind = Header(m) \o (rest \o behind)
      BY <1>1, <2>4, <2>8, BytesAssoc, Zenon
    <3> QED
      BY <2>5, <2>13, <3>1, Zenon
  <2>16. Follows(msgs, d, head, rest, behind)
    BY <1>1, <2>3, <2>4, <2>12, <2>14, <2>15, Zenon DEF Follows
  <2>17. Decoded(msgs, d, head, rest, Body(head, rest))
    BY <2>9, <2>12, <2>16, BodyDecodes, Zenon
  <2>18. Taken(msg) \o bytes = Taken(head) \o rest
    BY <1>1, <2>3, <2>5, <2>13, BytesEmpty, Zenon
  <2> QED
    BY <2>1, <2>17, <2>18, Zenon DEF Decoded
<1> QED
  BY <1>2, <1>3, <1>4, Zenon

-------------------------------------------------------------------------------
(* The inductive invariant *)

\* The bytes a peer sends before its messages.
Own == IF isClient THEN SessionId ELSE <<>>

\* Where the loop is, and the state of its connection.
Control ==
    /\ ordered \in BOOLEAN /\ isClient \in BOOLEAN /\ broken \in BOOLEAN
    /\ conn \in {"open", "eof", "reset", "closed"} /\ socketClosed \in BOOLEAN
    /\ readAt \in {"sync", "check", "read", "decode", "end"} /\ failTimes \in 0 .. 3
    /\ readAt # "end" => failTimes <= 2
    /\ broken => conn \in {"reset", "closed"}
    /\ readAt = "sync" => isClient
    /\ EndsClosed

\* The messages decoded are the first of those sent.
Copied(d, msgs) == Len(d) <= Len(msgs) /\ \A i \in 1 .. Len(d) : d[i] = msgs[i]

\* What was read and what can still be read.
Reads(first, d, msg, b, w) == first \o (Stream(d) \o (Taken(msg) \o (b \o w)))

\* What was read is what was written, but for what a break lost.
Kept(r, w, whole) == r \in Bytes /\ \E lost \in Bytes : r \o lost = w /\ (whole => lost = <<>>)

\* The bytes and the messages of the connection.
Data ==
    /\ wire \in Bytes /\ firstData \in Bytes /\ buf \in Bytes /\ lastMsg \in Msg
    /\ sent \in Seq(Message) /\ decoded \in Seq(Message)
    /\ Copied(decoded, sent) /\ HeadOf(sent, Len(decoded), lastMsg)
    /\ Len(firstData) <= Len(Own)
    /\ Len(firstData) # Len(Own) => decoded = <<>> /\ buf = <<>> /\ lastMsg = NewMsg
    /\ Kept(Reads(firstData, decoded, lastMsg, buf, wire), Own \o Stream(sent), ~broken)
dataVars == <<isClient, wire, firstData, buf, lastMsg, sent, decoded, broken>>

Queues ==
    /\ spawned \in Seq(Message) /\ handled \in Seq(Message)
    /\ ordered => spawned = <<>>

ReadInv ==
    /\ Control /\ Data /\ Queues
    /\ readAt \notin {"sync", "end"} => Len(firstData) = Len(Own)

\* A step that touches none of these keeps the bytes and the messages.
LEMMA DataSame ==
    ASSUME Data, UNCHANGED dataVars
    PROVE  Data'
  BY Zenon DEF Data, dataVars, Own

\* The same of the queues.
LEMMA QueuesSame ==
    ASSUME Queues, UNCHANGED <<ordered, spawned, handled>>
    PROVE  Queues'
  BY Zenon DEF Queues

\* The session id is made of bytes.
LEMMA OwnBytes ==
    Own \in Bytes
<1>1. SessionId \in Bytes /\ <<>> \in Bytes
  BY ReadAssumption, EmptySeq, Zenon DEF Bytes
<1> QED
  BY <1>1, Zenon DEF Own

\* The bytes of a sequence of messages are bytes.
LEMMA StreamBytes ==
    ASSUME NEW msgs \in Seq(Message)
    PROVE  Stream(msgs) \in Bytes
<1>1. Len(msgs) \in 0 .. Len(msgs)
  BY LenProperties
<1> QED
  BY <1>1, UptoIs, UptoBytes, Zenon

\* Bytes behind two pieces are behind the last one.
LEMMA Pushed ==
    ASSUME NEW a \in Bytes, NEW b \in Bytes, NEW x \in Bytes
    PROVE  a \o b \in Bytes /\ (a \o b) \o x = a \o (b \o x)
<1>1. a \o b \in Bytes
  BY BytesJoin, Zenon
<1>2. (a \o b) \o x = a \o (b \o x)
  BY BytesAssoc, Zenon
<1> QED
  BY <1>1, <1>2, Zenon

Pieces(a, b, c, d, e) == a \in Bytes /\ b \in Bytes /\ c \in Bytes /\ d \in Bytes /\ e \in Bytes

\* Bytes behind five pieces are behind the last piece.
LEMMA Nested ==
    ASSUME NEW a, NEW b, NEW c, NEW d, NEW e, NEW x \in Bytes, Pieces(a, b, c, d, e)
    PROVE  /\ (a \o (b \o (c \o (d \o e)))) \o x = a \o (b \o (c \o (d \o (e \o x))))
           /\ a \o (b \o (c \o (d \o e))) \in Bytes
<1> DEFINE de == d \o e
           ce == c \o de
           be == b \o ce
<1>1. d \in Bytes /\ e \in Bytes
  BY Zenon DEF Pieces
<1>2. de \in Bytes /\ de \o x = d \o (e \o x)
  BY <1>1, Pushed, ZenonT(30)
<1> HIDE DEF de
<1>3. c \in Bytes
  BY Zenon DEF Pieces
<1>4. ce \in Bytes /\ ce \o x = c \o (de \o x)
  BY <1>2, <1>3, Pushed, Zenon
<1> HIDE DEF ce
<1>5. b \in Bytes
  BY Zenon DEF Pieces
<1>6. be \in Bytes /\ be \o x = b \o (ce \o x)
  BY <1>4, <1>5, Pushed, Zenon
<1> HIDE DEF be
<1>7. a \in Bytes
  BY Zenon DEF Pieces
<1>8. a \o be \in Bytes /\ (a \o be) \o x = a \o (be \o x)
  BY <1>6, <1>7, Pushed, Zenon
<1>9. (a \o be) \o x = a \o (b \o (c \o (d \o (e \o x))))
  BY <1>2, <1>4, <1>6, <1>8, Zenon
<1> QED
  BY <1>8, <1>9, Zenon DEF be, ce, de

\* Once the session id is read, what follows are messages.
LEMMA DataFollows ==
    ASSUME Data, Len(firstData) = Len(Own)
    PROVE  /\ firstData = Own
           /\ \E lost \in Bytes : /\ Follows(sent, Len(decoded), lastMsg, buf, wire \o lost)
                                  /\ ~broken => lost = <<>>
<1> DEFINE h == Taken(lastMsg)
           sd == Stream(decoded)
           ss == Stream(sent)
           n == Len(decoded)
<1>1. /\ wire \in Bytes /\ firstData \in Bytes /\ buf \in Bytes /\ lastMsg \in Msg
      /\ sent \in Seq(Message) /\ decoded \in Seq(Message)
      /\ Copied(decoded, sent) /\ HeadOf(sent, n, lastMsg)
      /\ Kept(Reads(firstData, decoded, lastMsg, buf, wire), Own \o ss, ~broken)
  BY Zenon DEF Data
<1>2. h \in Bytes /\ sd \in Bytes /\ ss \in Bytes /\ Own \in Bytes
  BY <1>1, TakenBytes, StreamBytes, OwnBytes, Zenon
<1>3. PICK lost \in Bytes : /\ (firstData \o (sd \o (h \o (buf \o wire)))) \o lost = Own \o ss
                            /\ ~broken => lost = <<>>
  BY <1>1, Zenon DEF Kept, Reads
<1> HIDE DEF h, sd, ss
<1> DEFINE t == sd \o (h \o (buf \o (wire \o lost)))
<1>4. firstData \o t = Own \o ss
  <2>1. (firstData \o (sd \o (h \o (buf \o wire)))) \o lost = firstData \o t
    <3>1. Pieces(firstData, sd, h, buf, wire)
      BY <1>1, <1>2, Zenon DEF Pieces
    <3>2. /\ (firstData \o (sd \o (h \o (buf \o wire)))) \o lost = firstData \o (sd \o (h \o (buf \o (wire \o lost))))
          /\ firstData \o (sd \o (h \o (buf \o wire))) \in Bytes
      BY <3>1, Nested, Zenon
    <3> QED
      BY <3>2, Zenon
  <2> QED
    BY <1>3, <2>1, Zenon
<1>5. wire \o lost \in Bytes
  BY <1>1, BytesJoin, Zenon
<1>6. t \in Bytes
  <2> DEFINE x == wire \o lost
  <2>1. x \in Bytes
    BY <1>5, Zenon
  <2> HIDE DEF x
  <2>2. buf \o x \in Bytes
    BY <1>1, <2>1, BytesJoin, Zenon
  <2>3. h \o (buf \o x) \in Bytes
    BY <1>2, <2>2, BytesJoin, Zenon
  <2>4. sd \o (h \o (buf \o x)) \in Bytes
    BY <1>2, <2>3, BytesJoin, Zenon
  <2> QED
    BY <2>4, Zenon DEF x
<1> HIDE DEF t
<1>7. firstData = Own /\ t = ss
  BY <1>1, <1>2, <1>4, <1>6, BytesCut, Zenon
<1>8. sd = Upto(sent)[n] /\ n \in 0 .. Len(sent)
  <2>1. n \in Nat /\ Len(sent) \in Nat /\ n <= n
    BY <1>1, LenProperties
  <2>2. n <= Len(sent) /\ \A i \in 1 .. n : decoded[i] = sent[i]
    BY <1>1, Zenon DEF Copied
  <2>3. n \in 0 .. n /\ n \in 0 .. Len(sent)
    BY <2>1, <2>2
  <2>4. Upto(decoded)[n] = Upto(sent)[n]
    BY <1>1, <2>1, <2>2, <2>3, UptoSame, Zenon
  <2> QED
    BY <1>1, <2>3, <2>4, UptoIs, Zenon DEF sd
<1>9. Follows(sent, n, lastMsg, buf, wire \o lost)
  BY <1>1, <1>5, <1>7, <1>8, Zenon DEF Follows, t, h, ss
<1> QED
  BY <1>3, <1>7, <1>9, Zenon

-------------------------------------------------------------------------------
(* The steps *)

Fixed == UNCHANGED <<ordered, isClient>>

\* No step leaves the states of the loop and of the connection.
LEMMA ControlStep ==
    ASSUME Control, ReadNext
    PROVE  Control'
<1>0. Fixed
  BY Zenon DEF ReadNext, Fixed
<1>1. ASSUME NEW msg \in Message, Write(msg) PROVE Control'
  BY <1>0, <1>1, Zenon DEF Write, Control, EndsClosed, Fixed, reader
<1>2. ASSUME PeerCloses PROVE Control'
  BY <1>0, <1>2, Zenon DEF PeerCloses, Control, EndsClosed, Fixed, reader, notes
<1>3. ASSUME Resets PROVE Control'
  BY <1>0, <1>3, Zenon DEF Resets, Control, EndsClosed, Fixed, reader
<1>4. ASSUME SocketClose PROVE Control'
  BY <1>0, <1>4, Zenon DEF SocketClose, Control, EndsClosed, Fixed, reader, notes
<1>5. ASSUME NEW n, SyncRead(n) PROVE Control'
  BY <1>0, <1>5, Zenon DEF SyncRead, Control, EndsClosed, Fixed, notes
<1>6. ASSUME SyncFails PROVE Control'
  BY <1>0, <1>6, Zenon DEF SyncFails, Control, EndsClosed, Fixed, notes
<1>7. ASSUME LoopTop PROVE Control'
  BY <1>0, <1>7, Zenon DEF LoopTop, Control, EndsClosed, Fixed, notes
<1>8. ASSUME NEW n, Read(n) PROVE Control'
  BY <1>0, <1>8 DEF Read, Control, EndsClosed, Fixed, notes
<1>9. ASSUME ReadClosed PROVE Control'
  BY <1>0, <1>9, Zenon DEF ReadClosed, Ends, Control, EndsClosed, Fixed, notes
<1>10. ASSUME ReadError PROVE Control'
  BY <1>0, <1>10 DEF ReadError, Ends, Control, EndsClosed, Fixed, notes
<1>11. ASSUME DecodeNext PROVE Control'
  <2>1. /\ readAt = "decode" /\ UNCHANGED <<conn, socketClosed, failTimes, broken>>
        /\ \/ UNCHANGED <<readAt, ending>>
           \/ readAt' = "end" /\ ending' = "panic"
           \/ readAt' = "check" /\ UNCHANGED ending
    BY <1>11, Zenon DEF DecodeNext, Deliver, notes
  <2> QED
    BY <1>0, <2>1, Zenon DEF Control, EndsClosed, Fixed
<1>12. ASSUME NEW i, Handle(i) PROVE Control'
  BY <1>0, <1>12, Zenon DEF Handle, Control, EndsClosed, Fixed, reader, notes
<1> QED
  BY <1>1, <1>2, <1>3, <1>4, <1>5, <1>6, <1>7, <1>8, <1>9, <1>10, <1>11, <1>12, Zenon
     DEF ReadNext, Reading, Handling

\* The pieces of what was read and of what can be read.
LEMMA DataPieces ==
    ASSUME Data
    PROVE  /\ Pieces(firstData, Stream(decoded), Taken(lastMsg), buf, wire)
           /\ Stream(sent) \in Bytes /\ Own \in Bytes
<1>1. /\ wire \in Bytes /\ firstData \in Bytes /\ buf \in Bytes /\ lastMsg \in Msg
      /\ sent \in Seq(Message) /\ decoded \in Seq(Message)
  BY Zenon DEF Data
<1>2. Taken(lastMsg) \in Bytes
  BY <1>1, TakenBytes, Zenon
<1>3. Stream(decoded) \in Bytes /\ Stream(sent) \in Bytes
  BY <1>1, StreamBytes, Zenon
<1> QED
  BY <1>1, <1>2, <1>3, OwnBytes, Zenon DEF Pieces

\* A message is written behind all that can be read.
LEMMA WriteData ==
    ASSUME ReadInv, NEW msg \in Message, Write(msg), Fixed
    PROVE  Data'
<1> DEFINE r == Reads(firstData, decoded, lastMsg, buf, wire)
           e == Coded(msg)
<1>1. Data /\ ~broken
  BY Zenon DEF ReadInv, Control, Write
<1>2. /\ wire' = wire \o e /\ sent' = Append(sent, msg) /\ Own' = Own
      /\ firstData' = firstData /\ buf' = buf /\ lastMsg' = lastMsg /\ decoded' = decoded /\ broken' = broken
  BY Zenon DEF Write, Coded, Fixed, Own, reader
<1>3. Pieces(firstData, Stream(decoded), Taken(lastMsg), buf, wire) /\ Stream(sent) \in Bytes /\ Own \in Bytes
  BY <1>1, DataPieces, Zenon
<1>4. sent \in Seq(Message) /\ decoded \in Seq(Message) /\ Copied(decoded, sent) /\ wire \in Bytes
  BY <1>1, Zenon DEF Data
<1>5. e \in Bytes
  BY HeaderOf, Zenon
<1> HIDE DEF e
<1>6. Kept(r, Own \o Stream(sent), ~broken)
  BY <1>1, Zenon DEF Data
<1>7. r \in Bytes /\ r = Own \o Stream(sent)
  <2>1. PICK lost \in Bytes : r \o lost = Own \o Stream(sent) /\ (~broken => lost = <<>>)
    BY <1>6, Zenon DEF Kept
  <2>2. r \in Bytes
    BY <1>6, Zenon DEF Kept
  <2> HIDE DEF r
  <2> QED
    BY <1>1, <2>1, <2>2, BytesEmpty, Zenon
<1>8. /\ r \o e = Reads(firstData, decoded, lastMsg, buf, wire \o e)
      /\ r \in Bytes
  BY <1>3, <1>5, Nested, Zenon DEF Reads
<1>9. Stream(sent') = Stream(sent) \o e
  BY <1>2, <1>4, StreamAppend, Zenon DEF e
<1>10. (Own \o Stream(sent)) \o e = Own \o Stream(sent')
  <2>1. (Own \o Stream(sent)) \o e = Own \o (Stream(sent) \o e)
    BY <1>3, <1>5, BytesAssoc, Zenon
  <2> QED
    BY <1>9, <2>1, Zenon
<1> HIDE DEF r
<1>11. r \o e \in Bytes
  BY <1>5, <1>8, BytesJoin, Zenon
<1>12. r \o e = Own \o Stream(sent')
  BY <1>7, <1>10, Zenon
<1>13. <<>> \in Bytes /\ (r \o e) \o <<>> = r \o e
  BY <1>11, BytesEmpty, Zenon
<1>14. Kept(r \o e, Own \o Stream(sent'), ~broken)
  BY <1>11, <1>12, <1>13, Zenon DEF Kept
<1>15. sent' \in Seq(Message) /\ Len(sent') = Len(sent) + 1 /\ \A i \in 1 .. Len(sent) : sent'[i] = sent[i]
  BY <1>2, <1>4, AppendProperties
<1>16. Len(decoded) <= Len(sent) /\ (\A i \in 1 .. Len(decoded) : decoded[i] = sent[i])
  BY <1>4, Zenon DEF Copied
<1>17. Len(decoded) \in Nat /\ Len(sent) \in Nat
  BY <1>4, LenProperties, Zenon
<1>18. Len(decoded) <= Len(sent') /\ (\A i \in 1 .. Len(decoded) : i \in 1 .. Len(sent))
  BY <1>15, <1>16, <1>17
<1>19. Copied(decoded, sent')
  BY <1>15, <1>16, <1>18, Zenon DEF Copied
<1>20. HeadOf(sent', Len(decoded), lastMsg)
  <2>1. HeadOf(sent, Len(decoded), lastMsg)
    BY <1>1, Zenon DEF Data
  <2>2. Len(decoded) < Len(sent) => Len(decoded) < Len(sent') /\ Len(decoded) + 1 \in 1 .. Len(sent)
    BY <1>15, <1>17
  <2> QED
    BY <1>15, <2>1, <2>2, Zenon DEF HeadOf
<1>21. wire \o e \in Bytes
  BY <1>4, <1>5, BytesJoin, Zenon
<1> QED
  BY <1>1, <1>2, <1>8, <1>14, <1>15, <1>19, <1>20, <1>21, Zenon DEF Data

\* A break loses what was not read.
LEMMA ResetsData ==
    ASSUME ReadInv, Resets, Fixed
    PROVE  Data'
<1> DEFINE r == Reads(firstData, decoded, lastMsg, buf, wire)
           x == Reads(firstData, decoded, lastMsg, buf, <<>>)
<1>1. Data
  BY Zenon DEF ReadInv
<1>2. /\ wire' = <<>> /\ sent' = sent /\ Own' = Own
      /\ firstData' = firstData /\ buf' = buf /\ lastMsg' = lastMsg /\ decoded' = decoded /\ broken' = TRUE
  BY Zenon DEF Resets, Fixed, Own, reader
<1>3. Pieces(firstData, Stream(decoded), Taken(lastMsg), buf, wire)
  BY <1>1, DataPieces, Zenon
<1>4. wire \in Bytes /\ <<>> \in Bytes /\ <<>> \o wire = wire
  BY <1>3, BytesEmpty, Zenon DEF Pieces
<1>5. Pieces(firstData, Stream(decoded), Taken(lastMsg), buf, <<>>)
  BY <1>3, <1>4, Zenon DEF Pieces
<1>6. /\ x \o wire = Reads(firstData, decoded, lastMsg, buf, <<>> \o wire)
      /\ x \in Bytes
  BY <1>4, <1>5, Nested, Zenon DEF Reads
<1>7. x \o wire = r
  BY <1>4, <1>6, Zenon
<1>8. Kept(r, Own \o Stream(sent), ~broken)
  BY <1>1, Zenon DEF Data
<1>9. PICK lost \in Bytes : r \o lost = Own \o Stream(sent)
  BY <1>8, Zenon DEF Kept
<1> HIDE DEF r, x
<1>10. (x \o wire) \o lost = x \o (wire \o lost) /\ wire \o lost \in Bytes
  <2>1. (x \o wire) \o lost = x \o (wire \o lost)
    BY <1>4, <1>6, BytesAssoc, Zenon
  <2>2. wire \o lost \in Bytes
    BY <1>4, BytesJoin, Zenon
  <2> QED
    BY <2>1, <2>2, Zenon
<1>11. Kept(x, Own \o Stream(sent), ~TRUE)
  BY <1>6, <1>7, <1>9, <1>10, Zenon DEF Kept
<1> QED
  BY <1>1, <1>2, <1>4, <1>11, Zenon DEF Data, x

\* No messages, no bytes.
LEMMA NoBytes ==
    Stream(<<>>) = <<>> /\ <<>> \in Seq(Message) /\ Taken(NewMsg) = <<>> /\ <<>> \in Bytes
<1>1. <<>> \in Seq(Message) /\ Len(<<>>) = 0
  BY EmptySeq, Zenon
<1>2. Stream(<<>>) = <<>>
  BY <1>1, UptoIs, Zenon
<1>3. NewMsg.length = 0
  BY Zenon DEF NewMsg
<1> QED
  BY <1>1, <1>2, <1>3, EmptySeq, Zenon DEF Taken, Bytes

\* A piece of the wire that was read.
LEMMA CutWire ==
    ASSUME NEW w \in Bytes, NEW n \in Nat, n <= Len(w)
    PROVE  /\ SubSeq(w, 1, n) \in Bytes /\ From(w, n + 1) \in Bytes
           /\ SubSeq(w, 1, n) \o From(w, n + 1) = w /\ Len(SubSeq(w, 1, n)) = n
<1>1. n \in 0 .. Len(w) /\ w \in Seq(Byte)
  BY LenProperties DEF Bytes
<1> QED
  BY <1>1, SplitAt, Zenon DEF Bytes

\* syncSessionId moves bytes from the wire to the session id, and none that
\* belong to a message.
LEMMA SyncReadData ==
    ASSUME ReadInv, NEW n \in DOMAIN SessionId, SyncRead(n), Fixed
    PROVE  Data'
<1> DEFINE x == SubSeq(wire, 1, n)
           y == From(wire, n + 1)
<1>1. Data /\ isClient
  BY Zenon DEF ReadInv, Control, SyncRead
<1>2. /\ wire' = y /\ sent' = sent /\ Own' = Own /\ firstData' = firstData \o x
      /\ buf' = buf /\ lastMsg' = lastMsg /\ decoded' = decoded /\ broken' = broken
      /\ n <= Len(wire) /\ n <= FirstDataLen
  BY Zenon DEF SyncRead, Fixed, Own, notes
<1>3. Own = SessionId /\ Own \in Bytes
  BY <1>1, OwnBytes, Zenon DEF Own
<1>4. n \in Nat /\ n > 0 /\ Len(Own) \in Nat
  BY <1>3, LenProperties DEF Bytes
<1>5. wire \in Bytes /\ firstData \in Bytes
  BY <1>1, Zenon DEF Data
<1>6. x \in Bytes /\ y \in Bytes /\ x \o y = wire /\ Len(x) = n
  BY <1>2, <1>4, <1>5, CutWire, Zenon
<1> HIDE DEF x, y
<1>7. firstData \o x \in Bytes /\ Len(firstData \o x) = Len(firstData) + n /\ Len(firstData) \in Nat
  BY <1>5, <1>6, BytesJoin, Zenon
<1>8. Len(firstData \o x) <= Len(Own) /\ Len(firstData) # Len(Own)
  BY <1>2, <1>3, <1>4, <1>7 DEF FirstDataLen
<1>9. decoded = <<>> /\ buf = <<>> /\ lastMsg = NewMsg
  BY <1>1, <1>8, Zenon DEF Data
<1>10. \A a, b : b \in Bytes => Reads(a, decoded, lastMsg, buf, b) = a \o b
  BY <1>9, NoBytes, BytesEmpty, Zenon DEF Reads
<1>11. (firstData \o x) \o y = firstData \o (x \o y)
  BY <1>5, <1>6, BytesAssoc, Zenon
<1>12. Reads(firstData \o x, decoded, lastMsg, buf, y) = Reads(firstData, decoded, lastMsg, buf, wire)
  BY <1>5, <1>6, <1>10, <1>11, Zenon
<1> QED
  BY <1>1, <1>2, <1>6, <1>7, <1>8, <1>9, <1>12, Zenon DEF Data

\* readIo moves bytes from the wire to its buffer.
LEMMA ReadData ==
    ASSUME ReadInv, NEW n \in Nat, Read(n), Fixed
    PROVE  Data'
<1> DEFINE x == SubSeq(wire, 1, n)
           y == From(wire, n + 1)
<1>1. Data /\ Len(firstData) = Len(Own)
  BY Zenon DEF ReadInv, Control, Read
<1>2. /\ wire' = y /\ sent' = sent /\ Own' = Own /\ firstData' = firstData
      /\ buf' = buf \o x /\ lastMsg' = lastMsg /\ decoded' = decoded /\ broken' = broken
      /\ n <= Len(wire)
  BY Zenon DEF Read, Fixed, Own, notes
<1>3. wire \in Bytes /\ buf \in Bytes
  BY <1>1, Zenon DEF Data
<1>4. x \in Bytes /\ y \in Bytes /\ x \o y = wire /\ Len(x) = n
  BY <1>2, <1>3, CutWire, Zenon
<1> HIDE DEF x, y
<1>5. buf \o x \in Bytes /\ (buf \o x) \o y = buf \o (x \o y)
  BY <1>3, <1>4, Pushed, Zenon
<1>6. Reads(firstData, decoded, lastMsg, buf \o x, y) = Reads(firstData, decoded, lastMsg, buf, wire)
  BY <1>4, <1>5, Zenon DEF Reads
<1> QED
  BY <1>1, <1>2, <1>4, <1>5, <1>6, Zenon DEF Data

\* What a round of the inner loop gets from Decode.
LEMMA DecodeResult ==
    ASSUME ReadInv, DecodeNext
    PROVE  Decoded(sent, Len(decoded), lastMsg, buf, Decode(lastMsg, buf))
<1>1. Data /\ Len(firstData) = Len(Own)
  BY Zenon DEF ReadInv, Control, DecodeNext
<1>2. PICK lost \in Bytes : Follows(sent, Len(decoded), lastMsg, buf, wire \o lost)
  BY <1>1, DataFollows, Zenon
<1> QED
  BY <1>2, DecodeDecodes, Zenon

SameJoin(a, b, c, d) == a \o b = c \o d

\* Bytes that are cut otherwise are the same bytes.
LEMMA Recut ==
    ASSUME NEW a, NEW b, NEW c, NEW d, NEW x, Pieces(a, b, c, d, x), SameJoin(a, b, c, d)
    PROVE  SameJoin(a, b \o x, c, d \o x)
<1>1. a \in Bytes /\ b \in Bytes /\ x \in Bytes
  BY Zenon DEF Pieces
<1>2. c \in Bytes /\ d \in Bytes /\ x \in Bytes
  BY Zenon DEF Pieces
<1>3. (a \o b) \o x = a \o (b \o x)
  BY <1>1, BytesAssoc, Zenon
<1>4. (c \o d) \o x = c \o (d \o x)
  BY <1>2, BytesAssoc, Zenon
<1> QED
  BY <1>3, <1>4, Zenon DEF SameJoin

\* A round of the inner loop takes the next message or its header out of the
\* buffer.
LEMMA DecodeData ==
    ASSUME ReadInv, DecodeNext, Fixed
    PROVE  Data'
<1> DEFINE r == Decode(lastMsg, buf)
           n == Len(decoded)
           m == sent[n + 1]
<1>1. Data /\ Len(firstData) = Len(Own)
  BY Zenon DEF ReadInv, Control, DecodeNext
<1>2. /\ wire' = wire /\ sent' = sent /\ Own' = Own /\ firstData' = firstData /\ broken' = broken
      /\ buf' = r.reader
  BY Zenon DEF DecodeNext, Fixed, Own, notes
<1>3. Decoded(sent, n, lastMsg, buf, r)
  BY DecodeResult, Zenon
<1>4. /\ wire \in Bytes /\ buf \in Bytes /\ lastMsg \in Msg /\ Copied(decoded, sent)
      /\ sent \in Seq(Message) /\ decoded \in Seq(Message)
  BY <1>1, Zenon DEF Data
<1>5. Taken(lastMsg) \in Bytes /\ Stream(decoded) \in Bytes
  BY <1>4, TakenBytes, StreamBytes, Zenon
<1>6. CASE r.ok
  <2>1. /\ lastMsg' = NewMsg /\ decoded' = Append(decoded, <<r.msg.flag, r.msg.data>>)
    BY <1>6, Zenon DEF DecodeNext
  <2>2. /\ n < Len(sent) /\ r.reader \in Bytes /\ <<r.msg.flag, r.msg.data>> = m
        /\ Taken(lastMsg) \o buf = Coded(m) \o r.reader
    BY <1>3, <1>6, Zenon DEF Decoded
  <2> HIDE DEF r
  <2>3. n \in Nat /\ Len(sent) \in Nat /\ n + 1 \in 1 .. Len(sent)
    BY <1>4, <2>2, LenProperties
  <2>4. m \in Message
    BY <1>4, <2>3, ElementOfSeq, Zenon
  <2> HIDE DEF m
  <2>5. Coded(m) \in Bytes
    BY <2>4, HeaderOf, Zenon
  <2>6. /\ decoded' \in Seq(Message) /\ Len(decoded') = n + 1
        /\ (\A i \in 1 .. n : decoded'[i] = decoded[i]) /\ decoded'[n + 1] = m
    <3>1. decoded' = Append(decoded, m) /\ decoded \in Seq(Message)
      BY <1>4, <2>1, <2>2, Zenon
    <3>2. /\ Append(decoded, m) \in Seq(Message) /\ Len(Append(decoded, m)) = n + 1
          /\ \A i \in 1 .. n : Append(decoded, m)[i] = decoded[i]
          /\ Append(decoded, m)[n + 1] = m
      <4>1. Grown(Message, decoded, m)
        BY <2>4, <3>1, GrownBy, Zenon
      <4> QED
        BY <4>1, Zenon DEF Grown
    <3> QED
      BY <3>1, <3>2, Zenon
  <2>7. Copied(decoded', sent)
    <3>1. \A i \in 1 .. n : decoded[i] = sent[i]
      BY <1>4, Zenon DEF Copied
    <3>2. n + 1 <= Len(sent) /\ \A i \in 1 .. n + 1 : i \in 1 .. n \/ i = n + 1
      BY <2>3
    <3>3. \A i \in 1 .. n + 1 : decoded'[i] = sent[i]
      BY <2>6, <3>1, <3>2, Zenon DEF m
    <3> QED
      BY <2>6, <3>2, <3>3, Zenon DEF Copied
  <2>8. NewMsg \in Msg /\ NewMsg.length = 0
    BY NewMsgType, Zenon
  <2>9. HeadOf(sent, Len(decoded'), NewMsg)
    BY <2>8, Zenon DEF HeadOf
  <2>10. Stream(decoded') = Stream(decoded) \o Coded(m)
    BY <1>4, <2>1, <2>2, <2>4, StreamAppend, Zenon
  <2>11. r.reader \o wire \in Bytes
    BY <1>4, <2>2, BytesJoin, Zenon
  <2>12. Taken(lastMsg) \o (buf \o wire) = Coded(m) \o (r.reader \o wire)
    <3>1. Pieces(Taken(lastMsg), buf, Coded(m), r.reader, wire)
      BY <1>4, <1>5, <2>2, <2>5, Zenon DEF Pieces
    <3>2. SameJoin(Taken(lastMsg), buf, Coded(m), r.reader)
      BY <2>2, Zenon DEF SameJoin
    <3>3. SameJoin(Taken(lastMsg), buf \o wire, Coded(m), r.reader \o wire)
      BY <3>1, <3>2, Recut, Zenon
    <3> QED
      BY <3>3, Zenon DEF SameJoin
  <2>13. (Stream(decoded) \o Coded(m)) \o (r.reader \o wire) = Stream(decoded) \o (Coded(m) \o (r.reader \o wire))
    BY <1>5, <2>5, <2>11, BytesAssoc, Zenon
  <2>14. <<>> \o (r.reader \o wire) = r.reader \o wire /\ Taken(NewMsg) = <<>>
    BY <2>11, BytesEmpty, NoBytes, Zenon
  <2>15. Reads(firstData, decoded', NewMsg, r.reader, wire) = Reads(firstData, decoded, lastMsg, buf, wire)
    BY <2>10, <2>12, <2>13, <2>14, Zenon DEF Reads
  <2> QED
    BY <1>1, <1>2, <2>1, <2>2, <2>6, <2>7, <2>8, <2>9, <2>15, Zenon DEF Data
<1>7. CASE ~r.ok
  <2>1. lastMsg' = r.msg /\ decoded' = decoded
    BY <1>7, Zenon DEF DecodeNext
  <2>2. /\ r.msg \in Msg /\ r.reader \in Bytes /\ HeadOf(sent, n, r.msg)
        /\ Taken(lastMsg) \o buf = Taken(r.msg) \o r.reader
    BY <1>3, <1>7, Zenon DEF Decoded
  <2> HIDE DEF r
  <2>3. Taken(r.msg) \in Bytes
    BY <2>2, TakenBytes, Zenon
  <2>4. Taken(lastMsg) \o (buf \o wire) = Taken(r.msg) \o (r.reader \o wire)
    <3>1. Pieces(Taken(lastMsg), buf, Taken(r.msg), r.reader, wire)
      BY <1>4, <1>5, <2>2, <2>3, Zenon DEF Pieces
    <3>2. SameJoin(Taken(lastMsg), buf, Taken(r.msg), r.reader)
      BY <2>2, Zenon DEF SameJoin
    <3>3. SameJoin(Taken(lastMsg), buf \o wire, Taken(r.msg), r.reader \o wire)
      BY <3>1, <3>2, Recut, Zenon
    <3> QED
      BY <3>3, Zenon DEF SameJoin
  <2>5. Reads(firstData, decoded, r.msg, r.reader, wire) = Reads(firstData, decoded, lastMsg, buf, wire)
    BY <2>4, Zenon DEF Reads
  <2> QED
    BY <1>1, <1>2, <2>1, <2>2, <2>5, Zenon DEF Data
<1> QED
  BY <1>6, <1>7, Zenon

\* No step loses, doubles or misreads a byte.
LEMMA DataStep ==
    ASSUME ReadInv, ReadNext
    PROVE  Data'
<1>0. Fixed /\ Data
  BY Zenon DEF ReadNext, Fixed, ReadInv
<1>1. ASSUME NEW msg \in Message, Write(msg) PROVE Data'
  BY <1>0, <1>1, WriteData, Zenon
<1>2. ASSUME PeerCloses PROVE Data'
  BY <1>0, <1>2, DataSame, Zenon DEF PeerCloses, Fixed, dataVars, reader, notes
<1>3. ASSUME Resets PROVE Data'
  BY <1>0, <1>3, ResetsData, Zenon
<1>4. ASSUME SocketClose PROVE Data'
  BY <1>0, <1>4, DataSame, Zenon DEF SocketClose, Fixed, dataVars, reader, notes
<1>5. ASSUME NEW n \in DOMAIN SessionId, SyncRead(n) PROVE Data'
  BY <1>0, <1>5, SyncReadData, Zenon
<1>6. ASSUME SyncFails PROVE Data'
  BY <1>0, <1>6, DataSame, Zenon DEF SyncFails, Fixed, dataVars, notes
<1>7. ASSUME LoopTop PROVE Data'
  BY <1>0, <1>7, DataSame, Zenon DEF LoopTop, Fixed, dataVars, notes
<1>8. ASSUME NEW n \in 1 .. ReadSize, Read(n) PROVE Data'
  <2>1. n \in Nat
    BY ReadAssumption
  <2> QED
    BY <1>0, <1>8, <2>1, ReadData, Zenon
<1>9. ASSUME ReadClosed PROVE Data'
  BY <1>0, <1>9, DataSame, Zenon DEF ReadClosed, Fixed, dataVars, notes
<1>10. ASSUME ReadError PROVE Data'
  BY <1>0, <1>10, DataSame, Zenon DEF ReadError, Fixed, dataVars, notes
<1>11. ASSUME DecodeNext PROVE Data'
  BY <1>0, <1>11, DecodeData, Zenon
<1>12. ASSUME NEW i, Handle(i) PROVE Data'
  BY <1>0, <1>12, DataSame, Zenon DEF Handle, Fixed, dataVars, reader, notes
<1> QED
  BY <1>1, <1>2, <1>3, <1>4, <1>5, <1>6, <1>7, <1>8, <1>9, <1>10, <1>11, <1>12, Zenon
     DEF ReadNext, Reading, Handling

\* A message taken out of a sequence.
Without(s, i) == SubSeq(s, 1, i - 1) \o From(s, i + 1)

\* What is left are messages.
LEMMA WithoutSeq ==
    ASSUME NEW S, NEW s \in Seq(S), NEW i \in 1 .. Len(s)
    PROVE  Without(s, i) \in Seq(S)
<1>1. i - 1 \in 0 .. Len(s) /\ i \in 0 .. Len(s)
  BY LenProperties
<1>2. SubSeq(s, 1, i - 1) \in Seq(S) /\ From(s, i + 1) \in Seq(S)
  BY <1>1, SplitAt, Zenon
<1> QED
  BY <1>2, ConcatProperties, Zenon DEF Without

\* Only messages that were sent are handled, and those of an ordered socket
\* by no goroutine of their own.
LEMMA QueuesStep ==
    ASSUME ReadInv, ReadNext
    PROVE  Queues'
<1>0. Fixed /\ Queues
  BY Zenon DEF ReadNext, Fixed, ReadInv
<1>1. ASSUME DecodeNext PROVE Queues'
  <2> DEFINE r == Decode(lastMsg, buf)
             m == <<r.msg.flag, r.msg.data>>
  <2>1. CASE ~r.ok
    BY <1>0, <1>1, <2>1, QueuesSame, Zenon DEF DecodeNext, Fixed
  <2>2. CASE r.ok
    <3>1. Len(decoded) < Len(sent) /\ m = sent[Len(decoded) + 1]
      BY <1>1, <2>2, DecodeResult, Zenon DEF Decoded
    <3>2. sent \in Seq(Message) /\ decoded \in Seq(Message)
      BY Zenon DEF ReadInv, Data
    <3>3. Len(decoded) + 1 \in 1 .. Len(sent)
      BY <3>1, <3>2, LenProperties
    <3>4. m \in Message
      BY <3>1, <3>2, <3>3, ElementOfSeq, Zenon
    <3>5. Deliver(m)
      BY <1>1, <2>2, Zenon DEF DecodeNext
    <3> HIDE DEF m
    <3>6. spawned \in Seq(Message) /\ handled \in Seq(Message) /\ (ordered => spawned = <<>>) /\ ordered' = ordered
      BY <1>0, Zenon DEF Queues, Fixed
    <3>7. Append(spawned, m) \in Seq(Message) /\ Append(handled, m) \in Seq(Message)
      BY <3>4, <3>6, AppendProperties, Zenon
    <3> QED
      BY <3>5, <3>6, <3>7, Zenon DEF Deliver, Queues
  <2> QED
    BY <2>1, <2>2, Zenon
<1>2. ASSUME NEW i, Handle(i) PROVE Queues'
  <2>1. spawned \in Seq(Message) /\ handled \in Seq(Message) /\ (ordered => spawned = <<>>) /\ ordered' = ordered
    BY <1>0, Zenon DEF Queues, Fixed
  <2>2. i \in DOMAIN spawned /\ handled' = Append(handled, spawned[i]) /\ spawned' = Without(spawned, i)
    BY <1>2, Zenon DEF Handle, Without
  <2>3. i \in 1 .. Len(spawned) /\ spawned[i] \in Message /\ spawned # <<>>
    BY <2>1, <2>2, LenProperties
  <2>4. handled' \in Seq(Message)
    BY <2>1, <2>2, <2>3, AppendProperties, Zenon
  <2>5. spawned' \in Seq(Message)
    BY <2>1, <2>2, <2>3, WithoutSeq, Zenon
  <2> QED
    BY <2>1, <2>3, <2>4, <2>5, Zenon DEF Queues
<1>3. ASSUME UNCHANGED <<spawned, handled>> PROVE Queues'
  BY <1>0, <1>3, QueuesSame, Zenon DEF Fixed
<1> QED
  BY <1>1, <1>2, <1>3, Zenon
     DEF ReadNext, Reading, Handling, Write, PeerCloses, Resets, SocketClose, SyncRead, SyncFails, LoopTop,
         Read, ReadClosed, ReadError

\* Messages are read only once the session id is complete.
LEMMA SyncStep ==
    ASSUME ReadInv, ReadNext, readAt' \notin {"sync", "end"}
    PROVE  Len(firstData') = Len(Own')
<1>0. Own' = Own /\ (readAt \notin {"sync", "end"} => Len(firstData) = Len(Own))
  BY Zenon DEF ReadNext, Own, ReadInv
<1>1. ASSUME NEW n \in DOMAIN SessionId, SyncRead(n) PROVE Len(firstData') = Len(Own')
  <2>1. Data'
    BY DataStep, Zenon
  <2>2. firstData' \in Bytes /\ Len(firstData') <= Len(Own')
    BY <2>1, Zenon DEF Data
  <2>3. Own = SessionId /\ Own \in Bytes
    BY <1>1, OwnBytes, Zenon DEF SyncRead, ReadInv, Control, Own
  <2>4. Len(firstData') >= Len(SessionId)
    BY <1>1, Zenon DEF SyncRead
  <2>5. Len(firstData') \in Nat /\ Len(Own) \in Nat
    BY <2>2, <2>3, LenProperties, Zenon DEF Bytes
  <2> QED
    BY <1>0, <2>2, <2>3, <2>4, <2>5
<1>2. ASSUME UNCHANGED firstData, readAt \notin {"sync", "end"} PROVE Len(firstData') = Len(Own')
  BY <1>0, <1>2, Zenon
<1> QED
  BY <1>1, <1>2, Zenon
     DEF ReadNext, Reading, Handling, Write, PeerCloses, Resets, SocketClose, SyncFails, LoopTop, Read,
         ReadClosed, ReadError, DecodeNext, Deliver, Handle, Ends, reader

\* The invariant holds when the connection opens.
LEMMA InitInv ==
    ASSUME ReadInit
    PROVE  ReadInv
<1>1. Control
  <2>1. /\ ordered \in BOOLEAN /\ isClient \in BOOLEAN /\ broken = FALSE /\ conn = "open"
        /\ socketClosed = FALSE /\ failTimes = 0 /\ readAt = IF isClient THEN "sync" ELSE "check"
    BY Zenon DEF ReadInit
  <2>2. readAt \in {"sync", "check"} /\ readAt # "end" /\ (readAt = "sync" => isClient)
    BY <2>1, Zenon
  <2>3. failTimes \in 0 .. 3 /\ failTimes <= 2
    BY <2>1
  <2> QED
    BY <2>1, <2>2, <2>3, Zenon DEF Control, EndsClosed
<1>2. Queues
  BY NoBytes, Zenon DEF ReadInit, Queues
<1>3. Own \in Bytes /\ wire = Own
  BY OwnBytes, Zenon DEF ReadInit, Own
<1>5. NewMsg \in Msg /\ NewMsg.length = 0
  BY NewMsgType, Zenon
<1>6. firstData = <<>> /\ buf = <<>> /\ lastMsg = NewMsg /\ sent = <<>> /\ decoded = <<>>
  BY Zenon DEF ReadInit
<1>7. Reads(<<>>, <<>>, NewMsg, <<>>, Own) = Own
  BY <1>3, NoBytes, BytesEmpty, Zenon DEF Reads
<1>8. Own \o <<>> = Own /\ Len(<<>>) = 0 /\ Len(Own) \in Nat
  BY <1>3, BytesEmpty, EmptySeq, Zenon
<1>9. Len(<<>>) <= Len(Own) /\ Len(<<>>) <= Len(<<>>) /\ \A i \in 1 .. Len(<<>>) : <<>>[i] = <<>>[i]
  BY <1>8
<1>10. Kept(Own, Own \o <<>>, ~broken)
  BY <1>3, <1>8, NoBytes, Zenon DEF Kept
<1>11. Copied(<<>>, <<>>)
  BY <1>9, Zenon DEF Copied
<1>12. HeadOf(sent, Len(decoded), lastMsg)
  BY <1>5, <1>6, Zenon DEF HeadOf
<1>13. Data
  BY <1>3, <1>5, <1>6, <1>7, <1>9, <1>10, <1>11, <1>12, NoBytes, Zenon DEF Data
<1>14. readAt \notin {"sync", "end"} => Len(firstData) = Len(Own)
  BY <1>6, Zenon DEF ReadInit, Own
<1> QED
  BY <1>1, <1>2, <1>13, <1>14, Zenon DEF ReadInv

\* Every step keeps the invariant.
LEMMA ReadStep ==
    ASSUME ReadInv, ReadNext
    PROVE  ReadInv'
<1>1. Control'
  BY ControlStep, Zenon DEF ReadInv
<1> QED
  BY <1>1, DataStep, QueuesStep, SyncStep, ZenonT(30) DEF ReadInv

\* A step that changes nothing keeps the invariant.
LEMMA ReadStutter ==
    ASSUME ReadInv, UNCHANGED readVars
    PROVE  ReadInv'
  BY ZenonT(30) DEF ReadInv, readVars, readState, Control, Data, Queues, Own, EndsClosed

\* The invariant gives what the readers of a connection rely on.
LEMMA InvSound ==
    ASSUME ReadInv
    PROVE  StreamSound
<1>1. Control /\ Data /\ Queues
  BY Zenon DEF ReadInv
<1>2. /\ wire \in Bytes /\ firstData \in Bytes /\ buf \in Bytes /\ lastMsg \in Msg
      /\ sent \in Seq(Message) /\ decoded \in Seq(Message) /\ Len(firstData) <= Len(Own)
      /\ Kept(Reads(firstData, decoded, lastMsg, buf, wire), Own \o Stream(sent), ~broken)
  BY <1>1, Zenon DEF Data
<1>3. {sent, decoded, spawned, handled} \subseteq Seq(Message)
  BY <1>1, <1>2, Zenon DEF Queues
<1>4. ReadTypeOK
  BY <1>1, <1>2, <1>3, Zenon DEF ReadTypeOK, Control, Bytes, Msg
<1>5. EndsClosed
  BY <1>1, Zenon DEF Control
<1>6. Pieces(firstData, Stream(decoded), Taken(lastMsg), buf, wire) /\ Stream(sent) \in Bytes /\ Own \in Bytes
  BY <1>1, DataPieces, Zenon
<1> DEFINE r == Reads(firstData, decoded, lastMsg, buf, wire)
           w == Own \o Stream(sent)
<1>7. firstData \o Stream(decoded) \o Partial \o buf \o wire = r
  <2> DEFINE d == Stream(decoded)
             h == Taken(lastMsg)
  <2>1. /\ ((((firstData \o d) \o h) \o buf) \o wire) = firstData \o (d \o (h \o (buf \o wire)))
    <3>1. firstData \in Bytes /\ d \in Bytes /\ h \in Bytes /\ buf \in Bytes /\ wire \in Bytes
      BY <1>6, Zenon DEF Pieces
    <3> HIDE DEF d, h
    <3>2. firstData \o d \in Bytes
      BY <3>1, BytesJoin, Zenon
    <3>3. (firstData \o d) \o h \in Bytes
      BY <3>1, <3>2, BytesJoin, Zenon
    <3>4. (((firstData \o d) \o h) \o buf) \o wire = ((firstData \o d) \o h) \o (buf \o wire)
      <4>1. (firstData \o d) \o h \in Bytes /\ buf \in Bytes /\ wire \in Bytes
        BY <3>1, <3>3, Zenon
      <4> QED
        BY <4>1, BytesAssoc, Zenon
    <3>5. buf \o wire \in Bytes
      BY <3>1, BytesJoin, Zenon
    <3>6. ((firstData \o d) \o h) \o (buf \o wire) = (firstData \o d) \o (h \o (buf \o wire))
      <4>1. firstData \o d \in Bytes /\ h \in Bytes /\ buf \o wire \in Bytes
        BY <3>1, <3>2, <3>5, Zenon
      <4> QED
        BY <4>1, BytesAssoc, Zenon
    <3>7. h \o (buf \o wire) \in Bytes
      BY <3>1, <3>5, BytesJoin, Zenon
    <3>8. (firstData \o d) \o (h \o (buf \o wire)) = firstData \o (d \o (h \o (buf \o wire)))
      <4>1. firstData \in Bytes /\ d \in Bytes /\ h \o (buf \o wire) \in Bytes
        BY <3>1, <3>7, Zenon
      <4> QED
        BY <4>1, BytesAssoc, Zenon
    <3> QED
      BY <3>4, <3>6, <3>8, Zenon
  <2>2. Partial = h
    BY Zenon DEF Partial, Taken
  <2> QED
    BY <2>1, <2>2, Zenon DEF Reads
<1>8. PICK lost \in Bytes : r \o lost = w /\ (~broken => lost = <<>>)
  BY <1>2, Zenon DEF Kept
<1>9. r \in Bytes /\ w \in Bytes
  BY <1>2, <1>6, BytesJoin, Zenon DEF Kept
<1> HIDE DEF r, w
<1>10. r = SubSeq(w, 1, Len(r)) /\ (~broken => Len(r) = Len(w))
  <2>1. Len(w) = Len(r) + Len(lost) /\ Len(r) \in Nat /\ Len(lost) \in Nat
    BY <1>8, <1>9, BytesJoin, Zenon
  <2>2. Len(r) <= Len(w)
    BY <2>1
  <2>3. /\ SubSeq(w, 1, Len(r)) \in Bytes /\ From(w, Len(r) + 1) \in Bytes
        /\ SubSeq(w, 1, Len(r)) \o From(w, Len(r) + 1) = w /\ Len(SubSeq(w, 1, Len(r))) = Len(r)
    BY <1>9, <2>1, <2>2, CutWire, Zenon
  <2>4. r \o lost = SubSeq(w, 1, Len(r)) \o From(w, Len(r) + 1)
    BY <1>8, <2>3, Zenon
  <2> DEFINE p == SubSeq(w, 1, Len(r))
             q == From(w, Len(r) + 1)
  <2>5. p \in Bytes /\ q \in Bytes /\ r \o lost = p \o q /\ Len(r) = Len(p)
    BY <2>3, <2>4, Zenon
  <2> HIDE DEF p, q
  <2>6. r = p
    BY <1>9, <2>5, BytesCut, Zenon
  <2>7. ~broken => Len(r) = Len(w)
    BY <1>8, <1>9, BytesEmpty, Zenon
  <2> QED
    BY <2>6, <2>7, Zenon DEF p
<1>11. Len(firstData) <= Len(SessionId)
  <2>1. SessionId \in Bytes /\ Len(<<>>) = 0 /\ Own \in {SessionId, <<>>}
    BY ReadAssumption, EmptySeq, Zenon DEF Bytes, Own
  <2>2. Len(firstData) \in Nat /\ Len(SessionId) \in Nat
    BY <1>2, <2>1, BytesEmpty, Zenon
  <2> QED
    BY <1>2, <2>1, <2>2
<1>12. Framing
  BY <1>7, <1>10, <1>11, Zenon DEF Framing, w, Own
<1> QED
  BY <1>4, <1>5, <1>12, Zenon DEF StreamSound

-------------------------------------------------------------------------------
(* The whole messages at the front of a stream *)

\* Whether a whole message starts at i, which one, and where the next one starts.
Whole(s, i) == ~(Len(From(s, i)) < 5 \/ Len(From(s, i)) < 4 + Value(From(s, i)))
MessageAt(s, i) == <<From(s, i)[5], SubSeq(From(s, i), 6, 4 + Value(From(s, i)))>>
Behind(s, i) == i + 4 + Value(From(s, i))

Parts(s, w, low) ==
    [i \in low .. Len(s) + 1 |-> IF ~Whole(s, i) THEN <<>> ELSE <<MessageAt(s, i)>> \o w[Behind(s, i)]]

Parsed(s) == CHOOSE w : w = Parts(s, w, 1)

\* One digit more.
LEMMA OneDigit ==
    ASSUME NEW x \in Nat, NEW y \in Nat, NEW z \in Nat
    PROVE  x * y + z \in Nat
  OBVIOUS

\* Messages start one behind the other.
LEMMA BehindLater ==
    ASSUME NEW s \in Bytes, NEW i \in 1 .. Len(s) + 1, Whole(s, i)
    PROVE  Behind(s, i) \in i + 1 .. Len(s) + 1
<1> DEFINE t == From(s, i)
<1>1. Len(s) \in Nat /\ i - 1 \in 0 .. Len(s) /\ (i - 1) + 1 = i
  BY LenProperties DEF Bytes
<1>2. t \in Seq(Byte) /\ Len(t) = Len(s) - (i - 1)
  <2>0. s \in Seq(Byte)
    BY Zenon DEF Bytes
  <2>1. From(s, (i - 1) + 1) \in Seq(Byte) /\ Len(From(s, (i - 1) + 1)) = Len(s) - (i - 1)
    <3>1. Halves(Byte, s, i - 1)
      BY <1>1, <2>0, HalvesOf, Zenon
    <3> QED
      BY <3>1, Zenon DEF Halves
  <2> QED
    BY <1>1, <2>1, Zenon
<1>3. Len(t) \in Nat /\ ~(Len(t) < 5) /\ ~(Len(t) < 4 + Value(t)) /\ Behind(s, i) = i + 4 + Value(t)
  BY <1>2, LenProperties, Zenon DEF Whole, Behind
<1> HIDE DEF t
<1>4. 1 \in 1 .. Len(t) /\ 2 \in 1 .. Len(t) /\ 3 \in 1 .. Len(t) /\ 4 \in 1 .. Len(t)
  BY <1>3
<1>5. t[1] \in Byte /\ t[2] \in Byte /\ t[3] \in Byte /\ t[4] \in Byte
  BY <1>2, <1>4, ElementOfSeq, Zenon
<1>6. ByteBase \in Nat /\ \A x \in Byte : x \in Nat
  BY ReadAssumption DEF Byte
<1>7. Value(t) \in Nat
  <2>1. t[1] \in Nat /\ t[2] \in Nat /\ t[3] \in Nat /\ t[4] \in Nat
    BY <1>5, <1>6, Zenon
  <2>2. t[1] * ByteBase + t[2] \in Nat
    BY <1>6, <2>1, OneDigit, Zenon
  <2> DEFINE p == t[1] * ByteBase + t[2]
             q == p * ByteBase + t[3]
  <2>3. p \in Nat
    BY <2>2, Zenon
  <2> HIDE DEF p
  <2>4. q \in Nat
    BY <1>6, <2>1, <2>3, OneDigit, Zenon
  <2> HIDE DEF q
  <2>5. q * ByteBase + t[4] \in Nat
    BY <1>6, <2>1, <2>4, OneDigit, Zenon
  <2> QED
    BY <2>5, Zenon DEF Value, p, q
<1> QED
  BY <1>1, <1>2, <1>3, <1>7

\* The function by which Parse is defined exists.
LEMMA ParsedExists ==
    ASSUME NEW s \in Bytes
    PROVE  Parsed(s) = Parts(s, Parsed(s), 1)
<1> DEFINE N == Len(s) + 1
           S == {k \in 0 .. Len(s) : \E w : w = Parts(s, w, N - k)}
<1>1. Len(s) \in Nat /\ N \in Nat /\ N \in 1 .. N /\ N - 0 = N
  BY LenProperties DEF Bytes
<1>2. 0 \in S
  <2>1. ~Whole(s, N)
    <3>1. SUFFICES ASSUME Whole(s, N) PROVE FALSE
      BY Zenon
    <3>2. Behind(s, N) \in N + 1 .. N
      BY <1>1, <3>1, BehindLater, Zenon
    <3> QED
      BY <1>1, <3>2
  <2> DEFINE w == [i \in N .. N |-> <<>>]
  <2>2. \A i \in N .. N : i = N
    BY <1>1
  <2>3. w = Parts(s, w, N)
    BY <2>1, <2>2, Zenon DEF Parts
  <2>4. 0 \in 0 .. Len(s)
    BY <1>1
  <2> QED
    BY <1>1, <2>3, <2>4, Zenon
<1>3. ASSUME NEW k \in 1 .. Len(s), k - 1 \in S PROVE k \in S
  <2> DEFINE low == N - k
  <2>1. low \in 1 .. N /\ N - (k - 1) = low + 1 /\ low \in Nat /\ k \in 0 .. Len(s)
    BY <1>1
  <2>2. PICK w : w = Parts(s, w, low + 1)
    BY <1>3, <2>1, Zenon
  <2> DEFINE part(v, i) == IF ~Whole(s, i) THEN <<>> ELSE <<MessageAt(s, i)>> \o v[Behind(s, i)]
             x == [i \in low .. N |-> IF i # low THEN w[i] ELSE part(w, low)]
  <2> HIDE DEF low
  <2>3. ASSUME NEW i \in low .. N PROVE x[i] = part(x, i)
    <3>1. i \in 1 .. N
      BY <1>1, <2>1
    <3>2. Whole(s, i) => Behind(s, i) \in i + 1 .. N
      BY <3>1, BehindLater, Zenon
    <3>3. Whole(s, i) => Behind(s, i) \in low .. N /\ Behind(s, i) # low
      BY <1>1, <2>1, <3>1, <3>2
    <3>4. Whole(s, i) => x[Behind(s, i)] = w[Behind(s, i)]
      BY <3>3, Zenon
    <3>5. part(x, i) = part(w, i)
      <4> HIDE DEF x
      <4> QED
        BY <3>4, Zenon
    <3>6. x[i] = part(w, i)
      <4>1. CASE i = low
        BY <4>1, Zenon
      <4>2. CASE i # low
        <5>1. i \in low + 1 .. N
          BY <2>1, <4>2
        <5>2. w[i] = part(w, i)
          BY <2>2, <5>1, Zenon DEF Parts
        <5>3. x[i] = w[i]
          BY <4>2, Zenon
        <5> QED
          BY <5>2, <5>3, Zenon
      <4> QED
        BY <4>1, <4>2, Zenon
    <3> HIDE DEF part
    <3> QED
      BY <3>5, <3>6, Zenon
  <2>4. x = [i \in low .. N |-> x[i]]
    BY Zenon
  <2> HIDE DEF x
  <2>5. x = Parts(s, x, low)
    BY <2>3, <2>4, Zenon DEF Parts
  <2> QED
    BY <2>1, <2>5, Zenon DEF low
<1>4. Len(s) \in S
  <2>1. Len(s) \in 0 .. Len(s)
    BY <1>1
  <2> HIDE DEF S
  <2> QED
    BY <1>1, <1>2, <1>3, <2>1, StepByStep, Zenon
<1>5. N - Len(s) = 1
  BY <1>1
<1>6. \E w : w = Parts(s, w, 1)
  BY <1>4, <1>5, Zenon
<1> QED
  BY <1>6, Zenon DEF Parsed

\* The messages from i on.
LEMMA ParsedAt ==
    ASSUME NEW s \in Bytes
    PROVE  /\ Parse(s) = Parsed(s)[1]
           /\ \A i \in 1 .. Len(s) + 1 :
                 Parsed(s)[i] = IF ~Whole(s, i) THEN <<>> ELSE <<MessageAt(s, i)>> \o Parsed(s)[Behind(s, i)]
<1>1. \A i \in 1 .. Len(s) + 1 :
          Parsed(s)[i] = IF ~Whole(s, i) THEN <<>> ELSE <<MessageAt(s, i)>> \o Parsed(s)[Behind(s, i)]
  BY ParsedExists, Zenon DEF Parts
<1>2. Parse(s) = Parsed(s)[1]
  <2> DEFINE F(w) == [i \in 1 .. Len(s) + 1 |->
                        LET t == From(s, i) IN
                        IF Len(t) < 5 \/ Len(t) < 4 + Value(t) THEN <<>>
                        ELSE <<<<t[5], SubSeq(t, 6, 4 + Value(t))>>>> \o w[i + 4 + Value(t)]]
  <2>1. Parse(s) = (CHOOSE w : w = F(w))[1]
    BY Zenon DEF Parse
  <2>2. \A w : F(w) = Parts(s, w, 1)
    BY Zenon DEF Parts, Whole, MessageAt, Behind
  <2> HIDE DEF F
  <2>3. (CHOOSE w : w = F(w)) = Parsed(s)
    BY <2>2, Zenon DEF Parsed
  <2> QED
    BY <2>1, <2>3, Zenon
<1> QED
  BY <1>1, <1>2, Zenon

\* Where the message after the first k starts.
Start(msgs, k) == Len(Upto(msgs)[k])

\* The messages up to e, and no other, are whole in the bytes x that follow the
\* first d.
Arrived(msgs, d, x, e) ==
    /\ e \in d .. Len(msgs)
    /\ Start(msgs, e) <= Start(msgs, d) + Len(x)
    /\ e # Len(msgs) => Start(msgs, e + 1) > Start(msgs, d) + Len(x)

\* The length of a message.
LEMMA StartNext ==
    ASSUME NEW msgs \in Seq(Message), NEW k \in 0 .. Len(msgs), k # Len(msgs)
    PROVE  /\ k + 1 \in 1 .. Len(msgs) /\ msgs[k + 1] \in Message /\ Len(msgs[k + 1][2]) \in Nat
           /\ Start(msgs, k) \in Nat /\ Start(msgs, k + 1) = Start(msgs, k) + (5 + Len(msgs[k + 1][2]))
<1> DEFINE m == msgs[k + 1]
<1>1. k + 1 \in 1 .. Len(msgs) /\ (k + 1) - 1 = k
  BY LenProperties
<1>2. m \in Message
  BY <1>1, ElementOfSeq, Zenon
<1>3. Len(m[2]) \in Nat /\ Coded(m) \in Bytes /\ Len(Coded(m)) = 5 + Len(m[2])
  BY <1>2, MessageType, HeaderOf, Zenon
<1>4. Upto(msgs)[k] \in Bytes
  BY UptoBytes, Zenon
<1>5. Upto(msgs)[k + 1] = Upto(msgs)[k] \o Coded(m)
  BY <1>1, UptoIs, Zenon
<1> HIDE DEF m
<1>6. Len(Upto(msgs)[k] \o Coded(m)) = Len(Upto(msgs)[k]) + Len(Coded(m)) /\ Len(Upto(msgs)[k]) \in Nat
  BY <1>3, <1>4, BytesJoin, Zenon
<1> QED
  BY <1>1, <1>2, <1>3, <1>5, <1>6, Zenon DEF Start, m

\* Later messages start later.
LEMMA StartLater ==
    ASSUME NEW msgs \in Seq(Message), NEW j \in 0 .. Len(msgs), NEW k \in j .. Len(msgs)
    PROVE  Start(msgs, j) \in Nat /\ Start(msgs, k) \in Nat /\ Start(msgs, j) <= Start(msgs, k)
<1>1. k \in 0 .. Len(msgs)
  BY LenProperties
<1>2. Upto(msgs)[j] \in Bytes /\ Upto(msgs)[k] \in Bytes
  BY <1>1, UptoBytes, Zenon
<1>3. PICK c \in Bytes : Upto(msgs)[k] = Upto(msgs)[j] \o c
  BY UptoRest, Zenon
<1>4. /\ Len(Upto(msgs)[j] \o c) = Len(Upto(msgs)[j]) + Len(c) /\ Len(c) \in Nat /\ Len(Upto(msgs)[j]) \in Nat
  BY <1>2, <1>3, BytesJoin, Zenon
<1>5. /\ Start(msgs, k) = Start(msgs, j) + Len(c) /\ Start(msgs, j) \in Nat
  BY <1>3, <1>4, Zenon DEF Start
<1> QED
  BY <1>4, <1>5

\* Of the bytes x that follow the first d messages, those from the start of a later
\* message on.
LEMMA RunAt ==
    ASSUME NEW msgs, NEW d, NEW x, NEW lost, Follows(msgs, d, NewMsg, x, lost),
           NEW k \in d .. Len(msgs), Start(msgs, k) <= Start(msgs, d) + Len(x),
           NEW p, p = Start(msgs, k) - Start(msgs, d)
    PROVE  /\ p \in 0 .. Len(x) /\ Len(From(x, p + 1)) = Len(x) - p
           /\ Follows(msgs, k, NewMsg, From(x, p + 1), lost)
<1> DEFINE u == Upto(msgs)
           a == SubSeq(x, 1, p)
           t == From(x, p + 1)
<1>1. /\ msgs \in Seq(Message) /\ d \in 0 .. Len(msgs) /\ x \in Bytes /\ lost \in Bytes /\ NewMsg \in Msg
      /\ u[d] \o (Taken(NewMsg) \o (x \o lost)) = Stream(msgs)
  BY Zenon DEF Follows
<1>2. Len(msgs) \in Nat /\ k \in 0 .. Len(msgs) /\ Len(x) \in Nat
  BY <1>1, LenProperties DEF Bytes
<1>3. Start(msgs, d) \in Nat /\ Start(msgs, k) \in Nat /\ Start(msgs, d) <= Start(msgs, k)
  BY <1>1, StartLater, Zenon
<1>4. p \in 0 .. Len(x) /\ p \in Nat /\ p <= Len(x)
  BY <1>2, <1>3
<1>5. a \in Bytes /\ t \in Bytes /\ a \o t = x /\ Len(a) = p
  BY <1>1, <1>4, CutWire, Zenon
<1>6. Len(t) = Len(x) - p
  BY <1>1, <1>4, SplitAt, Zenon DEF Bytes
<1>7. PICK c \in Bytes : u[k] = u[d] \o c
  BY <1>1, UptoRest, Zenon
<1>8. u[d] \in Bytes /\ u[k] \in Bytes
  BY <1>1, <1>2, UptoBytes, Zenon
<1> HIDE DEF u, a, t
<1>9. Len(c) = Len(a)
  <2>1. Len(u[d] \o c) = Len(u[d]) + Len(c) /\ Len(c) \in Nat
    BY <1>7, <1>8, BytesJoin, Zenon
  <2>2. Start(msgs, k) = Start(msgs, d) + Len(c)
    BY <1>7, <2>1, Zenon DEF Start, u
  <2> QED
    BY <1>3, <1>5, <2>1, <2>2
<1>10. NewMsg.length = 0 /\ Taken(NewMsg) = <<>>
  BY NoBytes, Zenon DEF NewMsg
<1>11. x \o lost \in Bytes /\ t \o lost \in Bytes
  BY <1>1, <1>5, BytesJoin, Zenon
<1>12. <<>> \o (x \o lost) = x \o lost /\ <<>> \o (t \o lost) = t \o lost
  BY <1>11, BytesEmpty, Zenon
<1>13. u[d] \o (x \o lost) = Stream(msgs)
  BY <1>1, <1>10, <1>12, Zenon
<1>14. Len(msgs) \in k .. Len(msgs)
  BY <1>2
<1>15. PICK e \in Bytes : u[Len(msgs)] = u[k] \o e
  BY <1>1, <1>2, <1>14, UptoRest, Zenon DEF u
<1>16. Stream(msgs) = u[k] \o e
  BY <1>1, <1>15, UptoIs, Zenon DEF u
<1>17. c \o e \in Bytes /\ (u[d] \o c) \o e = u[d] \o (c \o e)
  <2>1. c \o e \in Bytes
    BY <1>7, <1>15, BytesJoin, Zenon
  <2>2. (u[d] \o c) \o e = u[d] \o (c \o e)
    <3>1. u[d] \in Bytes /\ c \in Bytes /\ e \in Bytes
      BY <1>7, <1>8, <1>15, Zenon
    <3> QED
      BY <3>1, BytesAssoc, Zenon
  <2> QED
    BY <2>1, <2>2, Zenon
<1>18. x \o lost = c \o e
  <2>1. u[d] \o (x \o lost) = u[d] \o (c \o e)
    BY <1>7, <1>13, <1>16, <1>17, Zenon
  <2> DEFINE v == x \o lost
             w == c \o e
  <2>2. v \in Bytes /\ w \in Bytes /\ u[d] \o v = u[d] \o w
    BY <1>11, <1>17, <2>1, Zenon
  <2> HIDE DEF v, w
  <2>3. v = w
    BY <1>8, <2>2, BytesCancel, Zenon
  <2> QED
    BY <2>3, Zenon DEF v, w
<1>19. t \o lost = e
  <2> DEFINE v == t \o lost
  <2>0. a \in Bytes /\ t \in Bytes /\ lost \in Bytes
    BY <1>1, <1>5, Zenon
  <2>1. (a \o t) \o lost = a \o v
    <3>1. Regroups(a, t, lost)
      BY <2>0, SeqRegroups, Zenon DEF Bytes
    <3> QED
      BY <3>1, Zenon DEF Regroups
  <2>2. a \o v = c \o e /\ v \in Bytes
    BY <1>5, <1>11, <1>18, <2>1, Zenon
  <2> HIDE DEF v
  <2>3. v = e
    BY <1>5, <1>9, <2>2, BytesCut, Zenon
  <2> QED
    BY <2>3, Zenon DEF v
<1>20. HeadOf(msgs, k, NewMsg)
  BY <1>10, Zenon DEF HeadOf
<1>21. Follows(msgs, k, NewMsg, t, lost)
  BY <1>1, <1>2, <1>5, <1>10, <1>12, <1>16, <1>19, <1>20, Zenon DEF Follows, u
<1> QED
  BY <1>4, <1>6, <1>21, Zenon DEF t

\* The front of a rest.
LEMMA FrontOfRest ==
    ASSUME NEW S, NEW s \in Seq(S), NEW k \in 0 .. Len(s), NEW n \in 0 .. Len(s) - k
    PROVE  SubSeq(From(s, k + 1), 1, n) = SubSeq(s, k + 1, k + n)
<1> DEFINE t == From(s, k + 1)
           a == SubSeq(t, 1, n)
           b == SubSeq(s, k + 1, k + n)
<1>1. Len(s) \in Nat /\ \A i \in k + 1 .. k + n : s[i] \in S
  BY LenProperties, ElementOfSeq
<1>2. t \in Seq(S) /\ Len(t) = Len(s) - k /\ \A i \in 1 .. Len(s) - k : t[i] = s[k + i]
  BY SplitAt, Zenon
<1> HIDE DEF t
<1>3. a \in Seq(S) /\ Len(a) = n /\ \A i \in 1 .. n : a[i] = t[i]
  <2>1. t \in Seq(S) /\ n \in 0 .. Len(t)
    BY <1>2, Zenon
  <2> QED
    BY <2>1, SplitAt, Zenon
<1>4. b \in Seq(S) /\ Len(b) = n /\ \A i \in 1 .. n : b[i] = s[k + i]
  <2>1. Middle(S, s, k, n)
    BY MiddleOf, Zenon
  <2> QED
    BY <2>1, Zenon DEF Middle
<1> HIDE DEF a, b
<1>5. \A i \in 1 .. n : i \in 1 .. Len(s) - k
  BY <1>1
<1>6. Len(a) = Len(b) /\ \A i \in 1 .. Len(a) : a[i] = b[i]
  BY <1>2, <1>3, <1>4, <1>5, Zenon
<1>7. a = b
  BY <1>3, <1>4, <1>6, SeqEqual, Zenon
<1> QED
  BY <1>7, Zenon DEF a, b, t

\* Whether the message after the first k is whole in the bytes t, and which it is.
Front(msgs, k, t) ==
    IF Len(t) < 5 \/ Len(t) < 4 + Value(t) THEN k # Len(msgs) => Len(t) < 5 + Len(msgs[k + 1][2])
    ELSE /\ k < Len(msgs) /\ Value(t) = Len(msgs[k + 1][2]) + 1
         /\ 4 + Value(t) = 5 + Len(msgs[k + 1][2])
         /\ <<t[5], SubSeq(t, 6, 4 + Value(t))>> = msgs[k + 1]

\* The bytes from the start of a message on start with it, if it is whole.
LEMMA FrontOfRun ==
    ASSUME NEW msgs, NEW k, NEW t, NEW lost, Follows(msgs, k, NewMsg, t, lost)
    PROVE  Front(msgs, k, t)
<1> DEFINE m == msgs[k + 1]
           n == Len(m[2])
<1>1. msgs \in Seq(Message) /\ k \in 0 .. Len(msgs) /\ t \in Bytes /\ lost \in Bytes
  BY Zenon DEF Follows
<1>2. Len(t) \in Nat /\ t \in Seq(Byte) /\ NewMsg.length = 0
  BY <1>1, LenProperties, Zenon DEF Bytes, NewMsg
<1>3. CASE Len(t) < 5
  <2>1. ASSUME k # Len(msgs) PROVE Len(t) < 5 + n
    <3>1. n \in Nat
      BY <1>1, <2>1, StartNext, Zenon
    <3> QED
      BY <1>2, <1>3, <3>1
  <2> QED
    BY <1>3, <2>1, Zenon DEF Front
<1>4. CASE ~(Len(t) < 5)
  <2>1. Len(t) >= 5
    BY <1>2, <1>4
  <2>2. FrontIs(msgs, k, t)
    BY <1>2, <2>1, HeaderFront, Zenon
  <2>3. k < Len(msgs) /\ m \in Message /\ Value(t) = n + 1 /\ t[5] = m[1]
    BY <2>2, Zenon DEF FrontIs
  <2>4. n \in Nat /\ m = <<m[1], m[2]>> /\ m[1] \in Byte
    BY <2>3, MessageType, Zenon
  <2>5. 4 + Value(t) = 5 + n /\ (n + 1) - 1 = n
    BY <2>3, <2>4
  <2>6. CASE Len(t) < 4 + Value(t)
    BY <2>5, <2>6, Zenon DEF Front
  <2>7. CASE ~(Len(t) < 4 + Value(t))
    <3> DEFINE head == [NewMsg EXCEPT !.length = Value(t), !.flag = t[5]]
               rest == From(t, 6)
               r == Decode(NewMsg, t)
    <3>1. r = Body(head, rest)
      BY <1>2, <2>1, Zenon DEF Decode
    <3>2. 5 \in 0 .. Len(t) /\ n \in 0 .. Len(t) - 5 /\ Len(t) - 5 >= n
      BY <1>2, <2>1, <2>4, <2>5, <2>7
    <3>3. Len(rest) = Len(t) - 5 /\ SubSeq(rest, 1, n) = SubSeq(t, 6, 5 + n)
      <4>1. Len(From(t, 5 + 1)) = Len(t) - 5
        BY <1>2, <3>2, SplitAt
      <4>2. SubSeq(From(t, 5 + 1), 1, n) = SubSeq(t, 5 + 1, 5 + n)
        BY <1>2, <3>2, FrontOfRest
      <4>3. 5 + 1 = 6
        OBVIOUS
      <4> QED
        BY <4>1, <4>2, <4>3, Zenon
    <3>4. head \in Msg /\ head.length = n + 1 /\ head.flag = m[1]
      <4>1. NewMsg \in Msg
        BY Zenon DEF Follows
      <4>2. Value(t) \in Nat /\ t[5] \in Byte
        BY <2>3, <2>4
      <4>3. head \in Msg /\ head.length = Value(t) /\ head.flag = t[5]
        BY <4>1, <4>2, Zenon DEF Msg
      <4> QED
        BY <2>3, <4>3, Zenon
    <3> HIDE DEF head
    <3>5. r = Result(TRUE, [head EXCEPT !.data = SubSeq(rest, 1, n)], From(rest, head.length))
      BY <2>5, <3>1, <3>2, <3>3, <3>4, Zenon DEF Body
    <3>6. r.ok = TRUE /\ r.msg.data = SubSeq(rest, 1, n) /\ r.msg.flag = m[1]
      <4> HIDE DEF r
      <4> QED
        BY <3>4, <3>5, Zenon DEF Result, Msg
    <3>7. Decoded(msgs, k, NewMsg, t, r)
      BY DecodeDecodes, Zenon
    <3> HIDE DEF r
    <3>8. <<r.msg.flag, r.msg.data>> = m
      BY <3>6, <3>7, Zenon DEF Decoded
    <3>9. <<t[5], SubSeq(t, 6, 4 + Value(t))>> = m
      BY <2>3, <2>5, <3>3, <3>6, <3>8, Zenon
    <3> QED
      BY <1>4, <2>3, <2>5, <2>7, <3>9, Zenon DEF Front
  <2> QED
    BY <2>6, <2>7, Zenon
<1> QED
  BY <1>3, <1>4, Zenon

\* The whole messages in a run of bytes are those that arrived.
LEMMA ParseRun ==
    ASSUME NEW msgs, NEW d, NEW x, NEW lost, Follows(msgs, d, NewMsg, x, lost),
           NEW e, Arrived(msgs, d, x, e)
    PROVE  Parse(x) = SubSeq(msgs, d + 1, e)
<1> DEFINE p(k) == Start(msgs, k) - Start(msgs, d)
           t(k) == From(x, p(k) + 1)
           S == {j \in 0 .. e - d : Parsed(x)[p(e - j) + 1] = SubSeq(msgs, (e - j) + 1, e)}
<1>1. msgs \in Seq(Message) /\ d \in 0 .. Len(msgs) /\ x \in Bytes
  BY Zenon DEF Follows
<1>2. /\ e \in d .. Len(msgs) /\ Start(msgs, e) <= Start(msgs, d) + Len(x)
      /\ e # Len(msgs) => Start(msgs, e + 1) > Start(msgs, d) + Len(x)
  BY Zenon DEF Arrived
<1>3. Len(msgs) \in Nat /\ d \in Nat /\ e \in Nat /\ e \in 0 .. Len(msgs) /\ e - d \in Nat /\ Len(x) \in Nat
  BY <1>1, <1>2, LenProperties DEF Bytes
<1>4. ASSUME NEW k \in d .. e
      PROVE  /\ p(k) \in 0 .. Len(x) /\ Len(t(k)) = Len(x) - p(k) /\ Front(msgs, k, t(k))
             /\ Start(msgs, k) \in Nat /\ Start(msgs, d) \in Nat
  <2>1. k \in d .. Len(msgs) /\ k \in 0 .. Len(msgs) /\ e \in k .. Len(msgs)
    BY <1>2, <1>3
  <2>2. /\ Start(msgs, k) \in Nat /\ Start(msgs, d) \in Nat /\ Start(msgs, e) \in Nat
        /\ Start(msgs, k) <= Start(msgs, e)
    BY <1>1, <2>1, StartLater, Zenon
  <2>3. Start(msgs, k) <= Start(msgs, d) + Len(x)
    BY <1>2, <1>3, <2>2
  <2>4. /\ p(k) \in 0 .. Len(x) /\ Len(t(k)) = Len(x) - p(k)
        /\ Follows(msgs, k, NewMsg, t(k), lost)
    BY <2>1, <2>3, RunAt, Zenon
  <2>5. Front(msgs, k, t(k))
    BY <2>4, FrontOfRun, Zenon
  <2> QED
    BY <2>2, <2>4, <2>5, Zenon
<1>5. /\ Parse(x) = Parsed(x)[1]
      /\ \A i \in 1 .. Len(x) + 1 :
            Parsed(x)[i] = IF ~Whole(x, i) THEN <<>> ELSE <<MessageAt(x, i)>> \o Parsed(x)[Behind(x, i)]
  BY <1>1, ParsedAt, Zenon
<1>6. 0 \in S
  <2>1. e \in d .. e /\ 0 \in 0 .. e - d /\ e - 0 = e /\ e < e + 1
    BY <1>3
  <2>2. /\ p(e) \in 0 .. Len(x) /\ Len(t(e)) = Len(x) - p(e) /\ Front(msgs, e, t(e))
        /\ Start(msgs, e) \in Nat /\ Start(msgs, d) \in Nat
    BY <1>4, <2>1, Zenon
  <2>3. p(e) + 1 \in 1 .. Len(x) + 1
    BY <1>3, <2>2
  <2>4. ~Whole(x, p(e) + 1)
    <3>1. SUFFICES ASSUME ~(Len(t(e)) < 5 \/ Len(t(e)) < 4 + Value(t(e))) PROVE FALSE
      BY Zenon DEF Whole
    <3>2. e < Len(msgs) /\ 4 + Value(t(e)) = 5 + Len(msgs[e + 1][2])
      BY <2>2, <3>1, Zenon DEF Front
    <3>3. e # Len(msgs)
      BY <1>3, <3>2
    <3>4. Len(msgs[e + 1][2]) \in Nat /\ Start(msgs, e + 1) = Start(msgs, e) + (5 + Len(msgs[e + 1][2]))
      BY <1>1, <1>3, <3>3, StartNext, Zenon
    <3>5. Len(t(e)) \in Nat /\ ~(Len(t(e)) < 5 + Len(msgs[e + 1][2]))
      BY <1>3, <2>2, <3>1, <3>2
    <3> DEFINE a == Start(msgs, d)
               b == Start(msgs, e)
               c == Start(msgs, e + 1)
               n == Len(msgs[e + 1][2])
               l == Len(t(e))
    <3>6. /\ a \in Nat /\ b \in Nat /\ n \in Nat /\ c = b + (5 + n) /\ ~(l < 5 + n)
          /\ l = Len(x) - (b - a) /\ c > a + Len(x)
      BY <1>2, <2>2, <3>3, <3>4, <3>5, Zenon
    <3> HIDE DEF a, b, c, n, l
    <3> QED
      BY <1>3, <3>6
  <2>5. Parsed(x)[p(e) + 1] = <<>>
    BY <1>5, <2>3, <2>4, Zenon
  <2>6. SubSeq(msgs, e + 1, e) = <<>>
    BY <1>3, SubSeqEmpty
  <2> QED
    BY <2>1, <2>5, <2>6, Zenon
<1>7. ASSUME NEW j \in 1 .. e - d, j - 1 \in S PROVE j \in S
  <2> DEFINE k == e - j
  <2>1. /\ k \in d .. e /\ e - (j - 1) = k + 1 /\ k + 1 \in d .. e /\ j \in 0 .. e - d
        /\ k + 1 \in 1 .. Len(msgs) /\ e \in k + 1 .. Len(msgs) /\ k # Len(msgs) /\ k \in 0 .. Len(msgs)
    BY <1>2, <1>3
  <2>2. Parsed(x)[p(k + 1) + 1] = SubSeq(msgs, (k + 1) + 1, e)
    BY <1>7, <2>1, Zenon
  <2> HIDE DEF k
  <2>3. /\ p(k) \in 0 .. Len(x) /\ Len(t(k)) = Len(x) - p(k) /\ Front(msgs, k, t(k))
        /\ Start(msgs, k) \in Nat /\ Start(msgs, d) \in Nat
    BY <1>4, <2>1, Zenon
  <2>4. p(k + 1) \in 0 .. Len(x) /\ Start(msgs, k + 1) \in Nat
    BY <1>4, <2>1, Zenon
  <2>5. Len(msgs[k + 1][2]) \in Nat /\ Start(msgs, k + 1) = Start(msgs, k) + (5 + Len(msgs[k + 1][2]))
    BY <1>1, <2>1, StartNext, Zenon
  <2>6. p(k) + 1 \in 1 .. Len(x) + 1
    BY <1>3, <2>3
  <2> DEFINE a == Start(msgs, d)
             b == Start(msgs, k)
             c == Start(msgs, k + 1)
             n == Len(msgs[k + 1][2])
             l == Len(t(k))
  <2>7. ~(Len(t(k)) < 5 + Len(msgs[k + 1][2]))
    <3>1. /\ a \in Nat /\ b \in Nat /\ n \in Nat /\ c = b + (5 + n)
          /\ l = Len(x) - (b - a) /\ c - a \in 0 .. Len(x)
      BY <2>3, <2>4, <2>5, Zenon
    <3>2. ~(l < 5 + n)
      <4> HIDE DEF a, b, c, n, l
      <4> QED
        BY <1>3, <3>1
    <3> QED
      BY <3>2, Zenon
  <2>8. ~(Len(t(k)) < 5 \/ Len(t(k)) < 4 + Value(t(k)))
    BY <2>1, <2>3, <2>7, Zenon DEF Front
  <2>9. /\ Value(t(k)) = Len(msgs[k + 1][2]) + 1
        /\ <<t(k)[5], SubSeq(t(k), 6, 4 + Value(t(k)))>> = msgs[k + 1]
    BY <2>3, <2>8, Zenon DEF Front
  <2>10. Whole(x, p(k) + 1) /\ MessageAt(x, p(k) + 1) = msgs[k + 1]
    BY <2>8, <2>9, Zenon DEF Whole, MessageAt
  <2>11. Behind(x, p(k) + 1) = p(k + 1) + 1
    <3>1. Behind(x, p(k) + 1) = (p(k) + 1) + 4 + Value(t(k))
      BY Zenon DEF Behind
    <3> DEFINE v == Value(t(k))
               w == Behind(x, p(k) + 1)
    <3>2. a \in Nat /\ b \in Nat /\ n \in Nat /\ c = b + (5 + n) /\ v = n + 1 /\ w = ((b - a) + 1) + 4 + v
      BY <2>3, <2>5, <2>9, <3>1, Zenon
    <3>3. w = (c - a) + 1
      <4> HIDE DEF a, b, c, n, v, w
      <4> QED
        BY <3>2
    <3> QED
      BY <3>3, Zenon
  <2>12. Parsed(x)[p(k) + 1] = <<msgs[k + 1]>> \o SubSeq(msgs, (k + 1) + 1, e)
    BY <1>5, <2>2, <2>6, <2>10, <2>11, Zenon
  <2>13. SubSeq(msgs, k + 1, e) = <<msgs[k + 1]>> \o SubSeq(msgs, (k + 1) + 1, e)
    BY <1>1, <2>1, SubSeqRecursiveFirst, Zenon
  <2> QED
    BY <2>1, <2>12, <2>13, Zenon DEF k
<1>8. e - d \in S
  <2>1. e - d \in 0 .. e - d
    BY <1>3
  <2> HIDE DEF S
  <2> QED
    BY <1>3, <1>6, <1>7, <2>1, StepByStep, Zenon
<1>9. e - (e - d) = d /\ p(d) + 1 = 1
  <2>1. Start(msgs, d) \in Nat
    BY <1>2, <1>1, StartLater, Zenon
  <2> QED
    BY <1>3, <2>1
<1>10. Parsed(x)[p(d) + 1] = SubSeq(msgs, d + 1, e)
  BY <1>8, <1>9, Zenon
<1> QED
  BY <1>5, <1>9, <1>10, Zenon

\* Some messages arrived whole.
LEMMA Arrives ==
    ASSUME NEW msgs \in Seq(Message), NEW d \in 0 .. Len(msgs), NEW x \in Bytes
    PROVE  \E e : Arrived(msgs, d, x, e)
<1> DEFINE T == Start(msgs, d) + Len(x)
           B == {k \in d .. Len(msgs) : Start(msgs, k) > T}
<1>1. Len(msgs) \in Nat /\ Len(x) \in Nat /\ d \in d .. Len(msgs) /\ Len(msgs) \in d .. Len(msgs)
  BY LenProperties DEF Bytes
<1>2. \A k \in d .. Len(msgs) : Start(msgs, k) \in Nat
  BY StartLater, Zenon
<1>3. T \in Nat /\ ~(Start(msgs, d) > T)
  BY <1>1, <1>2
<1> HIDE DEF T
<1>4. CASE B = {}
  <2>1. ~(Start(msgs, Len(msgs)) > T)
    BY <1>1, <1>4, Zenon
  <2>2. Start(msgs, Len(msgs)) <= T
    BY <1>1, <1>2, <1>3, <2>1
  <2> QED
    BY <1>1, <2>2, Zenon DEF Arrived, T
<1>5. CASE B # {}
  <2>1. B \in SUBSET Nat
    BY <1>1
  <2>2. PICK k \in B : \A y \in B : k <= y
    <3> HIDE DEF B
    <3> QED
      BY <1>5, <2>1, Least, Zenon
  <2>3. k \in d .. Len(msgs) /\ Start(msgs, k) > T
    BY <2>2, Zenon
  <2>4. k # d
    BY <1>3, <2>3, Zenon
  <2>5. k - 1 \in d .. Len(msgs) /\ (k - 1) + 1 = k /\ ~(k <= k - 1)
    BY <1>1, <2>3, <2>4
  <2>6. ~(Start(msgs, k - 1) > T)
    BY <2>2, <2>5, Zenon
  <2>7. Start(msgs, k - 1) <= T
    BY <1>2, <1>3, <2>5, <2>6
  <2>8. Arrived(msgs, d, x, k - 1)
    BY <2>3, <2>5, <2>7, Zenon DEF Arrived, T
  <2> QED
    BY <2>8, Zenon
<1> QED
  BY <1>4, <1>5, Zenon

\* More bytes, no fewer messages.
LEMMA ArrivedMore ==
    ASSUME NEW msgs \in Seq(Message), NEW d \in 0 .. Len(msgs), NEW x \in Bytes, NEW e, Arrived(msgs, d, x, e),
           NEW f \in 0 .. Len(msgs), NEW y \in Bytes, NEW g, Arrived(msgs, f, y, g),
           Start(msgs, d) + Len(x) <= Start(msgs, f) + Len(y)
    PROVE  e <= g
<1>1. /\ e \in d .. Len(msgs) /\ Start(msgs, e) <= Start(msgs, d) + Len(x)
      /\ g \in f .. Len(msgs) /\ (g # Len(msgs) => Start(msgs, g + 1) > Start(msgs, f) + Len(y))
  BY Zenon DEF Arrived
<1>2. Len(msgs) \in Nat /\ Len(x) \in Nat /\ Len(y) \in Nat /\ e \in 0 .. Len(msgs) /\ g \in 0 .. Len(msgs)
  BY <1>1, LenProperties DEF Bytes
<1>3. SUFFICES ASSUME g < e PROVE FALSE
  BY <1>2
<1>4. g # Len(msgs) /\ g + 1 \in 0 .. Len(msgs) /\ e \in g + 1 .. Len(msgs)
  BY <1>2, <1>3
<1>5. Start(msgs, g + 1) \in Nat /\ Start(msgs, e) \in Nat /\ Start(msgs, g + 1) <= Start(msgs, e)
  BY <1>4, StartLater, Zenon
<1>6. Start(msgs, d) \in Nat /\ Start(msgs, f) \in Nat
  BY <1>1, StartLater, Zenon
<1>7. Start(msgs, g + 1) > Start(msgs, f) + Len(y)
  BY <1>1, <1>4, Zenon
<1> DEFINE a == Start(msgs, d) + Len(x)
           b == Start(msgs, f) + Len(y)
           c == Start(msgs, g + 1)
           h == Start(msgs, e)
<1>8. a \in Nat /\ b \in Nat
  BY <1>2, <1>6
<1>9. a <= b /\ h <= a /\ c > b /\ c <= h /\ c \in Nat /\ h \in Nat
  BY <1>1, <1>5, <1>7, Zenon
<1> HIDE DEF a, b, c, h
<1> QED
  BY <1>8, <1>9

\* All messages arrive if nothing is lost.
LEMMA ArrivedAll ==
    ASSUME NEW msgs, NEW d, NEW x, Follows(msgs, d, NewMsg, x, <<>>), NEW e, Arrived(msgs, d, x, e)
    PROVE  e = Len(msgs)
<1>1. /\ msgs \in Seq(Message) /\ d \in 0 .. Len(msgs) /\ x \in Bytes
      /\ Upto(msgs)[d] \o (Taken(NewMsg) \o (x \o <<>>)) = Stream(msgs)
  BY Zenon DEF Follows
<1>2. x \o <<>> = x /\ <<>> \o x = x /\ Taken(NewMsg) = <<>>
  BY <1>1, BytesEmpty, NoBytes, Zenon
<1>3. Len(msgs) \in Nat /\ Len(msgs) \in 0 .. Len(msgs) /\ Len(x) \in Nat
  BY <1>1, LenProperties DEF Bytes
<1>4. Upto(msgs)[d] \in Bytes /\ Upto(msgs)[Len(msgs)] = Stream(msgs)
  BY <1>1, <1>3, UptoBytes, UptoIs, Zenon
<1>5. Upto(msgs)[d] \o x = Upto(msgs)[Len(msgs)]
  BY <1>1, <1>2, <1>4, Zenon
<1>6. Len(Upto(msgs)[d] \o x) = Len(Upto(msgs)[d]) + Len(x)
  BY <1>1, <1>4, BytesJoin, Zenon
<1>7. Start(msgs, Len(msgs)) = Start(msgs, d) + Len(x)
  BY <1>5, <1>6, Zenon DEF Start
<1>8. /\ e \in d .. Len(msgs) /\ (e # Len(msgs) => Start(msgs, e + 1) > Start(msgs, d) + Len(x))
  BY Zenon DEF Arrived
<1>9. SUFFICES ASSUME e # Len(msgs) PROVE FALSE
  BY Zenon
<1>10. e + 1 \in 0 .. Len(msgs) /\ Len(msgs) \in e + 1 .. Len(msgs)
  BY <1>1, <1>3, <1>8, <1>9
<1>11. /\ Start(msgs, e + 1) \in Nat /\ Start(msgs, Len(msgs)) \in Nat
       /\ Start(msgs, e + 1) <= Start(msgs, Len(msgs))
  BY <1>1, <1>10, StartLater, Zenon
<1>12. Start(msgs, e + 1) > Start(msgs, Len(msgs))
  BY <1>7, <1>8, <1>9, Zenon
<1> QED
  BY <1>11, <1>12

-------------------------------------------------------------------------------
(* The message channel *)

\* The bytes of the session id that are still on the wire, what is there behind
\* them, and the bytes of the messages not decoded yet.
Missing == IF isClient THEN FirstDataLen ELSE 0
Coming == From(wire, Missing + 1)
Ahead == Partial \o buf \o Coming
Pending == spawned \o Parse(Ahead)

\* What is on the wire behind the session id.
LEMMA ComingIs ==
    ASSUME Data
    PROVE  /\ Missing \in Nat /\ Missing = Len(Own) - Len(firstData) /\ Coming \in Bytes
           /\ Missing > Len(wire) => Coming = <<>>
           /\ wire = <<>> => Coming = <<>>
           /\ Len(firstData) = Len(Own) => Coming = wire
<1>1. wire \in Bytes /\ firstData \in Bytes /\ Len(firstData) <= Len(Own) /\ Own \in Bytes
  BY OwnBytes, Zenon DEF Data
<1>2. Len(wire) \in Nat /\ Len(firstData) \in Nat /\ Len(Own) \in Nat /\ Len(<<>>) = 0
  BY <1>1, LenProperties, Zenon DEF Bytes
<1>3. Missing \in Nat /\ Missing = Len(Own) - Len(firstData)
  <2>1. CASE isClient
    <3>1. Own = SessionId /\ Missing = Len(SessionId) - Len(firstData)
      BY <2>1, Zenon DEF Own, Missing, FirstDataLen
    <3> QED
      BY <1>1, <1>2, <3>1
  <2>2. CASE ~isClient
    <3>1. Own = <<>> /\ Missing = 0
      BY <2>2, Zenon DEF Own, Missing
    <3> QED
      BY <1>1, <1>2, <3>1
  <2> QED
    BY <2>1, <2>2, Zenon
<1>4. ASSUME Missing >= Len(wire) PROVE Coming = <<>>
  <2>1. Missing + 1 \in Int /\ Len(wire) \in Int /\ Len(wire) < Missing + 1
    BY <1>2, <1>3, <1>4
  <2> QED
    BY <2>1, SubSeqEmpty, Zenon DEF Coming, From
<1>5. Missing > Len(wire) => Coming = <<>>
  BY <1>2, <1>3, <1>4
<1>6. wire = <<>> => Coming = <<>>
  <2>1. wire = <<>> => Missing >= Len(wire)
    BY <1>2, <1>3
  <2> QED
    BY <1>4, <2>1, Zenon
<1>7. Coming \in Bytes
  <2>1. CASE Missing <= Len(wire)
    BY <1>1, <1>3, <2>1, CutWire, Zenon DEF Coming
  <2>2. CASE ~(Missing <= Len(wire))
    <3>1. Missing > Len(wire)
      BY <1>2, <1>3, <2>2
    <3> QED
      BY <1>5, <3>1, NoBytes, Zenon
  <2> QED
    BY <2>1, <2>2, Zenon
<1>8. Len(firstData) = Len(Own) => Coming = wire
  <2>1. SUFFICES ASSUME Len(firstData) = Len(Own) PROVE Coming = wire
    BY Zenon
  <2>2. Missing + 1 = 1
    BY <1>2, <1>3, <2>1
  <2>3. SubSeq(wire, 1, Len(wire)) = wire
    BY <1>1, SubSeqFull, Zenon DEF Bytes
  <2> QED
    BY <2>2, <2>3, Zenon DEF Coming, From
<1> QED
  BY <1>3, <1>5, <1>6, <1>7, <1>8, Zenon

\* The bytes ahead, and how many there are.
LEMMA AheadBytes ==
    ASSUME Data
    PROVE  /\ Ahead = (Taken(lastMsg) \o buf) \o Coming /\ Ahead \in Bytes
           /\ Len(Ahead) = Len(Taken(lastMsg) \o buf) + Len(Coming)
           /\ Len(Taken(lastMsg) \o buf) \in Nat /\ Len(Coming) \in Nat
<1>1. Taken(lastMsg) \in Bytes /\ buf \in Bytes /\ Coming \in Bytes
  BY TakenBytes, ComingIs, Zenon DEF Data
<1> DEFINE a == Taken(lastMsg) \o buf
<1>2. a \in Bytes
  BY <1>1, BytesJoin, Zenon
<1>3. Ahead = a \o Coming
  BY Zenon DEF Ahead, Partial, Taken
<1> HIDE DEF a
<1>4. a \o Coming \in Bytes /\ Len(a \o Coming) = Len(a) + Len(Coming) /\ Len(a) \in Nat /\ Len(Coming) \in Nat
  BY <1>1, <1>2, BytesJoin, Zenon
<1> QED
  BY <1>3, <1>4, Zenon DEF a

\* The bytes ahead are those that follow the decoded messages.
LEMMA AheadFollows ==
    ASSUME Data
    PROVE  \E lost : Follows(sent, Len(decoded), NewMsg, Ahead, lost) /\ (~broken => lost = <<>>)
<1> DEFINE n == Len(decoded)
           u == Upto(sent)[n]
           h == Taken(lastMsg)
<1>1. /\ wire \in Bytes /\ firstData \in Bytes /\ buf \in Bytes /\ lastMsg \in Msg
      /\ sent \in Seq(Message) /\ decoded \in Seq(Message) /\ Copied(decoded, sent)
  BY Zenon DEF Data
<1>2. n \in Nat /\ Len(sent) \in Nat /\ n \in 0 .. Len(sent)
  <2>1. n <= Len(sent)
    BY <1>1, Zenon DEF Copied
  <2> QED
    BY <1>1, <2>1, LenProperties
<1>3. NewMsg \in Msg /\ HeadOf(sent, n, NewMsg) /\ Taken(NewMsg) = <<>>
  BY NoBytes, NewMsgType, Zenon DEF HeadOf
<1>4. Ahead = (h \o buf) \o Coming /\ Ahead \in Bytes
  BY AheadBytes, Zenon
<1>5. ASSUME NEW lost \in Bytes, u \o (Ahead \o lost) = Stream(sent)
      PROVE  Follows(sent, n, NewMsg, Ahead, lost)
  <2>1. Ahead \o lost \in Bytes
    BY <1>4, BytesJoin, Zenon
  <2>2. <<>> \o (Ahead \o lost) = Ahead \o lost
    BY <2>1, BytesEmpty, Zenon
  <2> QED
    BY <1>1, <1>2, <1>3, <1>4, <1>5, <2>2, Zenon DEF Follows
<1>6. CASE Len(firstData) = Len(Own)
  <2>1. PICK lost \in Bytes : Follows(sent, n, lastMsg, buf, wire \o lost) /\ (~broken => lost = <<>>)
    BY <1>6, DataFollows, Zenon
  <2>2. u \o (h \o (buf \o (wire \o lost))) = Stream(sent)
    BY <2>1, Zenon DEF Follows
  <2>3. Coming = wire
    BY <1>6, ComingIs, Zenon
  <2>4. h \in Bytes
    BY <1>1, TakenBytes, Zenon
  <2> HIDE DEF h
  <2> DEFINE a == h \o buf
  <2>5. a \in Bytes
    BY <1>1, <2>4, BytesJoin, Zenon
  <2>6. wire \o lost \in Bytes
    BY <1>1, <2>1, BytesJoin, Zenon
  <2>7. a \o (wire \o lost) = h \o (buf \o (wire \o lost))
    <3> DEFINE x == wire \o lost
    <3>1. x \in Bytes
      BY <2>6, Zenon
    <3> HIDE DEF x
    <3>2. (h \o buf) \o x = h \o (buf \o x)
      <4>1. h \in Bytes /\ buf \in Bytes /\ x \in Bytes
        BY <1>1, <2>4, <3>1, Zenon
      <4> QED
        BY <4>1, BytesAssoc, Zenon
    <3> QED
      BY <3>2, Zenon DEF x
  <2> HIDE DEF a
  <2>8. (a \o wire) \o lost = a \o (wire \o lost)
    BY <1>1, <2>1, <2>5, BytesAssoc, Zenon
  <2>9. u \o (Ahead \o lost) = Stream(sent)
    BY <1>4, <2>2, <2>3, <2>7, <2>8, Zenon DEF a
  <2> QED
    BY <1>5, <2>1, <2>9, Zenon
<1>7. CASE Len(firstData) # Len(Own)
  <2>1. decoded = <<>> /\ buf = <<>> /\ lastMsg = NewMsg
    BY <1>7, Zenon DEF Data
  <2>2. Kept(Reads(firstData, decoded, lastMsg, buf, wire), Own \o Stream(sent), ~broken)
    BY Zenon DEF Data
  <2>3. Reads(firstData, decoded, lastMsg, buf, wire) = firstData \o wire
    BY <1>1, <2>1, NoBytes, BytesEmpty, Zenon DEF Reads
  <2>4. PICK lost \in Bytes : (firstData \o wire) \o lost = Own \o Stream(sent) /\ (~broken => lost = <<>>)
    BY <2>2, <2>3, Zenon DEF Kept
  <2>5. Ahead = Coming
    <3>1. h = <<>> /\ <<>> \o <<>> = <<>> /\ <<>> \o Coming = Coming
      BY <2>1, NoBytes, ComingIs, BytesEmpty, Zenon
    <3> QED
      BY <1>4, <2>1, <3>1, Zenon
  <2>6. u = <<>> /\ Stream(sent) \in Bytes /\ Own \in Bytes
    <3>1. n = 0
      BY <2>1, Zenon
    <3> QED
      BY <1>1, <1>2, <3>1, UptoIs, StreamBytes, OwnBytes, Zenon
  <2>7. /\ Missing \in Nat /\ Missing = Len(Own) - Len(firstData) /\ Coming \in Bytes
        /\ Missing > Len(wire) => Coming = <<>>
    BY ComingIs, Zenon
  <2>8. Len(Own) \in Nat /\ Len(firstData) \in Nat /\ Len(wire) \in Nat
    BY <1>1, <2>6, LenProperties, Zenon DEF Bytes
  <2>9. ASSUME Missing <= Len(wire) PROVE Coming \o lost = Stream(sent)
    <3> DEFINE x == SubSeq(wire, 1, Missing)
               f == firstData \o x
               y == Coming \o lost
               ss == Stream(sent)
    <3>1. x \in Bytes /\ x \o Coming = wire /\ Len(x) = Missing
      BY <1>1, <2>7, <2>9, CutWire, Zenon DEF Coming
    <3> HIDE DEF x
    <3>2. f \in Bytes /\ Len(f) = Len(firstData) + Len(x)
      BY <1>1, <3>1, BytesJoin, Zenon
    <3>3. Len(f) = Len(Own)
      BY <2>7, <2>8, <3>1, <3>2
    <3>4. f \o Coming = firstData \o wire
      <4>1. firstData \in Bytes /\ x \in Bytes /\ Coming \in Bytes
        BY <1>1, <2>7, <3>1, Zenon
      <4>2. (firstData \o x) \o Coming = firstData \o (x \o Coming)
        BY <4>1, BytesAssoc, Zenon
      <4> QED
        BY <3>1, <4>2, Zenon
    <3> HIDE DEF f
    <3>5. (f \o Coming) \o lost = f \o y
      BY <2>4, <2>7, <3>2, BytesAssoc, Zenon
    <3>6. y \in Bytes
      BY <2>4, <2>7, BytesJoin, Zenon
    <3>7. f \o y = Own \o ss /\ ss \in Bytes
      BY <2>4, <2>6, <3>4, <3>5, Zenon
    <3> HIDE DEF y, ss
    <3>8. y = ss
      BY <2>6, <3>2, <3>3, <3>6, <3>7, BytesCut, Zenon
    <3> QED
      BY <3>8, Zenon DEF y, ss
  <2>10. CASE Missing <= Len(wire)
    <3>1. <<>> \o (Coming \o lost) = Coming \o lost
      BY <2>4, <2>7, BytesJoin, BytesEmpty, Zenon
    <3>2. u \o (Ahead \o lost) = Stream(sent)
      BY <2>5, <2>6, <2>9, <2>10, <3>1, Zenon
    <3> QED
      BY <1>5, <2>4, <3>2, Zenon
  <2>11. CASE ~(Missing <= Len(wire))
    <3>1. Missing > Len(wire)
      BY <2>7, <2>8, <2>11
    <3>2. Coming = <<>>
      BY <2>7, <3>1, Zenon
    <3>3. <<>> \o (<<>> \o Stream(sent)) = Stream(sent)
      BY <2>6, BytesEmpty, Zenon
    <3>4. Follows(sent, n, NewMsg, Ahead, Stream(sent))
      BY <1>5, <2>5, <2>6, <3>2, <3>3, Zenon
    <3>5. broken
      <4>1. SUFFICES ASSUME ~broken PROVE FALSE
        BY Zenon
      <4>2. firstData \o wire \in Bytes /\ Len(firstData \o wire) = Len(firstData) + Len(wire)
        BY <1>1, BytesJoin, Zenon
      <4>3. firstData \o wire = Own \o Stream(sent)
        BY <2>4, <4>1, <4>2, BytesEmpty, Zenon
      <4>4. Len(Own \o Stream(sent)) = Len(Own) + Len(Stream(sent)) /\ Len(Stream(sent)) \in Nat
        BY <2>6, BytesJoin, Zenon
      <4>5. Len(firstData) + Len(wire) = Len(Own) + Len(Stream(sent))
        BY <4>2, <4>3, <4>4, Zenon
      <4> QED
        BY <2>7, <2>8, <3>1, <4>4, <4>5
    <3> QED
      BY <3>4, <3>5, Zenon
  <2> QED
    BY <2>10, <2>11, Zenon
<1> QED
  BY <1>6, <1>7, Zenon

\* The messages ahead are the whole ones that follow the decoded messages; unless
\* the connection broke, all of them.
Whence(e) ==
    /\ sent \in Seq(Message) /\ Len(decoded) \in 0 .. Len(sent) /\ Ahead \in Bytes
    /\ Arrived(sent, Len(decoded), Ahead, e) /\ e \in Len(decoded) .. Len(sent)
    /\ Pending = spawned \o SubSeq(sent, Len(decoded) + 1, e)
    /\ ~broken => e = Len(sent)

\* Such messages are pending in every state.
LEMMA PendingIs ==
    Data => \E e : Whence(e)
<1> SUFFICES ASSUME Data PROVE \E e : Whence(e)
  BY Zenon
<1>1. PICK lost : Follows(sent, Len(decoded), NewMsg, Ahead, lost) /\ (~broken => lost = <<>>)
  BY AheadFollows, Zenon
<1>2. sent \in Seq(Message) /\ Len(decoded) \in 0 .. Len(sent) /\ Ahead \in Bytes
  BY <1>1, Zenon DEF Follows
<1>3. PICK e : Arrived(sent, Len(decoded), Ahead, e)
  BY <1>2, Arrives, Zenon
<1>4. Parse(Ahead) = SubSeq(sent, Len(decoded) + 1, e)
  BY <1>1, <1>3, ParseRun, Zenon
<1>5. e \in Len(decoded) .. Len(sent)
  BY <1>3, Zenon DEF Arrived
<1>6. ~broken => e = Len(sent)
  BY <1>1, <1>3, ArrivedAll, Zenon
<1>7. Whence(e)
  BY <1>2, <1>3, <1>4, <1>5, <1>6, Zenon DEF Whence, Pending
<1> QED
  BY <1>7, Zenon

\* The same of the next state.
LEMMA PendingNext ==
    Data' => (\E e : Whence(e))'
  BY PendingIs, PTL

\* Three sequences one behind the other.
Associative(T) == \A a, b, c \in T : (a \o b) \o c = a \o (b \o c)

\* Sequences can be joined in any order.
LEMMA SeqAssoc ==
    ASSUME NEW S
    PROVE  Associative(Seq(S))
  BY ConcatAssociative DEF Associative

\* A cut in the first of two sequences.
LEMMA CutFirst ==
    ASSUME NEW S, NEW q \in Seq(S), NEW r \in Seq(S), NEW n \in 0 .. Len(q)
    PROVE  SubSeq(q \o r, 1, n) = SubSeq(q, 1, n) /\ From(q \o r, n + 1) = From(q, n + 1) \o r
<1> DEFINE z == q \o r
           a == SubSeq(q, 1, n)
           b == From(q, n + 1)
           c == SubSeq(z, 1, n)
           d == From(z, n + 1)
           y == b \o r
<1>1. z \in Seq(S) /\ Len(z) = Len(q) + Len(r)
  BY ConcatProperties, Zenon
<1>2. n \in 0 .. Len(z)
  BY <1>1, LenProperties
<1>3. a \in Seq(S) /\ b \in Seq(S) /\ Len(a) = n /\ a \o b = q
  BY SplitAt, Zenon
<1>4. c \in Seq(S) /\ d \in Seq(S) /\ Len(c) = n /\ c \o d = z
  <2> HIDE DEF z
  <2> QED
    BY <1>1, <1>2, SplitAt, Zenon
<1> HIDE DEF a, b, c, d
<1>5. y \in Seq(S) /\ (a \o b) \o r = a \o y
  <2>1. y \in Seq(S)
    BY <1>3, ConcatProperties, Zenon
  <2>2. Regroups(a, b, r)
    BY <1>3, SeqRegroups, Zenon
  <2>3. (a \o b) \o r = a \o (b \o r)
    BY <2>2, Zenon DEF Regroups
  <2> QED
    BY <2>1, <2>3, Zenon
<1>6. c \o d = a \o y /\ Len(c) = Len(a)
  BY <1>3, <1>4, <1>5, Zenon
<1> HIDE DEF y
<1>7. c = a /\ d = y
  BY <1>3, <1>4, <1>5, <1>6, SameCut, Zenon
<1> QED
  BY <1>7, Zenon DEF a, b, c, d, y

\* A message behind the last one.
LastAdded(q, s, m, d) ==
    q \o SubSeq(Append(s, m), d + 1, Len(Append(s, m))) = Append(q \o SubSeq(s, d + 1, Len(s)), m)

\* It is added to the pending ones too.
LEMMA AddLast ==
    ASSUME NEW S, NEW q \in Seq(S), NEW s \in Seq(S), NEW m \in S, NEW d \in 0 .. Len(s)
    PROVE  LastAdded(q, s, m, d)
<1> DEFINE t == From(s, d + 1)
           u == q \o t
<1>1. Append(s, m) = s \o <<m>> /\ <<m>> \in Seq(S)
  BY AppendIsConcat
<1>2. t \in Seq(S)
  BY SplitAt, Zenon
<1>3. From(s \o <<m>>, d + 1) = t \o <<m>>
  BY <1>1, CutFirst, Zenon
<1> HIDE DEF t
<1>4. u \in Seq(S) /\ (q \o t) \o <<m>> = q \o (t \o <<m>>)
  <2>1. u \in Seq(S)
    BY <1>2, ConcatProperties, Zenon
  <2>2. Regroups(q, t, <<m>>)
    BY <1>1, <1>2, SeqRegroups, Zenon
  <2> QED
    BY <2>1, <2>2, Zenon DEF Regroups
<1> HIDE DEF u
<1>5. Append(u, m) = u \o <<m>>
  BY <1>4, AppendIsConcat, Zenon
<1>6. q \o From(Append(s, m), d + 1) = Append(u, m)
  BY <1>1, <1>3, <1>4, <1>5, Zenon DEF u
<1> QED
  BY <1>6, Zenon DEF From, t, u, LastAdded

\* A part of a sequence.
LEMMA PartSeq ==
    ASSUME NEW S, NEW s \in Seq(S), NEW d \in 0 .. Len(s), NEW e \in d .. Len(s)
    PROVE  SubSeq(s, d + 1, e) \in Seq(S)
<1>1. Len(s) \in Nat /\ \A i \in 1 .. Len(s) : s[i] \in S
  BY LenProperties, ElementOfSeq, Zenon
<1> QED
  BY <1>1, SubSeqProperties

\* The first messages of those that arrived.
FirstPart(q, s, d, e, f) ==
    /\ q \o SubSeq(s, d + 1, f) = SubSeq(q \o SubSeq(s, d + 1, e), 1, Len(q) + (f - d))
    /\ Len(q \o SubSeq(s, d + 1, e)) = Len(q) + (e - d)

\* They are the first of what was pending.
LEMMA FirstOf ==
    ASSUME NEW S, NEW q \in Seq(S), NEW s \in Seq(S), NEW d \in 0 .. Len(s), NEW e \in d .. Len(s), NEW f \in d .. e
    PROVE  FirstPart(q, s, d, e, f)
<1> DEFINE a == SubSeq(s, d + 1, f)
           b == SubSeq(s, f + 1, e)
           c == SubSeq(s, d + 1, e)
<1>1. Len(s) \in Nat /\ \A i \in 1 .. Len(s) : s[i] \in S
  BY LenProperties, ElementOfSeq, Zenon
<1>2. a \in Seq(S) /\ Len(a) = f - d
  BY <1>1, SubSeqProperties
<1>3. c \in Seq(S) /\ Len(c) = e - d
  BY <1>1, SubSeqProperties
<1>4. b \in Seq(S)
  BY <1>1, SubSeqProperties
<1>5. a \o b = c
  BY <1>1, ConcatAdjacentSubSeq
<1> HIDE DEF a, b, c
<1> DEFINE x == q \o a
<1>6. x \in Seq(S) /\ Len(x) = Len(q) + Len(a) /\ Len(q \o c) = Len(q) + Len(c)
  BY <1>2, <1>3, ConcatProperties, Zenon
<1>7. x \o b = q \o c
  <2>0. Associative(Seq(S))
    BY SeqAssoc, Zenon
  <2>1. (q \o a) \o b = q \o (a \o b)
    BY <1>2, <1>4, <2>0, ZenonT(30) DEF Associative
  <2> QED
    BY <1>5, <2>1, Zenon
<1>8. Len(x) \in 0 .. Len(x)
  BY <1>6, LenProperties
<1> HIDE DEF x
<1>9. SubSeq(x \o b, 1, Len(x)) = SubSeq(x, 1, Len(x)) /\ SubSeq(x, 1, Len(x)) = x
  BY <1>4, <1>6, <1>8, CutFirst, SubSeqFull, Zenon
<1> QED
  BY <1>2, <1>3, <1>6, <1>7, <1>9, Zenon DEF x, a, c, FirstPart

\* The first message taken out.
LEMMA TakeFirst ==
    ASSUME NEW S, NEW m \in S, NEW r \in Seq(S)
    PROVE  (<<m>> \o r)[1] = m /\ 1 \in DOMAIN (<<m>> \o r) /\ Without(<<m>> \o r, 1) = r
<1>1. <<m>> \in Seq(S) /\ Len(<<m>>) = 1 /\ 1 \in 0 .. Len(<<m>>) /\ 1 \in 1 .. Len(<<m>>) /\ <<m>>[1] = m
  OBVIOUS
<1> DEFINE a == <<m>>
           z == a \o r
<1>2. From(a, 1 + 1) = <<>>
  BY SubSeqEmpty DEF From
<1> HIDE DEF a
<1>3. z[1] = m
  BY <1>1, FrontAt, Zenon DEF a
<1>4. z \in Seq(S) /\ Len(z) = 1 + Len(r)
  BY <1>1, ConcatProperties, Zenon DEF a
<1>5. 1 \in DOMAIN z
  BY <1>4, LenProperties
<1>6. From(z, 1 + 1) = From(a, 1 + 1) \o r
  BY <1>1, CutFirst, Zenon DEF a
<1>7. SubSeq(z, 1, 1 - 1) = <<>>
  BY SubSeqEmpty
<1>8. <<>> \o (<<>> \o r) = r
  BY ConcatEmptySeq, Zenon
<1>9. Without(z, 1) = r
  BY <1>2, <1>6, <1>7, <1>8, Zenon DEF Without
<1> QED
  BY <1>3, <1>5, <1>9, Zenon DEF a

\* A message of the first of two sequences taken out.
LEMMA TakeOut ==
    ASSUME NEW S, NEW q \in Seq(S), NEW r \in Seq(S), NEW i \in 1 .. Len(q)
    PROVE  (q \o r)[i] = q[i] /\ i \in DOMAIN (q \o r) /\ Without(q \o r, i) = Without(q, i) \o r
<1>0. Associative(Seq(S))
  BY SeqAssoc, Zenon
<1> DEFINE a == SubSeq(q, 1, i - 1)
           b == From(q, i + 1)
<1>1. i - 1 \in 0 .. Len(q) /\ i \in 0 .. Len(q)
  BY LenProperties
<1>2. SubSeq(q \o r, 1, i - 1) = a /\ From(q \o r, i + 1) = b \o r
  BY <1>1, CutFirst, Zenon
<1>3. a \in Seq(S) /\ b \in Seq(S)
  BY <1>1, SplitAt, Zenon
<1>4. (q \o r)[i] = q[i]
  BY FrontAt, Zenon
<1>5. i \in DOMAIN (q \o r)
  BY ConcatProperties, LenProperties
<1> HIDE DEF a, b
<1>6. (a \o b) \o r = a \o (b \o r)
  BY <1>0, <1>3, Zenon DEF Associative
<1> QED
  BY <1>2, <1>4, <1>5, <1>6, Zenon DEF Without, a, b

\* A message is written.
LEMMA Writes ==
    ASSUME NEW msg \in Message, Pending' = Append(Pending, msg), UNCHANGED <<ordered, handled>>
    PROVE  Channel!Next
  BY Zenon DEF Channel!Next, Channel!Write, Pending, Ahead, Coming, Missing

\* A message is handled.
LEMMA Handles ==
    ASSUME NEW i \in DOMAIN Pending, ordered => i = 1, handled' = Append(handled, Pending[i]),
           Pending' = Without(Pending, i), UNCHANGED ordered
    PROVE  Channel!Next
<1>1. Channel!Handle(i)
  BY Zenon DEF Channel!Handle, Pending, Ahead, Coming, Missing, Without, From
<1>2. i \in DOMAIN (spawned \o Parse(Partial \o buf \o From(wire, (IF isClient THEN FirstDataLen ELSE 0) + 1)))
  BY Zenon DEF Pending, Ahead, Coming, Missing
<1> QED
  BY <1>1, <1>2, Zenon DEF Channel!Next

\* The latest messages are lost.
LEMMA Breaks ==
    ASSUME NEW n \in 0 .. Len(Pending) - 1, Pending' = SubSeq(Pending, 1, n), UNCHANGED <<ordered, handled>>
    PROVE  Channel!Next
<1>1. Channel!Break
  BY Zenon DEF Channel!Break, Pending, Ahead, Coming, Missing
<1> QED
  BY <1>1, Zenon DEF Channel!Next

\* A step of the channel, or none.
ChannelStep == Channel!Next \/ UNCHANGED <<ordered, Pending, handled>>

\* The number of bytes ahead.
AheadLen ==
    /\ Ahead \in Bytes /\ Len(Ahead) = Len(Taken(lastMsg) \o buf) + Len(Coming)
    /\ Len(Taken(lastMsg) \o buf) \in Nat /\ Len(Coming) \in Nat
    /\ wire = <<>> => Coming = <<>>
    /\ Len(firstData) = Len(Own) => Coming = wire

\* It is that of the header in hand, the buffer and the wire.
LEMMA AheadLenIs ==
    Data => AheadLen
  BY AheadBytes, ComingIs, Zenon DEF AheadLen

\* The same of the next state.
LEMMA AheadLenNext ==
    Data' => AheadLen'
  BY AheadLenIs, PTL

\* A message that is written is pending.
LEMMA WriteChannel ==
    ASSUME ReadInv, Data', NEW msg \in Message, Write(msg), Fixed
    PROVE  ChannelStep
<1> DEFINE d == Len(decoded)
<1>1. ~broken /\ broken' = broken /\ Data /\ spawned \in Seq(Message)
  BY Zenon DEF ReadInv, Control, Queues, Write
<1>2. sent' = Append(sent, msg) /\ UNCHANGED <<ordered, handled>> /\ spawned' = spawned /\ decoded' = decoded
  BY Zenon DEF Write, Fixed, reader
<1>3. /\ sent \in Seq(Message) /\ d \in 0 .. Len(sent)
      /\ Pending = spawned \o SubSeq(sent, d + 1, Len(sent))
  BY <1>1, PendingIs, Zenon DEF Whence
<1>4. Pending' = spawned \o SubSeq(sent', d + 1, Len(sent'))
  <2>1. PICK f : Whence(f)'
    BY PendingNext, Zenon
  <2> QED
    BY <1>1, <1>2, <2>1, Zenon DEF Whence
<1>5. LastAdded(spawned, sent, msg, d)
  BY <1>1, <1>3, AddLast, Zenon
<1>6. Pending' = Append(Pending, msg)
  BY <1>2, <1>3, <1>4, <1>5, Zenon DEF LastAdded
<1>7. Channel!Next
  BY <1>2, <1>6, Writes, Zenon
<1> QED
  BY <1>7, Zenon DEF ChannelStep

\* A break loses the latest messages, if any.
LEMMA ResetsChannel ==
    ASSUME ReadInv, Data', Resets, Fixed
    PROVE  ChannelStep
<1> DEFINE d == Len(decoded)
<1>1. Data /\ spawned \in Seq(Message)
  BY Zenon DEF ReadInv, Queues
<1>2. /\ wire' = <<>> /\ UNCHANGED <<ordered, handled>> /\ spawned' = spawned /\ decoded' = decoded /\ sent' = sent
      /\ lastMsg' = lastMsg /\ buf' = buf
  BY Zenon DEF Resets, Fixed, reader
<1>3. PICK e : Whence(e)
  BY <1>1, PendingIs, Zenon
<1>4. PICK f : Whence(f)'
  BY PendingNext, Zenon
<1>5. /\ sent \in Seq(Message) /\ d \in 0 .. Len(sent) /\ Ahead \in Bytes
      /\ Arrived(sent, d, Ahead, e) /\ e \in d .. Len(sent)
      /\ Pending = spawned \o SubSeq(sent, d + 1, e)
  BY <1>3, Zenon DEF Whence
<1>6. /\ Ahead' \in Bytes /\ Arrived(sent, d, Ahead', f) /\ f \in d .. Len(sent)
      /\ Pending' = spawned \o SubSeq(sent, d + 1, f)
  BY <1>2, <1>4, Zenon DEF Whence
<1>7. Len(Ahead') <= Len(Ahead) /\ Len(Ahead) \in Nat /\ Len(Ahead') \in Nat
  <2> DEFINE a == Len(Taken(lastMsg) \o buf)
  <2>1. Len(Ahead) = a + Len(Coming) /\ a \in Nat /\ Len(Coming) \in Nat
    BY <1>1, AheadLenIs, Zenon DEF AheadLen
  <2>2. Len(Ahead') = a + Len(Coming') /\ Coming' = <<>>
    BY <1>2, AheadLenNext, Zenon DEF AheadLen
  <2>3. Len(<<>>) = 0
    BY Zenon
  <2> HIDE DEF a
  <2>4. Len(Ahead') = a + 0
    BY <2>2, <2>3, Zenon
  <2> QED
    BY <2>1, <2>4
<1>8. f <= e
  <2>1. Start(sent, d) \in Nat
    BY <1>5, StartLater, Zenon
  <2>2. Start(sent, d) + Len(Ahead') <= Start(sent, d) + Len(Ahead)
    BY <1>7, <2>1
  <2> QED
    BY <1>5, <1>6, <2>2, ArrivedMore, Zenon
<1>9. d \in Nat /\ Len(sent) \in Nat /\ Len(spawned) \in Nat /\ f \in d .. e
  BY <1>1, <1>5, <1>6, <1>8, LenProperties
<1>10. /\ Pending' = SubSeq(Pending, 1, Len(spawned) + (f - d))
       /\ Len(Pending) = Len(spawned) + (e - d)
  <2>1. FirstPart(spawned, sent, d, e, f)
    BY <1>1, <1>5, <1>9, FirstOf, Zenon
  <2> QED
    BY <1>5, <1>6, <2>1, Zenon DEF FirstPart
<1>11. CASE f = e
  BY <1>2, <1>5, <1>6, <1>11, Zenon DEF ChannelStep
<1>12. CASE f # e
  <2>1. Len(spawned) + (f - d) \in 0 .. Len(Pending) - 1
    BY <1>5, <1>9, <1>10, <1>12
  <2>2. Channel!Next
    BY <1>2, <1>10, <2>1, Breaks, Zenon
  <2> QED
    BY <2>2, Zenon DEF ChannelStep
<1> QED
  BY <1>11, <1>12, Zenon

\* Bytes that are read stay ahead.
LEMMA MoveChannel ==
    ASSUME Data, Data', ~broken, UNCHANGED <<broken, sent, decoded, spawned, ordered, handled>>
    PROVE  ChannelStep
<1>1. Pending = spawned \o SubSeq(sent, Len(decoded) + 1, Len(sent))
  BY PendingIs, Zenon DEF Whence
<1>2. Pending' = spawned \o SubSeq(sent, Len(decoded) + 1, Len(sent))
  <2>1. PICK f : Whence(f)'
    BY PendingNext, Zenon
  <2> QED
    BY <2>1, Zenon DEF Whence
<1> QED
  BY <1>1, <1>2, Zenon DEF ChannelStep

\* Nothing else changes what is pending.
LEMMA SameChannel ==
    ASSUME UNCHANGED <<ordered, isClient, wire, firstData, lastMsg, buf, spawned, handled>>
    PROVE  ChannelStep
<1>1. Pending' = Pending
  BY Zenon DEF Pending, Ahead, Coming, Missing, FirstDataLen, Partial
<1> QED
  BY <1>1, Zenon DEF ChannelStep

\* A goroutine handles a message that is pending.
LEMMA HandleChannel ==
    ASSUME ReadInv, NEW i, Handle(i), Fixed
    PROVE  ChannelStep
<1>1. Data /\ spawned \in Seq(Message) /\ (ordered => spawned = <<>>)
  BY Zenon DEF ReadInv, Queues
<1>2. /\ i \in DOMAIN spawned /\ handled' = Append(handled, spawned[i]) /\ spawned' = Without(spawned, i)
      /\ ordered' = ordered /\ UNCHANGED <<isClient, wire, firstData, lastMsg, buf>>
  BY Zenon DEF Handle, Fixed, Without, reader
<1>3. i \in 1 .. Len(spawned) /\ spawned # <<>>
  BY <1>1, <1>2
<1>4. PICK e : Whence(e)
  BY <1>1, PendingIs, Zenon
<1>5. Ahead' = Ahead
  BY <1>2, Zenon DEF Ahead, Coming, Missing, FirstDataLen, Partial
<1>6. Parse(Ahead) \in Seq(Message)
  <2>1. PICK lost : Follows(sent, Len(decoded), NewMsg, Ahead, lost)
    BY <1>1, AheadFollows, Zenon
  <2>2. Arrived(sent, Len(decoded), Ahead, e) /\ sent \in Seq(Message) /\ Len(decoded) \in 0 .. Len(sent)
        /\ e \in Len(decoded) .. Len(sent)
    BY <1>4, Zenon DEF Whence
  <2>3. Parse(Ahead) = SubSeq(sent, Len(decoded) + 1, e)
    BY <2>1, <2>2, ParseRun, Zenon
  <2>4. SubSeq(sent, Len(decoded) + 1, e) \in Seq(Message)
    BY <2>2, PartSeq, Zenon
  <2> QED
    BY <2>3, <2>4, Zenon
<1>7. /\ Pending[i] = spawned[i] /\ i \in DOMAIN Pending
      /\ Without(Pending, i) = Without(spawned, i) \o Parse(Ahead)
  BY <1>1, <1>3, <1>6, TakeOut, Zenon DEF Pending
<1>8. Pending' = Without(Pending, i)
  BY <1>2, <1>5, <1>7, Zenon DEF Pending
<1>9. Channel!Next
  BY <1>1, <1>2, <1>3, <1>7, <1>8, Handles, Zenon
<1> QED
  BY <1>9, Zenon DEF ChannelStep

\* A round of the inner loop hands the next message on, or leaves what is ahead.
LEMMA DecodeChannel ==
    ASSUME ReadInv, Data', DecodeNext, Fixed
    PROVE  ChannelStep
<1> DEFINE d == Len(decoded)
           r == Decode(lastMsg, buf)
           m == sent[d + 1]
           a == Len(Taken(lastMsg) \o buf)
           w == Len(wire)
<1>1. /\ Data /\ spawned \in Seq(Message) /\ (ordered => spawned = <<>>) /\ Len(firstData) = Len(Own)
      /\ wire \in Bytes /\ lastMsg \in Msg /\ buf \in Bytes /\ decoded \in Seq(Message)
  <2>1. readAt = "decode" /\ (readAt \notin {"sync", "end"} => Len(firstData) = Len(Own))
    BY Zenon DEF ReadInv, DecodeNext
  <2>2. Len(firstData) = Len(Own)
    BY <2>1, Zenon
  <2> QED
    BY <2>2, Zenon DEF ReadInv, Queues, Data
<1>2. /\ wire' = wire /\ sent' = sent /\ ordered' = ordered /\ Len(firstData') = Len(Own')
      /\ buf' = r.reader
  BY <1>1, Zenon DEF DecodeNext, Fixed, notes, Own
<1>3. Decoded(sent, d, lastMsg, buf, r)
  BY DecodeResult, Zenon
<1>4. PICK e : Whence(e)
  BY <1>1, PendingIs, Zenon
<1>5. PICK f : Whence(f)'
  BY PendingNext, Zenon
<1>6. /\ sent \in Seq(Message) /\ d \in 0 .. Len(sent) /\ Ahead \in Bytes
      /\ Arrived(sent, d, Ahead, e) /\ e \in d .. Len(sent)
      /\ Pending = spawned \o SubSeq(sent, d + 1, e)
  BY <1>4, Zenon DEF Whence
<1>7. /\ Len(decoded') \in 0 .. Len(sent) /\ Ahead' \in Bytes
      /\ Arrived(sent, Len(decoded'), Ahead', f) /\ f \in Len(decoded') .. Len(sent)
      /\ Pending' = spawned' \o SubSeq(sent, Len(decoded') + 1, f)
  BY <1>2, <1>5, Zenon DEF Whence
<1>8. Len(Ahead) = a + w /\ a \in Nat /\ w \in Nat
  BY <1>1, AheadLenIs, Zenon DEF AheadLen
<1>9. Len(Ahead') = Len(Taken(lastMsg') \o r.reader) + w
  BY <1>2, AheadLenNext, Zenon DEF AheadLen
<1>10. ASSUME Start(sent, d) + Len(Ahead) = Start(sent, Len(decoded')) + Len(Ahead') PROVE e = f
  <2> DEFINE x == Start(sent, d) + Len(Ahead)
             y == Start(sent, Len(decoded')) + Len(Ahead')
  <2>1. Start(sent, d) \in Nat /\ Len(sent) \in Nat /\ d \in Nat /\ Len(decoded') \in Nat
    BY <1>6, <1>7, StartLater, LenProperties
  <2>2. x \in Nat /\ x = y
    BY <1>8, <1>10, <2>1
  <2>3. x <= y /\ y <= x
    <3> HIDE DEF x, y
    <3> QED
      BY <2>2
  <2>4. e <= f
    BY <1>6, <1>7, <2>3, ArrivedMore, Zenon
  <2>5. f <= e
    BY <1>6, <1>7, <2>3, ArrivedMore, Zenon
  <2> QED
    BY <1>6, <1>7, <2>1, <2>4, <2>5
<1>11. CASE ~r.ok
  <2>1. lastMsg' = r.msg /\ decoded' = decoded /\ spawned' = spawned /\ handled' = handled
    BY <1>11, Zenon DEF DecodeNext
  <2>2. Taken(lastMsg) \o buf = Taken(r.msg) \o r.reader
    BY <1>3, <1>11, Zenon DEF Decoded
  <2>3. e = f
    <3> HIDE DEF r
    <3>1. Len(Ahead') = Len(Ahead)
      BY <1>8, <1>9, <2>1, <2>2, Zenon
    <3> QED
      BY <1>10, <2>1, <3>1, Zenon
  <2>4. Pending' = Pending
    BY <1>6, <1>7, <2>1, <2>3, Zenon
  <2> QED
    BY <1>2, <2>1, <2>4, Zenon DEF ChannelStep
<1>12. CASE r.ok
  <2>1. /\ d < Len(sent) /\ r.reader \in Bytes /\ <<r.msg.flag, r.msg.data>> = m
        /\ Taken(lastMsg) \o buf = Coded(m) \o r.reader
    BY <1>3, <1>12, Zenon DEF Decoded
  <2>2. lastMsg' = NewMsg /\ decoded' = Append(decoded, m) /\ Deliver(m)
    BY <1>12, <2>1, Zenon DEF DecodeNext
  <2> HIDE DEF r
  <2>3. d \in Nat /\ Len(sent) \in Nat /\ d # Len(sent) /\ d + 1 \in 1 .. Len(sent)
    BY <1>6, <2>1
  <2>4. /\ m \in Message /\ Len(m[2]) \in Nat /\ Start(sent, d) \in Nat
        /\ Start(sent, d + 1) = Start(sent, d) + (5 + Len(m[2]))
    BY <1>6, <2>3, StartNext, Zenon
  <2> HIDE DEF m
  <2>5. Len(decoded') = d + 1
    BY <1>1, <2>2, <2>4, AppendProperties, Zenon
  <2>6. Coded(m) \in Bytes /\ Len(Coded(m)) = 5 + Len(m[2])
    BY <2>4, HeaderOf, Zenon
  <2>7. a = Len(Coded(m)) + Len(r.reader) /\ Len(r.reader) \in Nat
    <3>1. Len(Coded(m) \o r.reader) = Len(Coded(m)) + Len(r.reader) /\ Len(r.reader) \in Nat
      BY <2>1, <2>6, BytesJoin, Zenon
    <3> QED
      BY <2>1, <3>1, Zenon
  <2>8. Len(Ahead') = Len(r.reader) + w
    <3>1. Taken(NewMsg) \o r.reader = r.reader
      BY <2>1, NoBytes, BytesEmpty, Zenon
    <3> QED
      BY <1>9, <2>2, <3>1, Zenon
  <2>9. e = f
    <3> DEFINE k == Len(m[2])
               l == Len(r.reader)
               x == Start(sent, d)
               y == Start(sent, d + 1)
               p == Len(Ahead)
               q == Len(Ahead')
    <3>1. /\ k \in Nat /\ l \in Nat /\ x \in Nat /\ y = x + (5 + k)
          /\ p = a + w /\ q = l + w /\ a = (5 + k) + l
      BY <1>8, <2>4, <2>6, <2>7, <2>8, Zenon
    <3>2. w \in Nat
      BY <1>8, Zenon
    <3>3. x + p = y + q
      <4> HIDE DEF a, w, k, l, x, y, p, q
      <4> QED
        BY <3>1, <3>2
    <3> QED
      BY <1>10, <2>5, <3>3, Zenon
  <2> DEFINE rest == SubSeq(sent, (d + 1) + 1, e)
  <2>10. e \in d + 1 .. Len(sent) /\ d + 1 \in 0 .. Len(sent)
    BY <1>7, <2>3, <2>5, <2>9, Zenon
  <2>11. rest \in Seq(Message)
    BY <1>6, <2>10, PartSeq, Zenon
  <2>12. SubSeq(sent, d + 1, e) = <<m>> \o rest
    BY <1>6, <2>3, <2>10, SubSeqRecursiveFirst, Zenon DEF m
  <2> HIDE DEF rest
  <2>13. Pending = spawned \o (<<m>> \o rest) /\ Pending' = spawned' \o rest
    BY <1>6, <1>7, <2>5, <2>9, <2>12, Zenon DEF rest
  <2>14. CASE ordered
    <3>1. handled' = Append(handled, m) /\ spawned' = spawned /\ spawned = <<>>
      BY <1>1, <2>2, <2>14, Zenon DEF Deliver
    <3>2. <<>> \o (<<m>> \o rest) = <<m>> \o rest /\ <<>> \o rest = rest
      <4>1. <<m>> \in Seq(Message)
        BY <2>4
      <4>2. <<m>> \o rest \in Seq(Message)
        BY <2>11, <4>1, ConcatProperties, Zenon
      <4> QED
        BY <2>11, <4>2, ConcatEmptySeq, Zenon
    <3>3. Pending = <<m>> \o rest /\ Pending' = rest
      BY <2>13, <3>1, <3>2, Zenon
    <3>4. Pending[1] = m /\ 1 \in DOMAIN Pending /\ Without(Pending, 1) = rest
      <4>1. (<<m>> \o rest)[1] = m /\ 1 \in DOMAIN (<<m>> \o rest) /\ Without(<<m>> \o rest, 1) = rest
        BY <2>4, <2>11, TakeFirst, Zenon
      <4> QED
        BY <3>3, <4>1, Zenon
    <3>5. Channel!Next
      BY <1>2, <3>1, <3>3, <3>4, Handles, Zenon
    <3> QED
      BY <3>5, Zenon DEF ChannelStep
  <2>15. CASE ~ordered
    <3>1. spawned' = Append(spawned, m) /\ handled' = handled
      BY <2>2, <2>15, Zenon DEF Deliver
    <3>2. Append(spawned, m) = spawned \o <<m>> /\ <<m>> \in Seq(Message)
      BY <1>1, <2>4, AppendIsConcat
    <3>3. Associative(Seq(Message))
      BY SeqAssoc, Zenon
    <3>4. (spawned \o <<m>>) \o rest = spawned \o (<<m>> \o rest)
      BY <1>1, <2>11, <3>2, <3>3, Zenon DEF Associative
    <3>5. Pending' = Pending
      BY <2>13, <3>1, <3>2, <3>4, Zenon
    <3> QED
      BY <1>2, <3>1, <3>5, Zenon DEF ChannelStep
  <2> QED
    BY <2>14, <2>15, Zenon
<1> QED
  BY <1>11, <1>12, Zenon

\* Every step is one of the channel, or none.
LEMMA StepChannel ==
    ASSUME ReadInv, ReadNext
    PROVE  ChannelStep
<1>0. Fixed /\ Data /\ Data'
  BY DataStep, Zenon DEF ReadNext, Fixed, ReadInv
<1>1. ASSUME NEW msg \in Message, Write(msg) PROVE ChannelStep
  BY <1>0, <1>1, WriteChannel, Zenon
<1>2. ASSUME PeerCloses PROVE ChannelStep
  BY <1>0, <1>2, SameChannel, Zenon DEF PeerCloses, reader, Fixed
<1>3. ASSUME Resets PROVE ChannelStep
  BY <1>0, <1>3, ResetsChannel, Zenon
<1>4. ASSUME SocketClose PROVE ChannelStep
  BY <1>0, <1>4, SameChannel, Zenon DEF SocketClose, reader, Fixed
<1>5. ASSUME NEW n, SyncRead(n) PROVE ChannelStep
  <2>1. ~broken
    BY <1>5, Zenon DEF SyncRead, ReadInv, Control
  <2> QED
    BY <1>0, <1>5, <2>1, MoveChannel, Zenon DEF SyncRead, notes, Fixed
<1>6. ASSUME SyncFails PROVE ChannelStep
  BY <1>0, <1>6, SameChannel, Zenon DEF SyncFails, Fixed
<1>7. ASSUME LoopTop PROVE ChannelStep
  BY <1>0, <1>7, SameChannel, Zenon DEF LoopTop, Fixed
<1>8. ASSUME NEW n, Read(n) PROVE ChannelStep
  <2>1. ~broken
    BY <1>8, Zenon DEF Read, ReadInv, Control
  <2> QED
    BY <1>0, <1>8, <2>1, MoveChannel, Zenon DEF Read, notes, Fixed
<1>9. ASSUME ReadClosed PROVE ChannelStep
  BY <1>0, <1>9, SameChannel, Zenon DEF ReadClosed, Fixed
<1>10. ASSUME ReadError PROVE ChannelStep
  BY <1>0, <1>10, SameChannel, Zenon DEF ReadError, Fixed
<1>11. ASSUME DecodeNext PROVE ChannelStep
  BY <1>0, <1>11, DecodeChannel, Zenon
<1>12. ASSUME NEW i, Handle(i) PROVE ChannelStep
  BY <1>0, <1>12, HandleChannel, Zenon
<1> QED
  BY <1>1, <1>2, <1>3, <1>4, <1>5, <1>6, <1>7, <1>8, <1>9, <1>10, <1>11, <1>12, Zenon
     DEF ReadNext, Reading, Handling

\* A new connection is an empty channel.
LEMMA InitChannel ==
    ASSUME ReadInit
    PROVE  Channel!Init
<1>1. Data
  BY InitInv, Zenon DEF ReadInv
<1>2. sent = <<>> /\ decoded = <<>> /\ spawned = <<>> /\ ~broken /\ handled = <<>> /\ ordered \in BOOLEAN
  BY Zenon DEF ReadInit
<1>3. Pending = spawned \o SubSeq(sent, Len(decoded) + 1, Len(sent))
  BY <1>1, <1>2, PendingIs, Zenon DEF Whence
<1>4. SubSeq(<<>>, Len(<<>>) + 1, Len(<<>>)) = <<>> /\ <<>> \o <<>> = <<>>
  BY SubSeqEmpty
<1>5. Pending = <<>>
  BY <1>2, <1>3, <1>4, Zenon
<1> QED
  BY <1>2, <1>5, Zenon DEF Channel!Init, Pending, Ahead, Coming, Missing

-------------------------------------------------------------------------------
(* Theorems *)

\* However the stream is cut into reads, readIo and syncSessionId lose, double and
\* misread no byte: session id, messages decoded, header in hand, buffer and wire are
\* what the peer wrote, all of it until the connection breaks.  A loop that ended
\* has closed its session, unless its owner closed the socket or an ordered handler
\* panicked.
THEOREM StreamSafe == ReadSpec => []StreamSound
<1>1. ReadInit => ReadInv
  BY InitInv, Zenon
<1>2. ReadInv /\ [ReadNext]_readVars => ReadInv'
  BY ReadStep, ReadStutter, Zenon
<1>3. ReadInv => StreamSound
  BY InvSound, Zenon
<1> QED
  BY <1>1, <1>2, <1>3, PTL DEF ReadSpec

\* The bytes that Write sends, however readIo and Decode cut them, carry whole
\* messages to the handler, each once and, on an ordered socket, in the order they
\* were written; only a connection that breaks loses some, the latest ones.
THEOREM ReadIsChannel == ReadSpec => IsChannel
<1>1. ReadInit => ReadInv /\ Channel!Init
  BY InitInv, InitChannel, Zenon
<1>2. ReadInv /\ [ReadNext]_readVars
      => /\ ReadInv'
         /\ [Channel!Next]_<<ordered, spawned \o Parse(Partial \o buf \o From(wire, (IF isClient THEN FirstDataLen ELSE 0) + 1)), handled>>
  <2> SUFFICES ASSUME ReadInv, [ReadNext]_readVars PROVE ReadInv' /\ ChannelStep
    BY Zenon DEF ChannelStep, Pending, Ahead, Coming, Missing
  <2>1. CASE ReadNext
    BY <2>1, ReadStep, StepChannel, Zenon
  <2>2. CASE UNCHANGED readVars
    BY <2>2, ReadStutter, SameChannel, Zenon DEF readVars, readState
  <2> QED
    BY <2>1, <2>2, Zenon
<1> QED
  BY <1>1, <1>2, PTL DEF ReadSpec, IsChannel, Channel!Spec

===============================================================================
