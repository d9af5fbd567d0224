---------------------------- MODULE CodecProofs ----------------------------
(***************************************************************************)
(* The codec for all packets and not only those of a configuration.        *)
(* First the frame: the length is taken apart into groups of seven bits    *)
(* (Groups), the groups are read back from the bytes (LengthReadBack), and *)
(* the slices of the stream follow from their bounds (FrameRoundTrip).     *)
(* Then what each WriteTo method writes (the ...Body lemmas), and that the *)
(* frames of the packets stay whole on the wire (Sync, behind InSync).     *)
(* Last that Decode undoes WriteTo, type by type (the ...Back lemmas), and *)
(* what it makes of a packet that was cut (TakenCut), which together are   *)
(* the invariant of the reader (Reads311, behind RoundTrip).  MQTT 5 comes *)
(* at the end: the loop over the properties (readProps), and the packets   *)
(* on which WriteTo and Decode agree (the ...Back5 lemmas).                *)
(*                                                                         *)
(* Lists of any length are dealt with by induction over their length: the  *)
(* lengths for which the claim holds are a set that contains 0 and with n  *)
(* also n + 1 (Induct, from the least number that would not be in it).     *)
(* The functions that the folds and the loops choose are first shown to    *)
(* exist.                                                                  *)
(***************************************************************************)
EXTENDS Codec, SequenceTheorems, FiniteSetTheorems, WellFoundedInduction, TLAPS

\* One iteration of the loop of varIntBytes takes a number apart and loses
\* nothing: n % 128 and n /= 128.
LEMMA Quotient ==
    ASSUME NEW m \in Nat
    PROVE  /\ m \div 128 \in Nat
           /\ m % 128 \in Nat /\ m % 128 < 128
           /\ m = (m \div 128) * 128 + (m % 128)
BY SMT

\* Iterations of n /= 128 add up to one division by the weight of the byte.
LEMMA Quotients ==
    ASSUME NEW n \in Nat
    PROVE  /\ n \div 1 = n
           /\ (n \div 128) \div 128 = n \div 16384
           /\ (n \div 16384) \div 128 = n \div 2097152
BY SMT

\* The i-th group of seven bits of n.
group(n, i) == (n \div weight[i]) % 128

\* n % 128 in varIntBytes leaves the top bit of the byte free.
LEMMA GroupRange ==
    ASSUME NEW n \in Nat, NEW i \in 1..4
    PROVE  group(n, i) \in Nat /\ group(n, i) < 128
<1>1. weight[i] \in {1, 128, 16384, 2097152}
  BY SMT DEF weight
<1>2. n \div weight[i] \in Nat
  <2>1. n \div 1 \in Nat /\ n \div 128 \in Nat /\ n \div 16384 \in Nat /\ n \div 2097152 \in Nat
    BY SMT
  <2> QED  BY <1>1, <2>1, SMT
<1> QED  BY <1>2, Quotient, SMT DEF group

\* The bytes that the loop of varIntBytes produces before n is 0, with their
\* weights, are n.
LEMMA Groups ==
    ASSUME NEW n \in Nat, n < varIntLimit
    PROVE  /\ n < 128 => n = group(n, 1)
           /\ n < 16384 => n = group(n, 1) + group(n, 2) * 128
           /\ n < 2097152 => n = group(n, 1) + group(n, 2) * 128 + group(n, 3) * 16384
           /\ n = group(n, 1) + group(n, 2) * 128 + group(n, 3) * 16384
                    + group(n, 4) * 2097152
<1> DEFINE a == n \div 128
           b == n \div 16384
           c == n \div 2097152
<1>1. /\ weight[1] = 1 /\ weight[2] = 128 /\ weight[3] = 16384 /\ weight[4] = 2097152
  BY SMT DEF weight
<1>2. /\ group(n, 1) = n % 128 /\ group(n, 2) = a % 128
      /\ group(n, 3) = b % 128 /\ group(n, 4) = c % 128
  BY <1>1, Quotients, SMT DEF group
<1>3. /\ a \in Nat /\ n % 128 \in Nat /\ n % 128 < 128 /\ n = a * 128 + (n % 128)
  BY Quotient, SMT
<1>4. /\ b \in Nat /\ a % 128 \in Nat /\ a % 128 < 128 /\ a = b * 128 + (a % 128)
  BY <1>3, Quotient, Quotients, SMT
<1>5. /\ c \in Nat /\ b % 128 \in Nat /\ b % 128 < 128 /\ b = c * 128 + (b % 128)
  BY <1>4, Quotient, Quotients, SMT
<1>6. /\ c % 128 = c
  BY <1>3, <1>4, <1>5, SMT DEF varIntLimit
<1>7. c % 128 \in Nat /\ c % 128 < 128
  BY <1>5, Quotient, SMT
<1> HIDE DEF a, b, c
<1> DEFINE r1 == n % 128
           r2 == a % 128
           r3 == b % 128
<1>8. /\ n < 128 => n = r1
      /\ n < 16384 => n = r1 + r2 * 128
      /\ n < 2097152 => n = r1 + r2 * 128 + r3 * 16384
      /\ n = r1 + r2 * 128 + r3 * 16384 + c * 2097152
  <2> HIDE DEF r1, r2, r3
  <2>1. /\ a \in Nat /\ b \in Nat /\ c \in Nat /\ r1 \in Nat /\ r2 \in Nat /\ r3 \in Nat
        /\ n = a * 128 + r1 /\ a = b * 128 + r2 /\ b = c * 128 + r3
        /\ r1 < 128 /\ r2 < 128 /\ r3 < 128
    BY <1>3, <1>4, <1>5 DEF r1, r2, r3
  <2> QED  BY <2>1, SMT
<1> QED  BY <1>2, <1>6, <1>8, SMT

\* varIntBytes: one to four bytes, of which all but the last have the top bit
\* set, and the other bits are the groups of n.
LEMMA VarIntBytesType ==
    ASSUME NEW n \in Nat
    PROVE  /\ varIntLen(n) \in 1..4
           /\ varIntBytes(n) \in Seq(Byte)
           /\ Len(varIntBytes(n)) = varIntLen(n)
           /\ \A i \in 1..varIntLen(n) :
                 /\ i < varIntLen(n) => varIntBytes(n)[i] >= 128
                 /\ i = varIntLen(n) => varIntBytes(n)[i] < 128
                 /\ varIntBytes(n)[i] % 128 = group(n, i)
<1> DEFINE k == varIntLen(n)
<1>1. k \in 1..4
  BY SMT DEF varIntLen
<1>2. varIntBytes(n) = [i \in 1..k |-> group(n, i) + (IF i < k THEN 128 ELSE 0)]
  BY SMT DEF varIntBytes, group
<1> HIDE DEF k
<1>7. 1..k \subseteq 1..4
  BY <1>1
<1>3. \A i \in 1..k : group(n, i) \in Nat /\ group(n, i) < 128
  BY <1>1, <1>7, GroupRange
<1>4. \A i \in 1..k : group(n, i) + (IF i < k THEN 128 ELSE 0) \in Byte
  BY <1>1, <1>3, SMT DEF Byte
<1>5. varIntBytes(n) \in Seq(Byte) /\ Len(varIntBytes(n)) = k
  BY <1>1, <1>2, <1>4, SMT
<1>6. ASSUME NEW i \in 1..k
      PROVE  /\ i < k => varIntBytes(n)[i] >= 128
             /\ i = k => varIntBytes(n)[i] < 128
             /\ varIntBytes(n)[i] % 128 = group(n, i)
  <2>1. /\ varIntBytes(n)[i] = group(n, i) + (IF i < k THEN 128 ELSE 0)
        /\ group(n, i) \in Nat /\ group(n, i) < 128
    BY <1>2, <1>3, SMT
  <2> QED  BY <1>1, <2>1, SMT
<1> QED  BY <1>1, <1>5, <1>6, SMT DEF k

\* getRemainLength on bytes that begin with varIntBytes(n) reads n from exactly
\* those bytes.
LEMMA LengthReadBack ==
    ASSUME NEW n \in Nat, n < varIntLimit, NEW d \in Seq(Byte),
           Len(d) >= varIntLen(n),
           \A i \in 1..varIntLen(n) : d[i] = varIntBytes(n)[i]
    PROVE  /\ lastByte(d) = varIntLen(n)
           /\ getRemainLength(d) = [length |-> n, byteCount |-> varIntLen(n)]
<1> DEFINE k == varIntLen(n)
<1>1. /\ k \in 1..4 /\ Len(d) \in Nat /\ Len(d) >= k
      /\ \A i \in 1..k : /\ i < k => d[i] >= 128
                         /\ i = k => d[i] < 128
                         /\ d[i] % 128 = group(n, i)
  <2>1. Len(d) \in Nat
    BY LenProperties
  <2>2. /\ k \in 1..4
        /\ \A i \in 1..k : /\ i < k => varIntBytes(n)[i] >= 128
                           /\ i = k => varIntBytes(n)[i] < 128
                           /\ varIntBytes(n)[i] % 128 = group(n, i)
    BY VarIntBytesType
  <2> QED  BY <2>1, <2>2
<1>10. \A i \in 1..k : d[i] \in Nat
  <2>1. Byte \subseteq Nat
    BY SMT DEF Byte
  <2> HIDE DEF k
  <2>2. 1..k \subseteq 1..Len(d)
    BY <1>1, SMT
  <2> QED  BY <2>1, <2>2, ElementOfSeq
<1>11. k = 1 => n < 128
  BY SMT DEF varIntLen
<1>12. k = 2 => n < 16384
  BY SMT DEF varIntLen
<1>13. k = 3 => n < 2097152
  BY SMT DEF varIntLen
<1> HIDE DEF k
<1>2. lastByte(d) = k
  BY <1>1, <1>10, SMT DEF lastByte
<1>14. /\ weight[1] = 1 /\ weight[2] = 128 /\ weight[3] = 16384 /\ weight[4] = 2097152
  BY SMT DEF weight
<1>15. \A i \in 1..4 : group(n, i) \in Nat /\ group(n, i) < 128
  BY GroupRange
<1>3. n = (IF 1 <= k THEN (d[1] % 128) * weight[1] ELSE 0)
        + (IF 2 <= k THEN (d[2] % 128) * weight[2] ELSE 0)
        + (IF 3 <= k THEN (d[3] % 128) * weight[3] ELSE 0)
        + (IF 4 <= k THEN (d[4] % 128) * weight[4] ELSE 0)
  <2>1. CASE k = 1
    <3>1. d[1] % 128 = group(n, 1)
      BY <2>1, <1>1, SMT
    <3> QED  BY <2>1, <3>1, <1>15, <1>14, <1>11, Groups, SMT
  <2>2. CASE k = 2
    <3>1. d[1] % 128 = group(n, 1) /\ d[2] % 128 = group(n, 2)
      BY <2>2, <1>1, SMT
    <3> QED  BY <2>2, <3>1, <1>15, <1>14, <1>12, Groups, SMT
  <2>3. CASE k = 3
    <3>1. d[1] % 128 = group(n, 1) /\ d[2] % 128 = group(n, 2) /\ d[3] % 128 = group(n, 3)
      BY <2>3, <1>1, SMT
    <3> QED  BY <2>3, <3>1, <1>15, <1>14, <1>13, Groups, SMT
  <2>4. CASE k = 4
    <3>1. /\ d[1] % 128 = group(n, 1) /\ d[2] % 128 = group(n, 2)
          /\ d[3] % 128 = group(n, 3) /\ d[4] % 128 = group(n, 4)
      BY <2>4, <1>1, SMT
    <3> QED  BY <2>4, <3>1, <1>15, <1>14, Groups, SMT
  <2> QED  BY <2>1, <2>2, <2>3, <2>4, <1>1, SMT
<1>4. ~(k > Len(d)) /\ ~(k = 4 /\ d[4] >= 128)
  BY <1>1, <1>10, SMT
<1>5. getRemainLength(d) = [length |-> n, byteCount |-> k]
  BY <1>2, <1>3, <1>4, SMT DEF getRemainLength, lengthUpTo
<1> QED  BY <1>2, <1>5, SMT DEF k

\* A slice of the stream (body and what follows it, in Decode) is known by its
\* place and its elements.
LEMMA SliceIs ==
    ASSUME NEW S, NEW w \in Seq(S), NEW b \in Seq(S), NEW m \in Nat, NEW e,
           e = m + Len(b), e <= Len(w),
           \A i \in 1..Len(b) : w[m + i] = b[i]
    PROVE  SubSeq(w, m + 1, e) = b
<1> DEFINE t == SubSeq(w, m + 1, e)
<1>1. /\ Len(b) \in Nat /\ e \in Nat /\ Len(w) \in Nat
  OBVIOUS
<1>2. \A i \in (m + 1)..e : w[i] \in S
  BY <1>1
<1>3. /\ t \in Seq(S) /\ Len(t) = Len(b)
      /\ \A i \in 1..Len(b) : t[i] = w[m + i]
  BY <1>1, <1>2, SubSeqProperties
<1> HIDE DEF t
<1>4. t = b
  BY <1>1, <1>3, SeqEqual
<1> QED  BY <1>4 DEF t

\* What BasePacket.write puts in front of a body lets Decode find the body: the
\* length read by getRemainLength is that of the body, the body is what
\* io.ReadFull reads, and what follows it on the stream is left for the next
\* call.  This holds for every body that is not too large and whatever follows.
THEOREM FrameRoundTrip ==
    ASSUME NEW first \in Byte, NEW data \in Seq(Byte), NEW s \in Seq(Byte),
           ~tooLarge(data)
    PROVE  LET w == write(first, data) \o s
           IN  /\ wholeFrame(w)
               /\ remaining(w) = Len(data)
               /\ frameBody(w) = data
               /\ frameRest(w) = s
<1> DEFINE n == Len(data)
           v == varIntBytes(n)
           w == write(first, data) \o s
<1>1. n \in Nat /\ n < varIntLimit
  BY maxMsgSizeAssumption, LenProperties, SMT DEF tooLarge, varIntLimit
<1>2. /\ v \in Seq(Byte) /\ Len(v) = varIntLen(n) /\ varIntLen(n) \in 1..4
  BY <1>1, VarIntBytesType, SMT
<1>3. w = (<<first>> \o v \o data) \o s
  BY SMT DEF write
<1>4. /\ w \in Seq(Byte)
      /\ Len(w) = 1 + Len(v) + n + Len(s)
      /\ \A i \in 1..Len(v) : w[1 + i] = v[i]
      /\ \A i \in 1..n : w[1 + Len(v) + i] = data[i]
      /\ \A i \in 1..Len(s) : w[1 + Len(v) + n + i] = s[i]
  <2> DEFINE u == (<<first>> \o v \o data) \o s
  <2>1. v \in Seq(Byte)
    BY <1>2
  <2> HIDE DEF v, w
  <2>2. u \in Seq(Byte) /\ Len(u) = 1 + Len(v) + n + Len(s)
    BY <2>1
  <2>3. \A i \in 1..Len(v) : u[1 + i] = v[i]
    BY <2>1
  <2>4. \A i \in 1..n : u[1 + Len(v) + i] = data[i]
    BY <2>1
  <2>5. \A i \in 1..Len(s) : u[1 + Len(v) + n + i] = s[i]
    BY <2>1
  <2>6. w = u
    BY <1>3
  <2> HIDE DEF u
  <2> QED  BY <2>2, <2>3, <2>4, <2>5, <2>6
<1>13. /\ Tail(w) \in Seq(Byte)
       /\ Len(Tail(w)) = Len(v) + n + Len(s)
       /\ \A i \in 1..Len(v) : Tail(w)[i] = v[i]
  <2>1. Len(v) \in Nat /\ n \in Nat /\ Len(s) \in Nat
    BY <1>1, <1>2, LenProperties, SMT
  <2> HIDE DEF v, w, n
  <2>2. w # <<>>
    BY <1>4, <2>1
  <2>3. /\ Tail(w) \in Seq(Byte) /\ Len(Tail(w)) = Len(w) - 1
        /\ \A i \in 1..Len(Tail(w)) : Tail(w)[i] = w[i + 1]
    BY <1>4, <2>2, HeadTailProperties
  <2> QED  BY <1>4, <2>1, <2>3
<1>5. Len(s) \in Nat
  BY LenProperties, SMT
<1> HIDE DEF n, w
<1>6. /\ lastByte(Tail(w)) = varIntLen(n)
      /\ getRemainLength(Tail(w)) = [length |-> n, byteCount |-> varIntLen(n)]
  <2>1. /\ Len(Tail(w)) >= varIntLen(n)
        /\ \A i \in 1..varIntLen(n) : Tail(w)[i] = varIntBytes(n)[i]
    <3>1. /\ Len(Tail(w)) >= Len(v)
          /\ \A i \in 1..Len(v) : Tail(w)[i] = v[i]
      <4>1. Len(v) \in Nat
        BY <1>2, SMT
      <4> HIDE DEF v
      <4>2. Len(Tail(w)) >= Len(v)
        BY <4>1, <1>1, <1>13, <1>5, SMT
      <4> QED  BY <4>2, <1>13
    <3> QED  BY <1>2, <3>1
  <2> QED  BY <1>1, <1>13, <2>1, LengthReadBack
<1>7. remaining(w) = n
  BY <1>6, SMT DEF remaining
<1> HIDE DEF v
<1>8. bodyStart(w) = 2 + Len(v)
  BY <1>1, <1>2, <1>13, <1>5, <1>6, SMT DEF bodyStart
<1>9. /\ bodyStart(w) + remaining(w) - 1 = 1 + Len(v) + n
      /\ bodyStart(w) + remaining(w) = 2 + Len(v) + n
  BY <1>1, <1>2, <1>7, <1>8, SMT
<1>10. frameBody(w) = data
  <2> DEFINE m == 1 + Len(v)
             e == bodyStart(w) + remaining(w) - 1
  <2>1. m \in Nat /\ e = m + Len(data) /\ e <= Len(w) /\ bodyStart(w) = m + 1
    BY <1>1, <1>2, <1>4, <1>5, <1>8, <1>9, SMT DEF n
  <2>2. \A i \in 1..Len(data) : w[m + i] = data[i]
    BY <1>4 DEF n
  <2> HIDE DEF m
  <2>3. SubSeq(w, m + 1, e) = data
    <3> HIDE DEF e
    <3> QED  BY <1>4, <2>1, <2>2, SliceIs
  <2> QED  BY <2>1, <2>3 DEF frameBody
<1>11. frameRest(w) = s
  <2> DEFINE m == 1 + Len(v) + n
             e == Len(w)
  <2>1. m \in Nat /\ e = m + Len(s) /\ e <= Len(w) /\ bodyStart(w) + remaining(w) = m + 1
    BY <1>1, <1>2, <1>4, <1>5, <1>9, SMT
  <2>2. \A i \in 1..Len(s) : w[m + i] = s[i]
    BY <1>4
  <2> HIDE DEF m
  <2>3. SubSeq(w, m + 1, e) = s
    <3> HIDE DEF e
    <3> QED  BY <1>4, <2>1, <2>2, SliceIs
  <2> QED  BY <2>1, <2>3 DEF frameRest
<1>12. wholeFrame(w)
  BY <1>1, <1>2, <1>4, <1>5, <1>9, SMT DEF wholeFrame
<1> QED  BY <1>7, <1>10, <1>11, <1>12, SMT DEF n, w

\* A set of numbers that is not empty has a smallest one.
LEMMA LeastNat ==
    ASSUME NEW T, T \subseteq Nat, T # {}
    PROVE  \E m \in T : \A k \in T : m <= k
<1> DEFINE R == {ss \in Nat \X Nat : ss[1] < ss[2]}
<1>1. IsWellFoundedOn(R, Nat)
  BY NatLessThanWellFounded DEF OpToRel
<1> HIDE DEF R
<1>2. PICK m \in T : \A k \in T : ~(<<k, m>> \in R)
  BY <1>1, WFMin
<1>3. ASSUME NEW k \in T PROVE m <= k
  <2>1. <<k, m>> \in Nat \X Nat /\ <<k, m>>[1] = k /\ <<k, m>>[2] = m
    OBVIOUS
  <2>2. ~(k < m)
    BY <1>2, <2>1, Zenon DEF R
  <2> QED BY <2>2
<1> QED BY <1>3

\* Induction over numbers, for a set instead of an operator.
LEMMA Induct ==
    ASSUME NEW T, 0 \in T, \A n \in Nat : n \in T => n + 1 \in T
    PROVE  Nat \subseteq T
<1> SUFFICES ASSUME Nat \ T # {} PROVE FALSE
  OBVIOUS
<1>1. PICK m \in Nat \ T : \A k \in Nat \ T : m <= k
  BY LeastNat
<1>2. m # 0 /\ m - 1 \in Nat /\ m - 1 \in T
  BY <1>1
<1> QED BY <1>1, <1>2

\* f is the function that FlattenSeq builds over the first n sequences of seqs.
Flattens(f, seqs, n) == f = [i \in 1..n |-> IF i = 1 THEN seqs[i] ELSE f[i - 1] \o seqs[i]]

\* The function that FlattenSeq chooses exists, up to every position.
LEMMA FlattensExist ==
    ASSUME NEW S, NEW seqs \in Seq(Seq(S))
    PROVE  \A n \in Nat : n <= Len(seqs) => \E f \in [1..n -> Seq(S)] : Flattens(f, seqs, n)
<1> DEFINE Is(n) == n <= Len(seqs) => \E f \in [1..n -> Seq(S)] : Flattens(f, seqs, n)
           T == {n \in Nat : Is(n)}
<1>0. Len(seqs) \in Nat /\ \A i \in 1..Len(seqs) : seqs[i] \in Seq(S)
  OBVIOUS
<1>1. 0 \in T
  <2> DEFINE f == [i \in 1..0 |-> <<>>]
  <2>1. f \in [1..0 -> Seq(S)] /\ f = [i \in 1..0 |-> IF i = 1 THEN seqs[i] ELSE f[i - 1] \o seqs[i]]
    OBVIOUS
  <2> HIDE DEF f
  <2> QED BY <2>1 DEF Flattens
<1>2. ASSUME NEW n \in Nat, n \in T
      PROVE  n + 1 \in T
  <2> SUFFICES ASSUME n + 1 <= Len(seqs)
               PROVE  \E f \in [1..(n + 1) -> Seq(S)] : Flattens(f, seqs, n + 1)
    OBVIOUS
  <2>1. PICK f \in [1..n -> Seq(S)] : Flattens(f, seqs, n)
    BY <1>0, <1>2
  <2> DEFINE e == IF n = 0 THEN seqs[1] ELSE f[n] \o seqs[n + 1]
             g == [i \in 1..(n + 1) |-> IF i = n + 1 THEN e ELSE f[i]]
  <2>2. e \in Seq(S)
    <3>1. n + 1 \in 1..Len(seqs) /\ 1 \in 1..Len(seqs) /\ (n # 0 => n \in 1..n)
      BY <1>0
    <3>2. seqs[n + 1] \in Seq(S) /\ seqs[1] \in Seq(S) /\ (n # 0 => f[n] \in Seq(S))
      BY <1>0, <3>1
    <3> QED BY <3>2, ConcatProperties
  <2> HIDE DEF e
  <2>3. g \in [1..(n + 1) -> Seq(S)]
    BY <2>2
  <2>4. ASSUME NEW i \in 1..(n + 1)
        PROVE  g[i] = IF i = 1 THEN seqs[i] ELSE g[i - 1] \o seqs[i]
    <3>1. CASE i = n + 1
      <4>1. g[i] = e
        BY <3>1
      <4>2. CASE n = 0
        BY <3>1, <4>1, <4>2 DEF e
      <4>3. CASE n # 0
        <5>1. i # 1 /\ i - 1 = n /\ n \in 1..(n + 1) /\ n # n + 1
          BY <3>1, <4>3
        <5>2. g[i - 1] = f[n]
          BY <5>1
        <5>3. e = f[n] \o seqs[n + 1]
          BY <4>3 DEF e
        <5> HIDE DEF g
        <5> QED BY <3>1, <4>1, <5>1, <5>2, <5>3
      <4> QED BY <4>2, <4>3
    <3>2. CASE i # n + 1
      <4>1. i \in 1..n /\ g[i] = f[i]
        BY <3>2
      <4>2. f[i] = IF i = 1 THEN seqs[i] ELSE f[i - 1] \o seqs[i]
        BY <2>1, <4>1 DEF Flattens
      <4>3. i # 1 => i - 1 \in 1..(n + 1) /\ i - 1 # n + 1
        BY <4>1
      <4>4. i # 1 => g[i - 1] = f[i - 1]
        BY <4>3
      <4> HIDE DEF g
      <4> QED BY <4>1, <4>2, <4>4
    <3> QED BY <3>1, <3>2
  <2>5. g = [i \in 1..(n + 1) |-> g[i]]
    OBVIOUS
  <2> HIDE DEF g
  <2>6. g = [i \in 1..(n + 1) |-> IF i = 1 THEN seqs[i] ELSE g[i - 1] \o seqs[i]]
    BY <2>4, <2>5
  <2> QED BY <2>3, <2>6 DEF Flattens
<1>3. Nat \subseteq T
  <2> HIDE DEF Is
  <2> QED BY <1>1, <1>2, Induct
<1> QED BY <1>3

\* FlattenSeq returns the last value of a function that satisfies its equation.
LEMMA FlattenIs ==
    ASSUME NEW S, NEW seqs \in Seq(Seq(S)), seqs # <<>>
    PROVE  \E f : Flattens(f, seqs, Len(seqs)) /\ FlattenSeq(seqs) = f[Len(seqs)]
<1> DEFINE n == Len(seqs)
<1>1. n \in Nat /\ n # 0 /\ n <= n
  BY EmptySeq
<1>2. FlattenSeq(seqs) = (CHOOSE f : Flattens(f, seqs, n))[n]
  BY <1>1 DEF FlattenSeq, Flattens
<1>3. \E f : Flattens(f, seqs, n)
  BY <1>1, FlattensExist
<1>4. Flattens(CHOOSE f : Flattens(f, seqs, n), seqs, n)
  BY <1>3, Zenon
<1> QED BY <1>2, <1>4

\* The function has the same values as far as the sequences are the same.
LEMMA FlattensAgree ==
    ASSUME NEW S, NEW s \in Seq(Seq(S)), NEW t \in Seq(Seq(S)), NEW m \in Nat, NEW n \in Nat, NEW f, NEW g,
           Flattens(f, s, m), Flattens(g, t, n), m <= n, m <= Len(s), \A i \in 1..m : s[i] = t[i]
    PROVE  \A i \in 1..m : f[i] = g[i] /\ f[i] \in Seq(S)
<1> DEFINE T == {i \in Nat : i \in 1..m => f[i] = g[i] /\ f[i] \in Seq(S)}
<1>0. /\ \A i \in 1..m : f[i] = IF i = 1 THEN s[i] ELSE f[i - 1] \o s[i]
      /\ \A i \in 1..n : g[i] = IF i = 1 THEN t[i] ELSE g[i - 1] \o t[i]
  BY DEF Flattens
<1>1. 0 \in T
  OBVIOUS
<1>2. ASSUME NEW i \in Nat, i \in T
      PROVE  i + 1 \in T
  <2> SUFFICES ASSUME i + 1 \in 1..m PROVE f[i + 1] = g[i + 1] /\ f[i + 1] \in Seq(S)
    OBVIOUS
  <2>1. i + 1 \in 1..n /\ (i + 1) - 1 = i /\ i + 1 \in 1..Len(s)
    OBVIOUS
  <2>2. s[i + 1] = t[i + 1] /\ s[i + 1] \in Seq(S)
    BY <2>1
  <2>3. CASE i = 0
    <3>1. f[i + 1] = s[i + 1] /\ g[i + 1] = t[i + 1]
      BY <1>0, <2>1, <2>3
    <3> QED BY <3>1, <2>2
  <2>4. CASE i # 0
    <3>1. i \in 1..m /\ i + 1 # 1
      BY <2>1, <2>4
    <3>2. f[i + 1] = f[i] \o s[i + 1] /\ g[i + 1] = g[i] \o t[i + 1]
      BY <1>0, <2>1, <3>1
    <3>3. f[i] = g[i] /\ f[i] \in Seq(S)
      BY <1>2, <3>1
    <3> QED BY <2>2, <3>2, <3>3, ConcatProperties
  <2> QED BY <2>3, <2>4
<1>3. Nat \subseteq T
  BY <1>1, <1>2, Induct
<1> QED BY <1>3

\* No sequences joined are the empty sequence.
LEMMA FlattenEmpty == FlattenSeq(<<>>) = <<>>
BY DEF FlattenSeq

\* Sequences over S joined are a sequence over S.
LEMMA FlattenType ==
    ASSUME NEW S, NEW seqs \in Seq(Seq(S))
    PROVE  FlattenSeq(seqs) \in Seq(S)
<1>1. CASE seqs = <<>>
  BY <1>1, FlattenEmpty, EmptySeq
<1>2. CASE seqs # <<>>
  <2> DEFINE n == Len(seqs)
  <2>1. PICK f : Flattens(f, seqs, n) /\ FlattenSeq(seqs) = f[n]
    BY <1>2, FlattenIs
  <2>2. n \in Nat /\ n # 0 /\ n <= n
    BY <1>2, EmptySeq
  <2>3. n \in 1..n
    BY <2>2
  <2> HIDE DEF n
  <2>4. n <= Len(seqs)
    BY <2>2 DEF n
  <2>5. \A i \in 1..n : f[i] = f[i] /\ f[i] \in Seq(S)
    BY <2>1, <2>2, <2>4, FlattensAgree
  <2> QED BY <2>1, <2>3, <2>5
<1> QED BY <1>1, <1>2

\* One more sequence at the end comes behind the others.
LEMMA FlattenAppend ==
    ASSUME NEW S, NEW seqs \in Seq(Seq(S)), NEW e \in Seq(S)
    PROVE  FlattenSeq(Append(seqs, e)) = FlattenSeq(seqs) \o e
<1> DEFINE t == Append(seqs, e)
           n == Len(seqs)
<1>0. /\ t \in Seq(Seq(S)) /\ t # <<>> /\ Len(t) = n + 1 /\ n \in Nat
      /\ t[n + 1] = e /\ \A i \in 1..n : seqs[i] = t[i]
  BY AppendProperties, LenProperties
<1> HIDE DEF t, n
<1>1. PICK g : Flattens(g, t, n + 1) /\ FlattenSeq(t) = g[n + 1]
  BY <1>0, FlattenIs
<1>a. n + 1 \in 1..(n + 1) /\ (n + 1) - 1 = n
  BY <1>0
<1>b. g[n + 1] = IF n + 1 = 1 THEN t[n + 1] ELSE g[(n + 1) - 1] \o t[n + 1]
  BY <1>1, <1>a DEF Flattens
<1>2. CASE seqs = <<>>
  <2>1. n = 0 /\ <<>> \o e = e
    BY <1>2, ConcatEmptySeq DEF n
  <2>2. g[n + 1] = e
    BY <1>0, <1>b, <2>1
  <2>3. FlattenSeq(seqs) = <<>>
    BY <1>2, FlattenEmpty
  <2> QED BY <1>1, <2>1, <2>2, <2>3 DEF t
<1>3. CASE seqs # <<>>
  <2>1. PICK f : Flattens(f, seqs, n) /\ FlattenSeq(seqs) = f[n]
    BY <1>3, FlattenIs DEF n
  <2>0. n # 0
    BY <1>3, EmptySeq DEF n
  <2>2. n \in 1..n /\ n <= n + 1 /\ n + 1 # 1 /\ n <= n /\ n + 1 \in Nat
    BY <1>0, <2>0
  <2>5. n <= Len(seqs)
    BY <2>2 DEF n
  <2>3. f[n] = g[n]
    <3> DEFINE m == n + 1
    <3>2. t \in Seq(Seq(S)) /\ n \in Nat /\ m \in Nat /\ n <= m /\ \A i \in 1..n : seqs[i] = t[i]
      BY <1>0, <2>2
    <3>3. Flattens(g, t, m)
      BY <1>1
    <3> HIDE DEF m
    <3>1. \A i \in 1..n : f[i] = g[i] /\ f[i] \in Seq(S)
      BY <2>1, <2>5, <3>2, <3>3, FlattensAgree
    <3> QED BY <2>2, <3>1
  <2>4. g[n + 1] = g[n] \o e
    BY <1>0, <1>a, <1>b, <2>2
  <2> QED BY <1>1, <2>1, <2>3, <2>4 DEF t
<1> QED BY <1>2, <1>3

\* g starts with e and goes on with the first n sequences of t.
Behind(g, e, t, n) == g[1] = e /\ \A i \in 1..n : g[i + 1] = g[i] \o t[i]

AllSeqs(f, n, S) == \A i \in 1..n : f[i] \in Seq(S)

\* One more sequence in front of those that are joined
LEMMA FlattensShift ==
    ASSUME NEW S, NEW e \in Seq(S), NEW n \in Nat, NEW t, NEW f, NEW g,
           AllSeqs(f, n, S), AllSeqs(t, n, S), Flattens(f, t, n), Behind(g, e, t, n)
    PROVE  \A i \in 1..n : g[i + 1] = e \o f[i]
<1>0. /\ \A i \in 1..n : f[i] \in Seq(S) /\ t[i] \in Seq(S)
      /\ \A i \in 1..n : f[i] = IF i = 1 THEN t[i] ELSE f[i - 1] \o t[i]
      /\ g[1] = e
      /\ \A i \in 1..n : g[i + 1] = g[i] \o t[i]
  BY DEF AllSeqs, Flattens, Behind
<1> DEFINE T == {k \in Nat : k \in 1..n => g[k + 1] = e \o f[k]}
<1>1. 0 \in T
  OBVIOUS
<1>2. ASSUME NEW k \in Nat, k \in T
      PROVE  k + 1 \in T
  <2> SUFFICES ASSUME k + 1 \in 1..n PROVE g[(k + 1) + 1] = e \o f[k + 1]
    OBVIOUS
  <2>1. g[(k + 1) + 1] = g[k + 1] \o t[k + 1]
    BY <1>0
  <2>2. CASE k = 0
    <3>1. f[k + 1] = t[k + 1] /\ g[k + 1] = e
      BY <1>0, <2>2
    <3> QED BY <2>1, <3>1
  <2>3. CASE k # 0
    <3> DEFINE u == f[k]
               v == t[k + 1]
    <3>1. k \in 1..n /\ k + 1 # 1 /\ (k + 1) - 1 = k
      BY <2>3
    <3>2. f[k + 1] = u \o v /\ g[k + 1] = e \o u /\ u \in Seq(S) /\ v \in Seq(S)
      BY <1>0, <1>2, <3>1
    <3>3. g[(k + 1) + 1] = (e \o u) \o v
      BY <2>1, <3>2
    <3> HIDE DEF u, v, T
    <3>4. (e \o u) \o v = e \o (u \o v)
      BY <3>2, ConcatAssociative, SMTT(30)
    <3> QED BY <3>2, <3>3, <3>4
  <2> QED BY <2>2, <2>3
<1>3. Nat \subseteq T
  BY <1>1, <1>2, Induct
<1> QED BY <1>3

\* The first sequence comes before the others.
LEMMA FlattenHead ==
    ASSUME NEW S, NEW seqs \in Seq(Seq(S)), seqs # <<>>
    PROVE  FlattenSeq(seqs) = Head(seqs) \o FlattenSeq(Tail(seqs))
<1> DEFINE t == Tail(seqs)
           n == Len(t)
           e == Head(seqs)
<1>0. /\ t \in Seq(Seq(S)) /\ n \in Nat /\ Len(seqs) = n + 1 /\ e \in Seq(S) /\ seqs[1] = e
      /\ \A i \in 1..n : t[i] = seqs[i + 1] /\ t[i] \in Seq(S)
  <2>1. t \in Seq(Seq(S)) /\ n = Len(seqs) - 1 /\ e \in Seq(S) /\ \A i \in 1..n : t[i] = seqs[i + 1]
    BY HeadTailProperties
  <2>2. Len(seqs) \in Nat \ {0} /\ seqs[1] = e
    BY EmptySeq
  <2> HIDE DEF t, e
  <2>3. n \in Nat /\ \A i \in 1..n : t[i] \in Seq(S)
    BY <2>1, LenProperties, ElementOfSeq
  <2> HIDE DEF n
  <2> QED BY <2>1, <2>2, <2>3
<1> HIDE DEF t, n, e
<1>1. PICK g : Flattens(g, seqs, n + 1) /\ FlattenSeq(seqs) = g[n + 1]
  BY <1>0, FlattenIs
<1>g. \A i \in 1..(n + 1) : g[i] = IF i = 1 THEN seqs[i] ELSE g[i - 1] \o seqs[i]
  BY <1>1 DEF Flattens
<1>a. g[1] = e
  <2>1. 1 \in 1..(n + 1)
    BY <1>0
  <2> QED BY <1>0, <1>g, <2>1
<1>2. CASE t = <<>>
  <2>1. n = 0 /\ e \o <<>> = e
    BY <1>0, <1>2, EmptySeq, ConcatEmptySeq DEF n
  <2>2. FlattenSeq(t) = <<>>
    BY <1>2, FlattenEmpty
  <2> QED BY <1>1, <1>a, <2>1, <2>2 DEF t, e
<1>3. CASE t # <<>>
  <2>1. PICK f : Flattens(f, t, n) /\ FlattenSeq(t) = f[n]
    BY <1>0, <1>3, FlattenIs DEF n
  <2>b. n <= n /\ n <= Len(t)
    BY <1>0 DEF n
  <2>c. \A i \in 1..n : f[i] = f[i] /\ f[i] \in Seq(S)
    BY <1>0, <2>1, <2>b, FlattensAgree
  <2>2. ASSUME NEW i \in 1..n PROVE g[i + 1] = g[i] \o t[i]
    <3>1. i + 1 \in 1..(n + 1) /\ i + 1 # 1 /\ (i + 1) - 1 = i /\ seqs[i + 1] = t[i]
      BY <1>0
    <3>2. g[i + 1] = g[(i + 1) - 1] \o seqs[i + 1]
      BY <1>g, <3>1
    <3> QED BY <3>1, <3>2
  <2>d. e \in Seq(S) /\ n \in Nat /\ AllSeqs(f, n, S) /\ AllSeqs(t, n, S) /\ Behind(g, e, t, n)
    BY <1>0, <1>a, <2>2, <2>c DEF AllSeqs, Behind
  <2>4. \A i \in 1..n : g[i + 1] = e \o f[i]
    BY <2>1, <2>d, FlattensShift
  <2>0. n # 0
    BY <1>0, <1>3, EmptySeq DEF n
  <2>5. n \in 1..n
    BY <1>0, <2>0
  <2>6. g[n + 1] = e \o f[n]
    BY <2>4, <2>5
  <2> QED BY <1>1, <2>1, <2>6 DEF t, e
<1> QED BY <1>2, <1>3

-----------------------------------------------------------------------------
(* The fixed header *)

header(p) == 16 * CtrlType[p.type] + flagBits(p)

Types == {"CONNECT", "CONNACK", "PUBLISH", "PUBACK", "PUBREC", "PUBREL", "PUBCOMP",
          "SUBSCRIBE", "SUBACK", "UNSUBSCRIBE", "UNSUBACK", "PINGREQ", "PINGRESP",
          "DISCONNECT", "AUTH"}

\* CtrlType, type by type.
LEMMA CtrlTypes ==
    /\ DOMAIN CtrlType = Types
    /\ CtrlType["CONNECT"] = 1 /\ CtrlType["CONNACK"] = 2 /\ CtrlType["PUBLISH"] = 3
    /\ CtrlType["PUBACK"] = 4 /\ CtrlType["PUBREC"] = 5 /\ CtrlType["PUBREL"] = 6
    /\ CtrlType["PUBCOMP"] = 7 /\ CtrlType["SUBSCRIBE"] = 8 /\ CtrlType["SUBACK"] = 9
    /\ CtrlType["UNSUBSCRIBE"] = 10 /\ CtrlType["UNSUBACK"] = 11 /\ CtrlType["PINGREQ"] = 12
    /\ CtrlType["PINGRESP"] = 13 /\ CtrlType["DISCONNECT"] = 14 /\ CtrlType["AUTH"] = 15
BY DEF CtrlType, Types

\* A control packet type fits in four bits.
LEMMA TypeRange == \A t \in Types : CtrlType[t] \in 1..15
BY CtrlTypes DEF Types

\* Each packet type has its own number.
LEMMA TypesDiffer == \A t, u \in Types : CtrlType[t] = CtrlType[u] => t = u
BY CtrlTypes DEF Types

\* Every packet has one of the types.
LEMMA PacketType == \A p \in Packets : p.type \in Types
BY PacketsAssumption DEF Packet, Types

\* The flags fit in the other four bits.
LEMMA FlagRange == \A p \in Packets : flagBits(p) \in 0..15
<1> SUFFICES ASSUME NEW p \in Packets PROVE flagBits(p) \in 0..15
  OBVIOUS
<1>1. CASE p.type = "PUBLISH"
  <2>1. p.isDup \in BOOLEAN /\ p.isRetain \in BOOLEAN /\ p.qos \in 0..2
    BY <1>1, PacketsAssumption DEF Packet
  <2> QED BY <1>1, <2>1 DEF flagBits, boolToByte
<1>2. CASE p.type # "PUBLISH"
  BY <1>2 DEF flagBits
<1> QED BY <1>1, <1>2

\* The first byte of a packet is a byte, and Decode takes the type back out of it.
LEMMA HeaderOf ==
    ASSUME NEW p \in Packets
    PROVE  header(p) \in Byte /\ header(p) \div 16 = CtrlType[p.type] /\ typeOf(header(p)) = p.type
<1> DEFINE c == CtrlType[p.type]
           f == flagBits(p)
<1>1. p.type \in Types /\ c \in 1..15 /\ f \in 0..15
  BY PacketType, TypeRange, FlagRange
<1>2. header(p) = 16 * c + f
  BY DEF header
<1> HIDE DEF c, f
<1>3. header(p) \in Byte /\ header(p) \div 16 = c
  BY <1>1, <1>2 DEF Byte
<1>4. typeOf(header(p)) = CHOOSE t \in Types : CtrlType[t] = c
  BY <1>3, CtrlTypes DEF typeOf
<1>5. \A t \in Types : CtrlType[t] = c <=> t = p.type
  BY <1>1, TypesDiffer DEF c
<1>6. (CHOOSE t \in Types : CtrlType[t] = c) = p.type
  BY <1>1, <1>5
<1> QED BY <1>3, <1>4, <1>6 DEF c

-----------------------------------------------------------------------------
(* The props methods *)

\* noProps is the function without arguments.
LEMMA NoKeys == DOMAIN noProps = {} /\ \A f : DOMAIN f = {} /\ f = [x \in DOMAIN f |-> f[x]] => f = noProps
BY DEF noProps

\* propertySet.set on a set without the key leaves it as it is.
LEMMA SetKeyNoProps == \A k, v : setKey(noProps, k, v) = noProps
<1> SUFFICES ASSUME NEW k, NEW v PROVE setKey(noProps, k, v) = noProps
  OBVIOUS
<1>1. del(noProps, k) = [x \in {} \ {k} |-> noProps[x]]
  BY NoKeys DEF del, Restrict
<1>2. del(noProps, k) = noProps
  BY <1>1 DEF noProps
<1>3. add(noProps, k, v) = noProps
  BY NoKeys DEF add
<1> QED BY <1>2, <1>3 DEF setKey

\* An empty propertySet has no bytes.
LEMMA SetBytesNoProps == setBytes(noProps) = <<>>
<1> DEFINE D == DOMAIN noProps
           keyed(k) == FlattenSeq([i \in 1..Len(noProps[k]) |-> <<k>> \o noProps[k][i]])
           Eq(f) == f = [s \in SUBSET D |-> IF s = {} THEN <<>>
                                            ELSE f[s \ {CHOOSE x \in s : TRUE}] \o keyed(CHOOSE x \in s : TRUE)]
<1>1. setBytes(noProps) = (CHOOSE f : Eq(f))[D]
  BY DEF setBytes, FoldSet, MapThenFoldSet
<1>2. D = {}
  BY NoKeys
<1> HIDE DEF D, keyed
<1>3. Eq([s \in SUBSET D |-> <<>>])
  BY <1>2
<1>4. Eq(CHOOSE f : Eq(f))
  BY <1>3, Zenon
<1> DEFINE h == CHOOSE f : Eq(f)
<1>5. Eq(h)
  BY <1>4
<1> HIDE DEF h
<1>6. h[D] = <<>>
  BY <1>2, <1>5
<1> QED BY <1>1, <1>6 DEF h

\* However many properties are set one after the other, the propertySet stays empty.
LEMMA FoldNoProps ==
    ASSUME NEW props, IsFiniteSet(DOMAIN props)
    PROVE  viaPropertySet(props) = <<>>
<1> DEFINE D == DOMAIN props
           Eq(f) == f = [s \in SUBSET D |-> IF s = {} THEN noProps
                                            ELSE setKey(f[s \ {CHOOSE x \in s : TRUE}], CHOOSE x \in s : TRUE, props[CHOOSE x \in s : TRUE])]
           h == CHOOSE f : Eq(f)
<1>1. viaPropertySet(props) = setBytes(h[D])
  BY DEF viaPropertySet, FoldSet, MapThenFoldSet
<1> HIDE DEF D
<1>2. Eq([s \in SUBSET D |-> noProps])
  BY SetKeyNoProps
<1>3. Eq(h)
  BY <1>2, Zenon
<1> HIDE DEF h
<1>4. \A s \in SUBSET D : IsFiniteSet(s) /\ Cardinality(s) \in Nat
  BY FS_Subset, FS_CardinalityType DEF D
<1> DEFINE T == {Cardinality(s) : s \in {s \in SUBSET D : h[s] # noProps}}
<1>5. ASSUME T # {} PROVE FALSE
  <2>1. PICK m \in T : \A k \in T : m <= k
    BY <1>4, <1>5, LeastNat
  <2>2. PICK s \in SUBSET D : h[s] # noProps /\ m = Cardinality(s)
    BY <2>1
  <2> DEFINE x == CHOOSE x \in s : TRUE
  <2>3. h[s] = IF s = {} THEN noProps ELSE setKey(h[s \ {x}], x, props[x])
    BY <1>3
  <2>4. s # {}
    BY <2>2, <2>3
  <2>5. x \in s
    BY <2>4
  <2> HIDE DEF x
  <2>6. Cardinality(s \ {x}) = m - 1 /\ m \in Nat /\ s \ {x} \in SUBSET D
    BY <1>4, <2>2, <2>5, FS_RemoveElement
  <2>7. h[s \ {x}] = noProps
    BY <2>1, <2>6
  <2> QED BY <2>2, <2>3, <2>4, <2>7, SetKeyNoProps
<1>6. h[D] = noProps
  BY <1>5
<1> QED BY <1>1, <1>6, SetBytesNoProps

\* A props method that goes through a propertySet returns nothing.
LEMMA PropsBytesEmpty ==
    ASSUME NEW keys, IsFiniteSet(keys.written), NEW props
    PROVE  propsBytes(keys, props) = <<>>
<1> DEFINE r == [k \in {k \in DOMAIN props : k \in keys.written} |-> props[k]]
<1>1. propsBytes(keys, props) = viaPropertySet(r)
  BY DEF propsBytes, RestrictDomain, Restrict
<1>2. DOMAIN r \subseteq keys.written
  OBVIOUS
<1> HIDE DEF r
<1>3. IsFiniteSet(DOMAIN r)
  BY <1>2, FS_Subset
<1> QED BY <1>1, <1>3, FoldNoProps

\* So none of the packets but SUBSCRIBE writes its properties.
LEMMA NoPropsWritten ==
    ASSUME NEW props
    PROVE  /\ propsBytes(ConnProps, props) = <<>> /\ propsBytes(WillProps, props) = <<>>
           /\ propsBytes(ConnAckProps, props) = <<>> /\ propsBytes(DisconnProps, props) = <<>>
           /\ propsBytes(PublishProps, props) = <<>> /\ propsBytes(PubAckProps, props) = <<>>
           /\ propsBytes(PubRecvProps, props) = <<>> /\ propsBytes(PubRelProps, props) = <<>>
           /\ propsBytes(PubCompProps, props) = <<>> /\ propsBytes(SubAckProps, props) = <<>>
           /\ propsBytes(UnsubProps, props) = <<>> /\ propsBytes(UnsubAckProps, props) = <<>>
           /\ propsBytes(AuthProps, props) = <<>>
<1>1. IsFiniteSet(0..255)
  <2>1. 0 \in Int /\ 255 \in Int
    OBVIOUS
  <2> QED BY <2>1, FS_Interval, Zenon
<1>2. \A keys : keys.written \subseteq 0..255 => propsBytes(keys, props) = <<>>
  BY <1>1, FS_Subset, PropsBytesEmpty
<1>3. /\ ConnProps.written \subseteq 0..255 /\ WillProps.written \subseteq 0..255
      /\ ConnAckProps.written \subseteq 0..255 /\ DisconnProps.written \subseteq 0..255
      /\ PublishProps.written \subseteq 0..255 /\ PubAckProps.written \subseteq 0..255
      /\ PubRecvProps.written \subseteq 0..255 /\ PubRelProps.written \subseteq 0..255
      /\ PubCompProps.written \subseteq 0..255 /\ SubAckProps.written \subseteq 0..255
      /\ UnsubProps.written \subseteq 0..255 /\ UnsubAckProps.written \subseteq 0..255
      /\ AuthProps.written \subseteq 0..255
  BY DEF ConnProps, WillProps, ConnAckProps, DisconnProps, PublishProps, PubAckProps,
         PubRecvProps, PubRelProps, PubCompProps, SubAckProps, UnsubProps, UnsubAckProps, AuthProps
<1>4. propsBytes(ConnProps, props) = <<>>
  BY <1>2, <1>3, ZenonT(30)
<1>5. propsBytes(WillProps, props) = <<>>
  BY <1>2, <1>3, ZenonT(30)
<1>6. propsBytes(ConnAckProps, props) = <<>>
  BY <1>2, <1>3, Zenon
<1>7. propsBytes(DisconnProps, props) = <<>>
  BY <1>2, <1>3, Zenon
<1>8. propsBytes(PublishProps, props) = <<>>
  BY <1>2, <1>3, Zenon
<1>9. propsBytes(PubAckProps, props) = <<>>
  BY <1>2, <1>3, Zenon
<1>10. propsBytes(PubRecvProps, props) = <<>>
  BY <1>2, <1>3, ZenonT(30)
<1>11. propsBytes(PubRelProps, props) = <<>>
  BY <1>2, <1>3, ZenonT(30)
<1>12. propsBytes(PubCompProps, props) = <<>>
  BY <1>2, <1>3, ZenonT(30)
<1>13. propsBytes(SubAckProps, props) = <<>>
  BY <1>2, <1>3, Zenon
<1>14. propsBytes(UnsubProps, props) = <<>>
  BY <1>2, <1>3, ZenonT(30)
<1>15. propsBytes(UnsubAckProps, props) = <<>>
  BY <1>2, <1>3, ZenonT(30)
<1>16. propsBytes(AuthProps, props) = <<>>
  BY <1>2, <1>3, Zenon
<1> QED BY <1>4, <1>5, <1>6, <1>7, <1>8, <1>9, <1>10, <1>11, <1>12, <1>13, <1>14, <1>15, <1>16

-----------------------------------------------------------------------------
(* Sequences of bytes *)

\* Bytes behind bytes are bytes.
LEMMA Joined ==
    ASSUME NEW a \in Seq(Byte), NEW b \in Seq(Byte)
    PROVE  a \o b \in Seq(Byte) /\ Len(a \o b) = Len(a) + Len(b)
BY ConcatProperties

\* A byte alone.
LEMMA OneByte == ASSUME NEW a \in Byte PROVE <<a>> \in Seq(Byte) /\ Len(<<a>>) = 1
OBVIOUS

\* Two bytes.
LEMMA TwoBytes == ASSUME NEW a \in Byte, NEW b \in Byte PROVE <<a, b>> \in Seq(Byte) /\ Len(<<a, b>>) = 2
OBVIOUS

\* A 16 bit number and its bound.
LEMMA Uint16Bound == ASSUME NEW n \in Uint16 PROVE n \in Nat /\ n <= 65535
<1>1. maxUint16 = 65535
  BY DEF maxUint16
<1>2. n \in 0..maxUint16
  BY Zenon DEF Uint16
<1> DEFINE m == maxUint16
<1> HIDE DEF m
<1>3. n \in Nat /\ n <= m
  <2>1. m \in Nat
    BY <1>1 DEF m
  <2>2. n \in 0..m
    BY <1>2, Zenon DEF m
  <2> QED BY <2>1, <2>2
<1> QED BY <1>1, <1>3 DEF m

\* putUint16 writes two bytes that add up to the number.
LEMMA PutUint16 ==
    ASSUME NEW v \in Uint16
    PROVE  /\ putUint16(v) = <<v \div 256, v % 256>>
           /\ v \div 256 \in Byte /\ v % 256 \in Byte
           /\ putUint16(v) \in Seq(Byte) /\ Len(putUint16(v)) = 2
           /\ (v \div 256) * 256 + (v % 256) = v
<1>1. v \div 256 \in 0..255 /\ v % 256 \in 0..255 /\ (v \div 256) * 256 + (v % 256) = v
  <2>1. v \in Nat /\ v <= 65535
    BY Uint16Bound
  <2> QED BY <2>1, SMTT(30)
<1> QED BY <1>1, TwoBytes DEF putUint16, Byte

\* encodeBytesWithLen writes two bytes more than it is given.
LEMMA EncodeBytes ==
    ASSUME NEW s \in Seq(Byte)
    PROVE  /\ encodeBytesWithLen(s) \in Seq(Byte)
           /\ Len(encodeBytesWithLen(s)) = 2 + Len(s)
<1> DEFINE n == Len(s)
           h == <<(n \div 256) % 256, n % 256>>
<1>1. n \in Nat
  BY LenProperties
<1>2. (n \div 256) % 256 \in Byte /\ n % 256 \in Byte
  <2> HIDE DEF n
  <2> QED BY <1>1 DEF Byte
<1>3. h \in Seq(Byte) /\ Len(h) = 2
  BY <1>2, TwoBytes
<1> HIDE DEF h
<1>4. h \o s \in Seq(Byte) /\ Len(h \o s) = 2 + Len(s)
  BY <1>3, Joined
<1> QED BY <1>4 DEF encodeBytesWithLen, h

\* The length 0 is one byte.
LEMMA VarIntZero == varIntBytes(0) = <<0>>
<1>1. varIntLen(0) = 1
  BY DEF varIntLen
<1>2. weight[1] = 1
  BY DEF weight
<1>3. varIntBytes(0) = [i \in 1..1 |-> ((0 \div weight[i]) % 128) + (IF i < 1 THEN 128 ELSE 0)]
  BY <1>1 DEF varIntBytes
<1>4. \A i \in 1..1 : ((0 \div weight[i]) % 128) + (IF i < 1 THEN 128 ELSE 0) = 0
  BY <1>2
<1>5. varIntBytes(0) = [i \in 1..1 |-> 0]
  BY <1>3, <1>4
<1> QED BY <1>5

\* writeV5 without properties: a zero between the variable header and the payload.
LEMMA WriteNoProps ==
    ASSUME NEW h \in Seq(Byte), NEW d \in Seq(Byte)
    PROVE  /\ writeV5(h, <<>>, d) = h \o (<<0>> \o d)
           /\ writeV5(h, <<>>, d) \in Seq(Byte)
           /\ Len(writeV5(h, <<>>, d)) = Len(h) + 1 + Len(d)
<1> DEFINE z == <<0>>
<1>1. z \in Seq(Byte) /\ Len(z) = 1
  BY OneByte DEF Byte
<1>2. writeV5(h, <<>>, d) = h \o z \o <<>> \o d
  BY VarIntZero DEF writeV5
<1> HIDE DEF z
<1>3. (h \o z) \o <<>> = h \o z
  BY <1>1, Joined, ConcatEmptySeq
<1>4. (h \o z) \o d = h \o (z \o d)
  BY <1>1, ConcatAssociative
<1>5. z \o d \in Seq(Byte) /\ Len(z \o d) = 1 + Len(d)
  BY <1>1, Joined
<1>6. h \o (z \o d) \in Seq(Byte) /\ Len(h \o (z \o d)) = Len(h) + (1 + Len(d))
  BY <1>5, Joined
<1>7. Len(h) \in Nat /\ Len(d) \in Nat
  BY LenProperties
<1>8. writeV5(h, <<>>, d) = h \o (z \o d)
  BY <1>2, <1>3, <1>4
<1>9. Len(h) + (1 + Len(d)) = Len(h) + 1 + Len(d)
  BY <1>7
<1> QED BY <1>6, <1>8, <1>9 DEF z

-----------------------------------------------------------------------------
(* What the WriteTo methods write *)

\* The fields of a packet, by its type
LEMMA ConnectFields ==
    ASSUME NEW p \in Packets, p.type = "CONNECT"
    PROVE  p \in [type : {"CONNECT"}, cleanSession : BOOLEAN, isWill : BOOLEAN, willQos : 0..2,
                  willRetain : BOOLEAN, username : Seq(Byte), password : Seq(Byte), clientID : Seq(Byte),
                  keepalive : Uint16, willTopic : Seq(Byte), willMessage : Seq(Byte),
                  willProps : PropertySets, props : PropertySets]
BY PacketsAssumption DEF Packet

\* The fields of a CONNACK.
LEMMA ConnAckFields ==
    ASSUME NEW p \in Packets, p.type = "CONNACK"
    PROVE  p \in [type : {"CONNACK"}, present : BOOLEAN, code : Byte, props : PropertySets]
BY PacketsAssumption DEF Packet

\* The fields of a PUBLISH.
LEMMA PublishFields ==
    ASSUME NEW p \in Packets, p.type = "PUBLISH"
    PROVE  p \in [type : {"PUBLISH"}, isDup : BOOLEAN, qos : 0..2, isRetain : BOOLEAN,
                  topicName : Seq(Byte), packetID : Uint16, payload : Seq(Byte), props : PropertySets]
BY PacketsAssumption DEF Packet

AckTypes == {"PUBACK", "PUBREC", "PUBREL", "PUBCOMP"}

\* The fields of the four acknowledgements of a PUBLISH.
LEMMA AckFields ==
    ASSUME NEW p \in Packets, p.type \in AckTypes
    PROVE  p \in [type : AckTypes, packetID : Uint16, code : Byte, props : PropertySets]
BY PacketsAssumption DEF Packet, AckTypes

\* The fields of a SUBSCRIBE, and what its properties are.
LEMMA SubscribeFields ==
    ASSUME NEW p \in Packets, p.type = "SUBSCRIBE"
    PROVE  /\ p \in [type : {"SUBSCRIBE"}, packetID : Uint16, topics : Seq([name : Seq(Byte), qos : Byte]),
                     props : PropertySets]
           /\ SubscribePropsOf(p.props)
BY PacketsAssumption DEF Packet

\* The fields of a SUBACK.
LEMMA SubAckFields ==
    ASSUME NEW p \in Packets, p.type = "SUBACK"
    PROVE  p \in [type : {"SUBACK"}, packetID : Uint16, codes : Seq(Byte), props : PropertySets]
BY PacketsAssumption DEF Packet

\* The fields of an UNSUBSCRIBE.
LEMMA UnsubFields ==
    ASSUME NEW p \in Packets, p.type = "UNSUBSCRIBE"
    PROVE  p \in [type : {"UNSUBSCRIBE"}, packetID : Uint16, topicNames : Seq(Seq(Byte)), props : PropertySets]
BY PacketsAssumption DEF Packet

\* The fields of an UNSUBACK.
LEMMA UnsubAckFields ==
    ASSUME NEW p \in Packets, p.type = "UNSUBACK"
    PROVE  p \in [type : {"UNSUBACK"}, packetID : Uint16, props : PropertySets]
BY PacketsAssumption DEF Packet

\* A ping has nothing but its type.
LEMMA PingFields ==
    ASSUME NEW p \in Packets, p.type \in {"PINGREQ", "PINGRESP"}
    PROVE  p \in [type : {"PINGREQ", "PINGRESP"}]
BY PacketsAssumption DEF Packet

\* The fields of a DISCONNECT and of an AUTH.
LEMMA CodeFields ==
    ASSUME NEW p \in Packets, p.type \in {"DISCONNECT", "AUTH"}
    PROVE  p \in [type : {"DISCONNECT", "AUTH"}, code : Byte, props : PropertySets]
BY PacketsAssumption DEF Packet

\* The WriteTo method of each type.
LEMMA BodyIs ==
    ASSUME NEW p, NEW v
    PROVE  /\ p.type = "CONNECT" => body(v, p) = connWriteTo(v, p)
           /\ p.type = "CONNACK" => body(v, p) = connAckWriteTo(v, p)
           /\ p.type = "PUBLISH" => body(v, p) = publishWriteTo(v, p)
           /\ p.type = "PUBACK" => body(v, p) = pubAckWriteTo(v, p)
           /\ p.type = "PUBREC" => body(v, p) = pubRecvWriteTo(v, p)
           /\ p.type = "PUBREL" => body(v, p) = pubRelWriteTo(v, p)
           /\ p.type = "PUBCOMP" => body(v, p) = pubCompWriteTo(v, p)
           /\ p.type = "SUBSCRIBE" => body(v, p) = subscribeWriteTo(v, p)
           /\ p.type = "SUBACK" => body(v, p) = subAckWriteTo(v, p)
           /\ p.type = "UNSUBSCRIBE" => body(v, p) = unsubWriteTo(v, p)
           /\ p.type = "UNSUBACK" => body(v, p) = unsubAckWriteTo(v, p)
           /\ p.type = "DISCONNECT" => body(v, p) = disconnWriteTo(v, p)
           /\ p.type = "AUTH" => body(v, p) = authWriteTo(p)
           /\ p.type \in {"PINGREQ", "PINGRESP"} => body(v, p) = <<>>
BY DEF body, pingWriteTo

\* The two protocol versions.
LEMMA Versions45 == V311 # V5 /\ V311 = 4 /\ V5 = 5
BY DEF V311, V5

\* The packets of fixed fields and those with a list of bytes: the body in
\* either version
LEMMA SmallBodies ==
    ASSUME NEW p \in Packets
    PROVE  /\ p.type = "CONNACK" =>
                /\ body(V311, p) = <<boolToByte(p.present), p.code>>
                /\ body(V5, p) = <<boolToByte(p.present), p.code>> \o (<<0>> \o <<>>)
           /\ p.type \in AckTypes \cup {"UNSUBACK"} =>
                /\ body(V311, p) = putUint16(p.packetID)
                /\ body(V5, p) = putUint16(p.packetID) \o (<<0>> \o <<>>)
           /\ p.type = "SUBACK" =>
                /\ body(V311, p) = putUint16(p.packetID) \o p.codes
                /\ body(V5, p) = putUint16(p.packetID) \o (<<0>> \o p.codes)
           /\ p.type = "DISCONNECT" =>
                /\ body(V311, p) = <<>>
                /\ body(V5, p) = <<>> \o (<<0>> \o <<>>)
           /\ p.type = "AUTH" => \A v : body(v, p) = <<p.code>> \o (<<0>> \o <<>>)
<1>0. <<>> \in Seq(Byte)
  BY EmptySeq
<1>1. CASE p.type = "CONNACK"
  <2> DEFINE h == <<boolToByte(p.present), p.code>>
  <2>1. boolToByte(p.present) \in Byte /\ p.code \in Byte
    BY <1>1, ConnAckFields DEF boolToByte, Byte
  <2>2. h \in Seq(Byte)
    BY <2>1, TwoBytes
  <2>3. body(V311, p) = h /\ body(V5, p) = writeV5(h, <<>>, <<>>)
    BY <1>1, BodyIs, NoPropsWritten, Versions45 DEF connAckWriteTo
  <2> HIDE DEF h
  <2>4. writeV5(h, <<>>, <<>>) = h \o (<<0>> \o <<>>)
    BY <1>0, <2>2, WriteNoProps
  <2> QED BY <1>1, <2>3, <2>4 DEF h, AckTypes
<1>2. CASE p.type \in AckTypes
  <2> DEFINE h == putUint16(p.packetID)
  <2>1. p.packetID \in Uint16
    BY <1>2, AckFields
  <2>2. h \in Seq(Byte)
    BY <2>1, PutUint16
  <2>3. body(V311, p) = h /\ body(V5, p) = writeV5(h, <<>>, <<>>)
    BY <1>2, BodyIs, NoPropsWritten, Versions45
       DEF AckTypes, pubAckWriteTo, pubRecvWriteTo, pubRelWriteTo, pubCompWriteTo
  <2> HIDE DEF h
  <2>4. writeV5(h, <<>>, <<>>) = h \o (<<0>> \o <<>>)
    BY <1>0, <2>2, WriteNoProps
  <2> QED BY <1>2, <2>3, <2>4 DEF h, AckTypes
<1>3. CASE p.type = "UNSUBACK"
  <2> DEFINE h == putUint16(p.packetID)
  <2>1. p.packetID \in Uint16
    BY <1>3, UnsubAckFields
  <2>2. h \in Seq(Byte)
    BY <2>1, PutUint16
  <2>3. body(V311, p) = h /\ body(V5, p) = writeV5(h, <<>>, <<>>)
    BY <1>3, BodyIs, NoPropsWritten, Versions45 DEF unsubAckWriteTo
  <2> HIDE DEF h
  <2>4. writeV5(h, <<>>, <<>>) = h \o (<<0>> \o <<>>)
    BY <1>0, <2>2, WriteNoProps
  <2> QED BY <1>3, <2>3, <2>4 DEF h, AckTypes
<1>4. CASE p.type = "SUBACK"
  <2> DEFINE h == putUint16(p.packetID)
             d == p.codes
  <2>1. p.packetID \in Uint16 /\ d \in Seq(Byte)
    BY <1>4, SubAckFields
  <2>2. h \in Seq(Byte)
    BY <2>1, PutUint16
  <2>3. body(V311, p) = h \o d /\ body(V5, p) = writeV5(h, <<>>, d)
    BY <1>4, BodyIs, NoPropsWritten, Versions45 DEF subAckWriteTo
  <2> HIDE DEF h, d
  <2>4. writeV5(h, <<>>, d) = h \o (<<0>> \o d)
    BY <2>1, <2>2, WriteNoProps
  <2> QED BY <1>4, <2>3, <2>4 DEF h, d, AckTypes
<1>5. CASE p.type = "DISCONNECT"
  <2>1. body(V311, p) = <<>> /\ body(V5, p) = writeV5(<<>>, <<>>, <<>>)
    BY <1>5, BodyIs, NoPropsWritten, Versions45 DEF disconnWriteTo
  <2>2. writeV5(<<>>, <<>>, <<>>) = <<>> \o (<<0>> \o <<>>)
    BY <1>0, WriteNoProps
  <2> QED BY <1>5, <2>1, <2>2 DEF AckTypes
<1>6. CASE p.type = "AUTH"
  <2> DEFINE h == <<p.code>>
  <2>1. h \in Seq(Byte)
    BY <1>6, CodeFields, OneByte
  <2>2. \A v : body(v, p) = writeV5(h, <<>>, <<>>)
    BY <1>6, BodyIs, NoPropsWritten DEF authWriteTo
  <2> HIDE DEF h
  <2>3. writeV5(h, <<>>, <<>>) = h \o (<<0>> \o <<>>)
    BY <1>0, <2>1, WriteNoProps
  <2> QED BY <1>6, <2>2, <2>3 DEF h, AckTypes
<1> QED BY <1>1, <1>2, <1>3, <1>4, <1>5, <1>6

\* A list of names, each with extra bytes behind it, as SUBSCRIBE and
\* UNSUBSCRIBE write it
Item == [name : Seq(Byte), tail : Seq(Byte)]

itemBytes(x) == encodeBytesWithLen(x.name) \o x.tail

eachBytes(xs) == [i \in 1..Len(xs) |-> itemBytes(xs[i])]

listBytes(xs) == FlattenSeq(eachBytes(xs))

\* The bytes of one name.
LEMMA ItemBytes ==
    ASSUME NEW x \in Item
    PROVE  itemBytes(x) \in Seq(Byte) /\ Len(itemBytes(x)) = 2 + Len(x.name) + Len(x.tail)
<1> DEFINE a == encodeBytesWithLen(x.name)
           b == x.tail
<1>1. x.name \in Seq(Byte) /\ b \in Seq(Byte)
  BY DEF Item
<1>2. a \in Seq(Byte) /\ Len(a) = 2 + Len(x.name)
  BY <1>1, EncodeBytes
<1> HIDE DEF a, b
<1>3. a \o b \in Seq(Byte) /\ Len(a \o b) = Len(a) + Len(b)
  BY <1>1, <1>2, Joined
<1> QED BY <1>2, <1>3 DEF itemBytes, a, b

\* The bytes of each of the names.
LEMMA EachBytes ==
    ASSUME NEW xs \in Seq(Item)
    PROVE  eachBytes(xs) \in Seq(Seq(Byte)) /\ Len(eachBytes(xs)) = Len(xs)
<1>1. Len(xs) \in Nat /\ \A i \in 1..Len(xs) : xs[i] \in Item
  BY LenProperties, ElementOfSeq
<1>2. \A i \in 1..Len(xs) : itemBytes(xs[i]) \in Seq(Byte)
  BY <1>1, ItemBytes
<1> QED BY <1>1, <1>2 DEF eachBytes

\* The bytes of the list.
LEMMA ListBytes ==
    ASSUME NEW xs \in Seq(Item)
    PROVE  listBytes(xs) \in Seq(Byte)
BY EachBytes, FlattenType DEF listBytes

\* No names, no bytes.
LEMMA ListEmpty == listBytes(<<>>) = <<>>
<1>1. Len(<<>>) = 0
  OBVIOUS
<1>2. eachBytes(<<>>) = <<>>
  BY <1>1 DEF eachBytes
<1> QED BY <1>2, FlattenEmpty DEF listBytes

\* The bytes of the first name come before those of the others.
LEMMA ListHead ==
    ASSUME NEW xs \in Seq(Item), xs # <<>>
    PROVE  listBytes(xs) = itemBytes(Head(xs)) \o listBytes(Tail(xs))
<1> DEFINE e == eachBytes(xs)
           f == eachBytes(Tail(xs))
           n == Len(xs)
<1>0. n \in Nat /\ n # 0
  BY EmptySeq
<1>1. e \in Seq(Seq(Byte)) /\ Len(e) = n
  BY EachBytes
<1>2. /\ Tail(xs) \in Seq(Item) /\ Len(Tail(xs)) = n - 1
      /\ \A i \in 1..(n - 1) : Tail(xs)[i] = xs[i + 1]
  BY HeadTailProperties
<1>3. f \in Seq(Seq(Byte)) /\ Len(f) = n - 1
  BY <1>2, EachBytes
<1>4. e[1] = itemBytes(Head(xs)) /\ \A i \in 1..n : e[i] = itemBytes(xs[i])
  BY <1>0 DEF eachBytes
<1>5. \A i \in 1..(n - 1) : f[i] = itemBytes(Tail(xs)[i])
  BY <1>2 DEF eachBytes
<1> HIDE DEF e, f, n
<1>6. e # <<>>
  BY <1>0, <1>1, EmptySeq
<1>7. Head(e) = e[1]
  BY <1>1, <1>6
<1>8. /\ Tail(e) \in Seq(Seq(Byte)) /\ Len(Tail(e)) = n - 1
      /\ \A i \in 1..(n - 1) : Tail(e)[i] = e[i + 1]
  BY <1>1, <1>6, HeadTailProperties
<1>9. \A i \in 1..(n - 1) : Tail(e)[i] = f[i]
  <2> SUFFICES ASSUME NEW i \in 1..(n - 1) PROVE Tail(e)[i] = f[i]
    OBVIOUS
  <2>1. i + 1 \in 1..n
    BY <1>0
  <2> QED BY <1>2, <1>4, <1>5, <1>8, <2>1
<1>10. Tail(e) = f
  BY <1>0, <1>3, <1>8, <1>9, SeqEqual
<1>11. FlattenSeq(e) = Head(e) \o FlattenSeq(Tail(e))
  BY <1>1, <1>6, FlattenHead
<1> QED BY <1>4, <1>7, <1>10, <1>11 DEF listBytes, e, f

subItems(p) == [i \in 1..Len(p.topics) |-> [name |-> p.topics[i].name, tail |-> <<p.topics[i].qos>>]]
unsubItems(p) == [i \in 1..Len(p.topicNames) |-> [name |-> p.topicNames[i], tail |-> <<>>]]

\* A SUBSCRIBE is its identifier and the list of its topics, each with its QoS.
LEMMA SubscribeBody ==
    ASSUME NEW p \in Packets, p.type = "SUBSCRIBE"
    PROVE  /\ p.packetID \in Uint16
           /\ subItems(p) \in Seq(Item) /\ Len(subItems(p)) = Len(p.topics)
           /\ \A i \in 1..Len(p.topics) : subItems(p)[i] = [name |-> p.topics[i].name, tail |-> <<p.topics[i].qos>>]
           /\ body(V311, p) = putUint16(p.packetID) \o listBytes(subItems(p))
           /\ body(V5, p) = writeV5(putUint16(p.packetID), subscribeProps(p.props), listBytes(subItems(p)))
<1> DEFINE t == p.topics
           n == Len(t)
<1>1. p.packetID \in Uint16 /\ t \in Seq([name : Seq(Byte), qos : Byte])
  BY SubscribeFields
<1>2. n \in Nat /\ DOMAIN t = 1..n /\ \A i \in 1..n : t[i] \in [name : Seq(Byte), qos : Byte]
  BY <1>1, LenProperties, ElementOfSeq
<1> HIDE DEF t, n
<1>3. \A i \in 1..n : [name |-> t[i].name, tail |-> <<t[i].qos>>] \in Item
  BY <1>2 DEF Item
<1>4. subItems(p) = [i \in 1..n |-> [name |-> t[i].name, tail |-> <<t[i].qos>>]]
  BY DEF subItems, t, n
<1>5. subItems(p) \in Seq(Item) /\ Len(subItems(p)) = n
  BY <1>2, <1>3, <1>4
<1>6. subscribePayload(p) = FlattenSeq([i \in 1..n |-> encodeBytesWithLen(t[i].name) \o <<t[i].qos>>])
  BY <1>2 DEF subscribePayload, t
<1>7. ASSUME NEW i \in 1..n PROVE itemBytes(subItems(p)[i]) = encodeBytesWithLen(t[i].name) \o <<t[i].qos>>
  <2> DEFINE x == subItems(p)[i]
  <2>1. x.name = t[i].name /\ x.tail = <<t[i].qos>>
    BY <1>4
  <2> QED BY <2>1, Zenon DEF itemBytes
<1>8. eachBytes(subItems(p)) = [i \in 1..n |-> encodeBytesWithLen(t[i].name) \o <<t[i].qos>>]
  <2>1. eachBytes(subItems(p)) = [i \in 1..n |-> itemBytes(subItems(p)[i])]
    BY <1>5, Zenon DEF eachBytes
  <2> QED BY <1>7, <2>1, Zenon
<1>9. subscribePayload(p) = listBytes(subItems(p))
  BY <1>6, <1>8 DEF listBytes
<1>10. /\ body(V311, p) = putUint16(p.packetID) \o listBytes(subItems(p))
       /\ body(V5, p) = writeV5(putUint16(p.packetID), subscribeProps(p.props), listBytes(subItems(p)))
  BY <1>9, BodyIs, Versions45 DEF subscribeWriteTo
<1>11. \A i \in 1..n : subItems(p)[i] = [name |-> t[i].name, tail |-> <<t[i].qos>>]
  BY <1>4
<1> QED BY <1>1, <1>5, <1>10, <1>11 DEF t, n

\* An UNSUBSCRIBE is its identifier and the list of its topic names.
LEMMA UnsubBody ==
    ASSUME NEW p \in Packets, p.type = "UNSUBSCRIBE"
    PROVE  /\ p.packetID \in Uint16
           /\ unsubItems(p) \in Seq(Item) /\ Len(unsubItems(p)) = Len(p.topicNames)
           /\ \A i \in 1..Len(p.topicNames) : unsubItems(p)[i] = [name |-> p.topicNames[i], tail |-> <<>>]
           /\ body(V311, p) = putUint16(p.packetID) \o listBytes(unsubItems(p))
           /\ body(V5, p) = putUint16(p.packetID) \o (<<0>> \o listBytes(unsubItems(p)))
<1> DEFINE t == p.topicNames
           n == Len(t)
<1>1. p.packetID \in Uint16 /\ t \in Seq(Seq(Byte))
  BY UnsubFields
<1>2. n \in Nat /\ DOMAIN t = 1..n /\ \A i \in 1..n : t[i] \in Seq(Byte)
  BY <1>1, LenProperties, ElementOfSeq
<1> HIDE DEF t, n
<1>3. \A i \in 1..n : [name |-> t[i], tail |-> <<>>] \in Item
  BY <1>2, EmptySeq DEF Item
<1>4. unsubItems(p) = [i \in 1..n |-> [name |-> t[i], tail |-> <<>>]]
  BY DEF unsubItems, t, n
<1>5. unsubItems(p) \in Seq(Item) /\ Len(unsubItems(p)) = n
  BY <1>2, <1>3, <1>4
<1>6. unsubPayload(p) = FlattenSeq([i \in 1..n |-> encodeBytesWithLen(t[i])])
  BY <1>2 DEF unsubPayload, t
<1>7. ASSUME NEW i \in 1..n PROVE itemBytes(unsubItems(p)[i]) = encodeBytesWithLen(t[i])
  <2> DEFINE x == unsubItems(p)[i]
  <2>3. x.name = t[i] /\ x.tail = <<>>
    BY <1>4
  <2>1. itemBytes(unsubItems(p)[i]) = encodeBytesWithLen(t[i]) \o <<>>
    BY <2>3, Zenon DEF itemBytes
  <2>2. encodeBytesWithLen(t[i]) \in Seq(Byte)
    BY <1>2, EncodeBytes
  <2> QED BY <2>1, <2>2, ConcatEmptySeq
<1>8. eachBytes(unsubItems(p)) = [i \in 1..n |-> encodeBytesWithLen(t[i])]
  <2>1. eachBytes(unsubItems(p)) = [i \in 1..n |-> itemBytes(unsubItems(p)[i])]
    BY <1>5, Zenon DEF eachBytes
  <2> QED BY <1>7, <2>1, Zenon
<1>9. unsubPayload(p) = listBytes(unsubItems(p))
  BY <1>6, <1>8 DEF listBytes
<1>10. /\ body(V311, p) = putUint16(p.packetID) \o listBytes(unsubItems(p))
       /\ body(V5, p) = writeV5(putUint16(p.packetID), <<>>, listBytes(unsubItems(p)))
  BY <1>9, BodyIs, NoPropsWritten, Versions45 DEF unsubWriteTo
<1>11. \A i \in 1..n : unsubItems(p)[i] = [name |-> t[i], tail |-> <<>>]
  BY <1>4
<1>12. writeV5(putUint16(p.packetID), <<>>, listBytes(unsubItems(p)))
          = putUint16(p.packetID) \o (<<0>> \o listBytes(unsubItems(p)))
  <2>1. putUint16(p.packetID) \in Seq(Byte) /\ listBytes(unsubItems(p)) \in Seq(Byte)
    BY <1>1, <1>5, PutUint16, ListBytes
  <2> QED BY <2>1, WriteNoProps
<1> QED BY <1>1, <1>5, <1>10, <1>11, <1>12 DEF t, n

\* Concatenation as an operator that the provers do not expand
cat(a, b) == a \o b

\* Bytes behind bytes are bytes.
LEMMA CatType == \A a, b \in Seq(Byte) : cat(a, b) \in Seq(Byte)
BY Joined DEF cat

\* The lengths add up.
LEMMA CatLen == \A a, b \in Seq(Byte) : Len(cat(a, b)) = Len(a) + Len(b)
BY Joined DEF cat

\* Three sequences in either grouping.
LEMMA CatAssoc == \A a, b, c \in Seq(Byte) : cat(cat(a, b), c) = cat(a, cat(b, c))
BY ConcatAssociative DEF cat

\* The five fields of a CONNECT, from the grouping of connPayload to that of the reader.
LEMMA Regroup ==
    ASSUME NEW a \in Seq(Byte), NEW b \in Seq(Byte), NEW c \in Seq(Byte), NEW d \in Seq(Byte), NEW e \in Seq(Byte)
    PROVE  cat(cat(cat(a, cat(b, c)), d), e) = cat(a, cat(b, cat(c, cat(d, e))))
<1> DEFINE x == cat(b, c)
           y == cat(d, e)
           g == cat(a, x)
<1>1. x \in Seq(Byte) /\ y \in Seq(Byte) /\ g \in Seq(Byte)
  BY CatType
<1>2. cat(x, y) = cat(b, cat(c, y))
  <2> HIDE DEF y
  <2> QED BY <1>1, CatAssoc
<1> HIDE DEF x, y
<1>3. cat(a, cat(x, y)) = cat(g, y)
  BY <1>1, CatAssoc
<1> HIDE DEF g
<1>4. cat(cat(g, d), e) = cat(g, y)
  BY <1>1, CatAssoc DEF y
<1> QED BY <1>2, <1>3, <1>4 DEF x, y, g

\* A field of a CONNECT that may be missing
field(present, s) == IF present THEN encodeBytesWithLen(s) ELSE <<>>

\* A field that may be missing.
LEMMA FieldType ==
    ASSUME NEW present, NEW s \in Seq(Byte)
    PROVE  field(present, s) \in Seq(Byte)
BY EncodeBytes, EmptySeq DEF field

connBytes(p) ==
    field(TRUE, p.clientID) \o (field(p.isWill, p.willTopic) \o (field(p.isWill, p.willMessage)
        \o (field(p.username # <<>>, p.username) \o field(p.password # <<>>, p.password))))

\* connPayload writes the five fields one after the other (with MQTT 5, unless there is a will).
LEMMA ConnBytes ==
    ASSUME NEW p \in Packets, p.type = "CONNECT"
    PROVE  /\ connBytes(p) \in Seq(Byte)
           /\ connPayload(V311, p) = connBytes(p)
           /\ ~p.isWill => connPayload(V5, p) = connBytes(p)
           /\ connPayload(V5, p) \in Seq(Byte)
<1> DEFINE c == encodeBytesWithLen(p.clientID)
           t == encodeBytesWithLen(p.willTopic)
           m == encodeBytesWithLen(p.willMessage)
           u == unlessEmpty(p.username)
           w == unlessEmpty(p.password)
<1>0. <<>> \in Seq(Byte)
  BY EmptySeq
<1>a. /\ p.clientID \in Seq(Byte) /\ p.willTopic \in Seq(Byte) /\ p.willMessage \in Seq(Byte)
      /\ p.username \in Seq(Byte) /\ p.password \in Seq(Byte)
  BY ConnectFields
<1>1. c \in Seq(Byte) /\ t \in Seq(Byte) /\ m \in Seq(Byte)
  BY <1>a, EncodeBytes
<1>2. u = field(p.username # <<>>, p.username) /\ w = field(p.password # <<>>, p.password)
  BY DEF unlessEmpty, field
<1>3. u \in Seq(Byte) /\ w \in Seq(Byte)
  BY <1>a, <1>2, FieldType
<1>4. /\ field(TRUE, p.clientID) = c
      /\ field(p.isWill, p.willTopic) = (IF p.isWill THEN t ELSE <<>>)
      /\ field(p.isWill, p.willMessage) = (IF p.isWill THEN m ELSE <<>>)
  BY DEF field
<1>5. connBytes(p) = c \o ((IF p.isWill THEN t ELSE <<>>) \o ((IF p.isWill THEN m ELSE <<>>) \o (u \o w)))
  BY <1>2, <1>4 DEF connBytes
<1>6. connPayload(V311, p) = c \o (IF p.isWill THEN (<<>> \o t) \o m ELSE <<>>) \o u \o w
  BY Versions45 DEF connPayload
<1>7. connPayload(V5, p) = c \o (IF p.isWill THEN ((<<0>> \o <<>>) \o t) \o m ELSE <<>>) \o u \o w
  <2>1. propsBytes(WillProps, p.willProps) = <<>> /\ varIntBytes(Len(<<>>)) = <<0>>
    BY NoPropsWritten, VarIntZero
  <2> QED BY <2>1, Zenon DEF connPayload
<1> HIDE DEF c, t, m, u, w
<1>8. u \o w \in Seq(Byte) /\ m \o (u \o w) \in Seq(Byte) /\ t \o (m \o (u \o w)) \in Seq(Byte)
      /\ c \o (u \o w) \in Seq(Byte) /\ c \o (t \o (m \o (u \o w))) \in Seq(Byte)
  BY <1>1, <1>3, Joined
<1>9. CASE p.isWill
  <2>1. connBytes(p) = c \o (t \o (m \o (u \o w)))
    BY <1>5, <1>9
  <2>2. <<>> \o t = t
    BY <1>1, ConcatEmptySeq
  <2>3. connPayload(V311, p) = c \o (t \o m) \o u \o w
    BY <1>6, <1>9, <2>2
  <2>4. (c \o (t \o m)) \o u \o w = c \o (t \o (m \o (u \o w)))
    <3>1. cat(cat(cat(c, cat(t, m)), u), w) = cat(c, cat(t, cat(m, cat(u, w))))
      BY <1>1, <1>3, Regroup
    <3> QED BY <3>1 DEF cat
  <2>5. connPayload(V5, p) \in Seq(Byte)
    <3> DEFINE z == (<<0>> \o <<>>)
    <3>1. z \in Seq(Byte)
      BY <1>0, OneByte, Joined DEF Byte
    <3> HIDE DEF z
    <3>2. (z \o t) \o m \in Seq(Byte)
      BY <1>1, <3>1, Joined
    <3>3. ((c \o ((z \o t) \o m)) \o u) \o w \in Seq(Byte)
      BY <1>1, <1>3, <3>2, Joined
    <3> QED BY <1>7, <1>9, <3>3 DEF z
  <2> QED BY <1>8, <1>9, <2>1, <2>3, <2>4, <2>5
<1>10. CASE ~p.isWill
  <2>1. connBytes(p) = c \o (<<>> \o (<<>> \o (u \o w)))
    BY <1>5, <1>10
  <2>2. <<>> \o (u \o w) = u \o w /\ c \o <<>> = c
    BY <1>1, <1>8, ConcatEmptySeq
  <2>3. connPayload(V311, p) = c \o u \o w /\ connPayload(V5, p) = c \o u \o w
    BY <1>6, <1>7, <1>10, <2>2
  <2>4. (c \o u) \o w = c \o (u \o w)
    BY <1>1, <1>3, CatAssoc, Zenon DEF cat
  <2>5. connBytes(p) = c \o (u \o w)
    BY <2>1, <2>2
  <2> QED BY <1>8, <2>3, <2>4, <2>5
<1> QED BY <1>9, <1>10

\* The flags of a CONNECT are the bits that decodeV311Conn and decodeV5Conn
\* take apart again.
LEMMA ConnFlags ==
    ASSUME NEW p \in Packets, p.type = "CONNECT"
    PROVE  /\ connFlags(p) \in Byte
           /\ bit(connFlags(p), 2) <=> (p.cleanSession \/ p.clientID = <<>>)
           /\ bit(connFlags(p), 4) <=> p.isWill
           /\ (connFlags(p) \div 8) % 4 = IF p.isWill THEN p.willQos ELSE 0
           /\ bit(connFlags(p), 32) <=> (p.isWill /\ p.willRetain)
           /\ bit(connFlags(p), 64) <=> p.password # <<>>
           /\ bit(connFlags(p), 128) <=> p.username # <<>>
<1> DEFINE c == boolToByte(p.cleanSession \/ p.clientID = <<>>)
           i == boolToByte(p.isWill)
           q == IF p.isWill THEN p.willQos ELSE 0
           r == boolToByte(p.isWill /\ p.willRetain)
           w == boolToByte(p.password # <<>>)
           u == boolToByte(p.username # <<>>)
           f == connFlags(p)
<1>1. p.willQos \in 0..2 /\ p.isWill \in BOOLEAN /\ p.willRetain \in BOOLEAN /\ p.cleanSession \in BOOLEAN
  BY ConnectFields
<1>2. f = 2 * c + 4 * i + 8 * q + 32 * r + 64 * w + 128 * u
  BY <1>1, SMTT(30) DEF connFlags, boolToByte
<1>3. c \in 0..1 /\ i \in 0..1 /\ q \in 0..2 /\ r \in 0..1 /\ w \in 0..1 /\ u \in 0..1
  BY <1>1 DEF boolToByte
<1>4. /\ c = 1 <=> (p.cleanSession \/ p.clientID = <<>>)
      /\ i = 1 <=> p.isWill
      /\ r = 1 <=> (p.isWill /\ p.willRetain)
      /\ w = 1 <=> p.password # <<>>
      /\ u = 1 <=> p.username # <<>>
  BY DEF boolToByte
<1>5. /\ f \in Byte /\ (f \div 2) % 2 = c /\ (f \div 4) % 2 = i /\ (f \div 8) % 4 = q
      /\ (f \div 32) % 2 = r /\ (f \div 64) % 2 = w /\ (f \div 128) % 2 = u
  <2> HIDE DEF c, i, q, r, w, u, f
  <2> QED BY <1>2, <1>3 DEF Byte
<1> HIDE DEF c, i, r, w, u, f
<1>6. /\ bit(f, 2) <=> c = 1
      /\ bit(f, 4) <=> i = 1
      /\ bit(f, 32) <=> r = 1
      /\ bit(f, 64) <=> w = 1
      /\ bit(f, 128) <=> u = 1
  BY <1>5 DEF bit
<1> QED BY <1>4, <1>5, <1>6 DEF f

connHeader(v, p) == <<v, connFlags(p)>> \o putUint16(p.keepalive)

\* A CONNECT: the protocol name, the variable header, the fields.
LEMMA ConnectBody ==
    ASSUME NEW p \in Packets, p.type = "CONNECT", NEW v \in {V311, V5}
    PROVE  /\ connHeader(v, p) \in Seq(Byte) /\ Len(connHeader(v, p)) = 4
           /\ mqtt \in Seq(Byte) /\ Len(mqtt) = 4
           /\ body(V311, p) = encodeBytesWithLen(mqtt) \o (connHeader(V311, p) \o connPayload(V311, p))
           /\ body(V5, p) = encodeBytesWithLen(mqtt) \o (connHeader(V5, p) \o (<<0>> \o connPayload(V5, p)))
<1> DEFINE m == encodeBytesWithLen(mqtt)
           k == putUint16(p.keepalive)
           h(x) == <<x, connFlags(p)>>
<1>1. mqtt \in Seq(Byte) /\ Len(mqtt) = 4
  BY DEF mqtt, Byte
<1>2. m \in Seq(Byte)
  BY <1>1, EncodeBytes
<1>3. k \in Seq(Byte) /\ Len(k) = 2
  BY ConnectFields, PutUint16
<1>4. \A x \in {V311, V5} : h(x) \in Seq(Byte) /\ Len(h(x)) = 2
  <2>1. connFlags(p) \in Byte /\ V311 \in Byte /\ V5 \in Byte
    <3>1. connFlags(p) \in Byte
      BY ConnFlags
    <3>2. V311 \in Byte /\ V5 \in Byte
      BY Versions45 DEF Byte
    <3> QED BY <3>1, <3>2
  <2> QED BY <2>1, TwoBytes
<1>5. V311 \in {V311, V5} /\ V5 \in {V311, V5}
  OBVIOUS
<1>6. connPayload(V311, p) \in Seq(Byte) /\ connPayload(V5, p) \in Seq(Byte)
  BY ConnBytes
<1>7. /\ body(V311, p) = m \o h(V311) \o k \o connPayload(V311, p)
      /\ body(V5, p) = writeV5(m \o h(V5) \o k, <<>>, connPayload(V5, p))
  BY BodyIs, NoPropsWritten, Versions45 DEF connWriteTo
<1> HIDE DEF m, k, h
<1>8. \A x \in {V311, V5} : h(x) \o k \in Seq(Byte) /\ Len(h(x) \o k) = 4
  <2> SUFFICES ASSUME NEW x \in {V311, V5} PROVE h(x) \o k \in Seq(Byte) /\ Len(h(x) \o k) = 4
    OBVIOUS
  <2> DEFINE y == h(x)
  <2>1. y \in Seq(Byte) /\ Len(y) = 2
    BY <1>4
  <2> HIDE DEF y
  <2>2. y \o k \in Seq(Byte) /\ Len(y \o k) = 4
    <3>1. cat(y, k) \in Seq(Byte)
      BY <1>3, <2>1, CatType, Zenon
    <3>2. Len(cat(y, k)) = Len(y) + Len(k)
      BY <1>3, <2>1, CatLen, Zenon
    <3>3. Len(cat(y, k)) = 4
      BY <1>3, <2>1, <3>2
    <3> QED BY <3>1, <3>3, Zenon DEF cat
  <2> QED BY <2>2 DEF y
<1>9. \A x \in {V311, V5} : connHeader(x, p) = h(x) \o k
  BY DEF connHeader, h, k
<1>10. \A x \in {V311, V5} : m \o h(x) \o k = m \o connHeader(x, p)
  <2> SUFFICES ASSUME NEW x \in {V311, V5} PROVE m \o h(x) \o k = m \o connHeader(x, p)
    OBVIOUS
  <2> DEFINE y == h(x)
  <2>1. y \in Seq(Byte) /\ connHeader(x, p) = y \o k
    BY <1>4, <1>9
  <2> HIDE DEF y
  <2>2. (m \o y) \o k = m \o (y \o k)
    BY <1>2, <1>3, <2>1, ConcatAssociative
  <2> QED BY <2>1, <2>2 DEF y
<1>11. body(V311, p) = m \o (connHeader(V311, p) \o connPayload(V311, p))
  <2> DEFINE x == connHeader(V311, p)
             y == connPayload(V311, p)
  <2>1. x \in Seq(Byte) /\ y \in Seq(Byte)
    BY <1>5, <1>6, <1>8, <1>9
  <2>2. body(V311, p) = (m \o x) \o y
    BY <1>5, <1>7, <1>10
  <2> HIDE DEF x, y
  <2>3. (m \o x) \o y = m \o (x \o y)
    BY <1>2, <2>1, ConcatAssociative
  <2> QED BY <2>2, <2>3 DEF x, y
<1>12. body(V5, p) = m \o (connHeader(V5, p) \o (<<0>> \o connPayload(V5, p)))
  <2> DEFINE x == connHeader(V5, p)
             y == connPayload(V5, p)
             z == <<0>> \o y
  <2>1. x \in Seq(Byte) /\ y \in Seq(Byte)
    BY <1>5, <1>6, <1>8, <1>9
  <2>2. z \in Seq(Byte)
    BY <2>1, OneByte, Joined DEF Byte
  <2>3. body(V5, p) = writeV5(m \o x, <<>>, y)
    BY <1>5, <1>7, <1>10
  <2>4. m \o x \in Seq(Byte)
    BY <1>2, <2>1, Joined
  <2> HIDE DEF x, y
  <2>5. writeV5(m \o x, <<>>, y) = (m \o x) \o z
    BY <2>1, <2>4, WriteNoProps
  <2> HIDE DEF z
  <2>6. (m \o x) \o z = m \o (x \o z)
    BY <1>2, <2>1, <2>2, CatAssoc, Zenon DEF cat
  <2> QED BY <2>3, <2>5, <2>6 DEF x, y, z
<1> QED BY <1>1, <1>8, <1>9, <1>11, <1>12 DEF m

\* A PUBLISH: the topic name, the identifier unless the QoS is 0, the payload.
LEMMA PublishBody ==
    ASSUME NEW p \in Packets, p.type = "PUBLISH"
    PROVE  /\ body(V311, p) = publishPayload(p)
           /\ body(V5, p) = <<>> \o (<<0>> \o publishPayload(p))
           /\ publishPayload(p) = encodeBytesWithLen(p.topicName)
                                    \o ((IF p.qos > 0 THEN putUint16(p.packetID) ELSE <<>>) \o p.payload)
           /\ publishPayload(p) \in Seq(Byte) /\ Len(publishPayload(p)) >= 2
<1> DEFINE n == encodeBytesWithLen(p.topicName)
           i == IF p.qos > 0 THEN putUint16(p.packetID) ELSE <<>>
           d == p.payload
<1>0. p.topicName \in Seq(Byte) /\ d \in Seq(Byte) /\ p.packetID \in Uint16
  BY PublishFields
<1>1. n \in Seq(Byte) /\ Len(n) = 2 + Len(p.topicName)
  BY <1>0, EncodeBytes
<1>2. i \in Seq(Byte)
  BY <1>0, PutUint16, EmptySeq
<1>3. publishPayload(p) = n \o i \o d
  BY DEF publishPayload
<1>4. body(V311, p) = publishPayload(p) /\ body(V5, p) = writeV5(<<>>, <<>>, publishPayload(p))
  BY BodyIs, NoPropsWritten, Versions45 DEF publishWriteTo
<1>5. Len(p.topicName) \in Nat
  BY <1>0, LenProperties
<1> HIDE DEF n, i, d
<1>6. (n \o i) \o d = n \o (i \o d)
  BY <1>0, <1>1, <1>2, ConcatAssociative, SMTT(30)
<1>7. i \o d \in Seq(Byte) /\ Len(i \o d) \in Nat
  BY <1>0, <1>2, Joined, LenProperties
<1>8. n \o (i \o d) \in Seq(Byte) /\ Len(n \o (i \o d)) = Len(n) + Len(i \o d)
  BY <1>1, <1>7, Joined
<1>9. publishPayload(p) \in Seq(Byte) /\ Len(publishPayload(p)) >= 2
  <2> DEFINE y == i \o d
  <2>1. publishPayload(p) = n \o y
    BY <1>3, <1>6
  <2>2. n \o y \in Seq(Byte) /\ Len(n \o y) = Len(n) + Len(y) /\ Len(y) \in Nat
    BY <1>7, <1>8
  <2> HIDE DEF y
  <2> QED BY <1>1, <1>5, <2>1, <2>2
<1>10. body(V5, p) = <<>> \o (<<0>> \o publishPayload(p))
  BY <1>4, <1>9, EmptySeq, WriteNoProps
<1> QED BY <1>3, <1>4, <1>6, <1>9, <1>10 DEF n, i, d

\* What a SUBSCRIBE writes of its properties
LEMMA SubscribePropsType ==
    ASSUME NEW p \in Packets, p.type = "SUBSCRIBE"
    PROVE  subscribeProps(p.props) \in Seq(Byte)
<1> DEFINE keyed(k) == IF k \in DOMAIN p.props THEN <<k>> \o p.props[k] ELSE <<>>
           a == keyed(propKeySubID)
           b == keyed(propKeyUserProps)
<1>1. \A k \in DOMAIN p.props : p.props[k] \in Seq(Byte)
  BY SubscribeFields DEF SubscribePropsOf
<1>2. ASSUME NEW k \in Byte PROVE keyed(k) \in Seq(Byte)
  <2>1. CASE k \in DOMAIN p.props
    <3> DEFINE x == <<k>>
               y == p.props[k]
    <3>1. x \in Seq(Byte) /\ y \in Seq(Byte) /\ keyed(k) = x \o y
      BY <1>1, <1>2, <2>1, OneByte
    <3> HIDE DEF x, y, keyed
    <3> QED BY <3>1, Joined
  <2>2. CASE k \notin DOMAIN p.props
    BY <2>2, EmptySeq
  <2> QED BY <2>1, <2>2
<1>3. propKeySubID \in Byte /\ propKeyUserProps \in Byte
  BY DEF propKeySubID, propKeyUserProps, Byte
<1>4. a \in Seq(Byte) /\ b \in Seq(Byte)
  BY <1>2, <1>3, Zenon
<1>5. subscribeProps(p.props) = a \o b
  BY DEF subscribeProps
<1> HIDE DEF a, b
<1> QED BY <1>4, <1>5, Joined

\* writeV5, from the variable header on.
LEMMA WritePropsType ==
    ASSUME NEW h \in Seq(Byte), NEW x \in Seq(Byte), NEW d \in Seq(Byte)
    PROVE  /\ writeV5(h, x, d) = h \o (varIntBytes(Len(x)) \o (x \o d))
           /\ writeV5(h, x, d) \in Seq(Byte)
           /\ Len(writeV5(h, x, d)) >= Len(h)
<1> DEFINE n == varIntBytes(Len(x))
<1>1. n \in Seq(Byte)
  BY VarIntBytesType, LenProperties
<1>2. writeV5(h, x, d) = cat(cat(cat(h, n), x), d)
  BY DEF writeV5, cat
<1> HIDE DEF n
<1>3. cat(cat(cat(h, n), x), d) = cat(cat(h, n), cat(x, d))
  <2> DEFINE y == cat(h, n)
  <2>1. y \in Seq(Byte)
    BY <1>1, CatType
  <2> HIDE DEF y
  <2>2. cat(cat(y, x), d) = cat(y, cat(x, d))
    BY <2>1, CatAssoc
  <2> QED BY <2>2 DEF y
<1>4. cat(cat(h, n), cat(x, d)) = cat(h, cat(n, cat(x, d)))
  <2> DEFINE y == cat(x, d)
  <2>1. y \in Seq(Byte)
    BY CatType
  <2> HIDE DEF y
  <2>2. cat(cat(h, n), y) = cat(h, cat(n, y))
    BY <1>1, <2>1, CatAssoc
  <2> QED BY <2>2 DEF y
<1> DEFINE r == cat(n, cat(x, d))
<1>5. r \in Seq(Byte)
  <2>1. cat(x, d) \in Seq(Byte)
    BY CatType
  <2> QED BY <1>1, <2>1, CatType
<1> HIDE DEF r
<1>6. cat(h, r) \in Seq(Byte) /\ Len(cat(h, r)) = Len(h) + Len(r)
  BY <1>5, CatType, CatLen
<1>7. writeV5(h, x, d) = cat(h, r)
  BY <1>2, <1>3, <1>4 DEF r
<1>8. Len(h) + Len(r) >= Len(h)
  <2>1. Len(h) \in Nat /\ Len(r) \in Nat
    BY <1>5, LenProperties
  <2> QED BY <2>1
<1>9. writeV5(h, x, d) = h \o (n \o (x \o d))
  BY <1>7 DEF r, cat
<1> QED BY <1>6, <1>7, <1>8, <1>9 DEF n

\* Every WriteTo method writes bytes, and in MQTT 3.1.1 either none or at
\* least the two that Decode asks for.
LEMMA BodyType ==
    ASSUME NEW p \in Packets, NEW v \in {V311, V5}
    PROVE  /\ body(v, p) \in Seq(Byte)
           /\ v = V311 => IF p.type \in {"PINGREQ", "PINGRESP", "DISCONNECT"}
                          THEN body(v, p) = <<>>
                          ELSE Len(body(v, p)) >= 2
<1> DEFINE z == <<0>> \o <<>>
           Good(x) == x \in Seq(Byte) /\ Len(x) >= 2
           Short == {"PINGREQ", "PINGRESP", "DISCONNECT"}
<1>0. <<>> \in Seq(Byte)
  BY EmptySeq
<1>z. z \in Seq(Byte) /\ Len(z) = 1
  <2>1. <<0>> \in Seq(Byte) /\ Len(<<0>>) = 1
    BY OneByte DEF Byte
  <2> QED BY <1>0, <2>1, Joined
<1> HIDE DEF z
<1>a. ASSUME NEW h \in Seq(Byte), Len(h) >= 2, NEW d \in Seq(Byte) PROVE Good(h \o d)
  <2>1. h \o d \in Seq(Byte) /\ Len(h \o d) = Len(h) + Len(d)
    BY <1>a, Joined
  <2>2. Len(h) \in Nat /\ Len(d) \in Nat
    BY <1>a, LenProperties
  <2>3. Len(h) + Len(d) >= 2
    BY <1>a, <2>2
  <2> QED BY <2>1, <2>3
<1>b. ASSUME NEW d \in Seq(Byte) PROVE <<0>> \o d \in Seq(Byte)
  BY <1>b, OneByte, Joined DEF Byte
<1>id. ASSUME NEW n \in Uint16 PROVE putUint16(n) \in Seq(Byte) /\ Len(putUint16(n)) >= 2
  <2>1. putUint16(n) \in Seq(Byte) /\ Len(putUint16(n)) = 2
    BY <1>id, PutUint16
  <2> QED BY <2>1
<1>1. CASE p.type \in {"PINGREQ", "PINGRESP"}
  BY <1>0, <1>1, BodyIs
<1>2. CASE p.type = "DISCONNECT"
  <2>1. body(V311, p) = <<>> /\ body(V5, p) = <<>> \o z
    BY <1>2, SmallBodies DEF z
  <2>2. <<>> \o z \in Seq(Byte)
    BY <1>0, <1>z, Joined
  <2> QED BY <1>0, <1>2, <2>1, <2>2, Versions45
<1>3. CASE p.type \notin Short
  <2> SUFFICES Good(body(v, p))
    BY <1>3
  <2>1. CASE p.type = "CONNECT"
    <3> DEFINE m == encodeBytesWithLen(mqtt)
               h == connHeader(v, p)
               d == IF v = V5 THEN <<0>> \o connPayload(V5, p) ELSE connPayload(V311, p)
    <3>1. mqtt \in Seq(Byte) /\ Len(mqtt) = 4 /\ h \in Seq(Byte) /\ body(v, p) = m \o (h \o d)
      BY <2>1, ConnectBody, Versions45
    <3>2. m \in Seq(Byte) /\ Len(m) >= 2
      BY <3>1, EncodeBytes
    <3>3. d \in Seq(Byte)
      BY <1>b, <2>1, ConnBytes
    <3> HIDE DEF m, h, d
    <3>4. h \o d \in Seq(Byte)
      BY <3>1, <3>3, Joined
    <3> DEFINE e == h \o d
    <3>5. e \in Seq(Byte) /\ body(v, p) = m \o e
      BY <3>1, <3>4
    <3> HIDE DEF e, Good
    <3> QED BY <1>a, <3>2, <3>5
  <2>2. CASE p.type = "CONNACK"
    <3> DEFINE h == <<boolToByte(p.present), p.code>>
    <3>1. boolToByte(p.present) \in Byte /\ p.code \in Byte
      BY <2>2, ConnAckFields DEF boolToByte, Byte
    <3>2. h \in Seq(Byte) /\ Len(h) >= 2
      BY <3>1, TwoBytes
    <3>3. body(V311, p) = h /\ body(V5, p) = h \o z
      BY <2>2, SmallBodies DEF z
    <3> HIDE DEF h
    <3>4. Good(h \o z)
      BY <1>a, <1>z, <3>2
    <3> QED BY <3>2, <3>3, <3>4
  <2>3. CASE p.type \in AckTypes \cup {"UNSUBACK"}
    <3> DEFINE h == putUint16(p.packetID)
    <3>1. p.packetID \in Uint16
      BY <2>3, AckFields, UnsubAckFields
    <3>2. h \in Seq(Byte) /\ Len(h) >= 2
      BY <1>id, <3>1
    <3>3. body(V311, p) = h /\ body(V5, p) = h \o z
      BY <2>3, SmallBodies DEF z
    <3> HIDE DEF h
    <3>4. Good(h \o z)
      BY <1>a, <1>z, <3>2
    <3> QED BY <3>2, <3>3, <3>4
  <2>4. CASE p.type = "PUBLISH"
    <3> DEFINE d == publishPayload(p)
    <3>1. body(V311, p) = d /\ body(V5, p) = <<>> \o (<<0>> \o d) /\ d \in Seq(Byte) /\ Len(d) >= 2
      BY <2>4, PublishBody
    <3> HIDE DEF d
    <3> DEFINE e == <<0>> \o d
    <3>2. e \in Seq(Byte) /\ Len(e) >= 2
      <4>1. <<0>> \in Seq(Byte) /\ Len(<<0>>) = 1
        BY OneByte DEF Byte
      <4>2. e \in Seq(Byte) /\ Len(e) = 1 + Len(d)
        BY <3>1, <4>1, Joined
      <4>3. Len(d) \in Nat
        BY <3>1, LenProperties
      <4> HIDE DEF e
      <4> QED BY <3>1, <4>2, <4>3
    <3>3. body(V5, p) = <<>> \o e
      BY <3>1
    <3> HIDE DEF e
    <3>4. <<>> \o e = e
      BY <3>2, ConcatEmptySeq
    <3> QED BY <3>1, <3>2, <3>3, <3>4
  <2>5. CASE p.type = "SUBSCRIBE"
    <3> DEFINE h == putUint16(p.packetID)
               x == subscribeProps(p.props)
               d == listBytes(subItems(p))
    <3>1. p.packetID \in Uint16 /\ subItems(p) \in Seq(Item) /\ body(V311, p) = h \o d /\ body(V5, p) = writeV5(h, x, d)
      BY <2>5, SubscribeBody
    <3>2. d \in Seq(Byte) /\ x \in Seq(Byte)
      BY <2>5, <3>1, ListBytes, SubscribePropsType
    <3>3. h \in Seq(Byte) /\ Len(h) >= 2
      BY <1>id, <3>1
    <3> HIDE DEF h, x, d
    <3>4. Good(h \o d)
      BY <1>a, <3>2, <3>3
    <3>5. writeV5(h, x, d) \in Seq(Byte) /\ Len(writeV5(h, x, d)) >= Len(h)
      BY <3>2, <3>3, WritePropsType
    <3> DEFINE y == writeV5(h, x, d)
    <3>6. Good(y)
      <4>1. Len(y) \in Nat /\ Len(h) \in Nat /\ Len(y) >= Len(h)
        BY <3>3, <3>5, LenProperties
      <4>2. y \in Seq(Byte)
        BY <3>5
      <4> HIDE DEF y
      <4> QED BY <3>3, <4>1, <4>2
    <3> QED BY <3>1, <3>4, <3>6
  <2>6. CASE p.type = "SUBACK"
    <3> DEFINE h == putUint16(p.packetID)
               d == p.codes
               e == <<0>> \o d
    <3>1. p.packetID \in Uint16 /\ d \in Seq(Byte)
      BY <2>6, SubAckFields
    <3>2. h \in Seq(Byte) /\ Len(h) >= 2
      BY <1>id, <3>1
    <3>3. body(V311, p) = h \o d /\ body(V5, p) = h \o e /\ e \in Seq(Byte)
      BY <1>b, <2>6, <3>1, SmallBodies
    <3> HIDE DEF h, d, e
    <3>4. Good(h \o d) /\ Good(h \o e)
      BY <1>a, <3>1, <3>2, <3>3
    <3> QED BY <3>3, <3>4
  <2>7. CASE p.type = "UNSUBSCRIBE"
    <3> DEFINE h == putUint16(p.packetID)
               d == listBytes(unsubItems(p))
               e == <<0>> \o d
    <3>1. p.packetID \in Uint16 /\ unsubItems(p) \in Seq(Item) /\ body(V311, p) = h \o d /\ body(V5, p) = h \o e
      BY <2>7, UnsubBody
    <3>2. d \in Seq(Byte)
      BY <3>1, ListBytes
    <3>3. h \in Seq(Byte) /\ Len(h) >= 2 /\ e \in Seq(Byte)
      BY <1>b, <1>id, <3>1, <3>2
    <3> HIDE DEF h, d, e
    <3>4. Good(h \o d) /\ Good(h \o e)
      BY <1>a, <3>2, <3>3
    <3> QED BY <3>1, <3>4
  <2>8. CASE p.type = "AUTH"
    <3> DEFINE h == <<p.code>>
    <3>1. h \in Seq(Byte) /\ Len(h) = 1
      BY <2>8, CodeFields, OneByte
    <3>2. body(v, p) = h \o z
      BY <2>8, SmallBodies DEF z
    <3> HIDE DEF h
    <3>3. h \o z \in Seq(Byte) /\ Len(h \o z) = Len(h) + Len(z)
      BY <1>z, <3>1, Joined
    <3>4. Len(h) + Len(z) = 2
      BY <1>z, <3>1
    <3> QED BY <3>2, <3>3, <3>4
  <2> QED BY <1>3, <2>1, <2>2, <2>3, <2>4, <2>5, <2>6, <2>7, <2>8, PacketType DEF Types, AckTypes
<1> QED BY <1>1, <1>2, <1>3

-----------------------------------------------------------------------------
(* The bytes of the packets on the wire *)

\* The first byte is that of the first part.
LEMMA FirstOf ==
    ASSUME NEW a \in Seq(Byte), NEW b \in Seq(Byte), Len(a) >= 1
    PROVE  a \o b # <<>> /\ (a \o b)[1] = a[1]
<1>1. Len(a) \in Nat /\ Len(b) \in Nat
  BY LenProperties
<1>2. a \o b \in Seq(Byte) /\ Len(a \o b) = Len(a) + Len(b)
  BY Joined
<1>3. 1 \in 1..Len(a) /\ Len(a) + Len(b) # 0
  BY <1>1
<1>4. (a \o b)[1] = a[1]
  BY <1>1, <1>3, ConcatProperties
<1>5. a \o b # <<>>
  BY <1>2, <1>3, EmptySeq
<1> QED BY <1>4, <1>5

\* What a packet puts on the wire: its frame, or its first byte if it is too large.
LEMMA BytesAre ==
    ASSUME NEW p \in Packets, NEW v \in {V311, V5}
    PROVE  /\ bytes(v, p) = write(header(p), body(v, p))
           /\ bytes(v, p) \in Seq(Byte)
           /\ tooLarge(body(v, p)) => bytes(v, p) = <<header(p)>>
           /\ ~tooLarge(body(v, p)) => bytes(v, p) = <<header(p)>> \o (varIntBytes(Len(body(v, p))) \o body(v, p))
<1> DEFINE h == <<header(p)>>
           d == body(v, p)
           n == varIntBytes(Len(d))
<1>1. bytes(v, p) = write(header(p), body(v, p))
  BY DEF bytes, header
<1>2. h \in Seq(Byte)
  BY HeaderOf, OneByte
<1>3. d \in Seq(Byte)
  BY BodyType
<1>4. n \in Seq(Byte)
  BY <1>3, VarIntBytesType, LenProperties
<1>5. bytes(v, p) = IF tooLarge(d) THEN h ELSE (h \o n) \o d
  BY <1>1 DEF write
<1> HIDE DEF h, d, n
<1>6. (h \o n) \o d = h \o (n \o d)
  BY <1>2, <1>3, <1>4, ConcatAssociative
<1>7. (h \o n) \o d \in Seq(Byte)
  <2>1. h \o n \in Seq(Byte)
    BY <1>2, <1>4, Joined
  <2> QED BY <1>3, <2>1, Joined
<1> QED BY <1>1, <1>2, <1>5, <1>6, <1>7 DEF h, d, n

eachFrame(v, ps) == [i \in 1..Len(ps) |-> bytes(v, ps[i])]

frames(v, ps) == FlattenSeq(eachFrame(v, ps))

\* The frame of each packet.
LEMMA EachFrame ==
    ASSUME NEW v \in {V311, V5}, NEW ps \in Seq(Packets)
    PROVE  eachFrame(v, ps) \in Seq(Seq(Byte)) /\ Len(eachFrame(v, ps)) = Len(ps)
<1>1. Len(ps) \in Nat /\ \A i \in 1..Len(ps) : ps[i] \in Packets
  BY LenProperties, ElementOfSeq
<1>2. \A i \in 1..Len(ps) : bytes(v, ps[i]) \in Seq(Byte)
  BY <1>1, BytesAre
<1> QED BY <1>1, <1>2 DEF eachFrame

\* The frames of the packets are bytes.
LEMMA FramesType ==
    ASSUME NEW v \in {V311, V5}, NEW ps \in Seq(Packets)
    PROVE  frames(v, ps) \in Seq(Byte)
BY EachFrame, FlattenType DEF frames

\* No packets, no bytes.
LEMMA FramesEmpty == ASSUME NEW v PROVE frames(v, <<>>) = <<>>
<1>1. Len(<<>>) = 0
  OBVIOUS
<1>2. eachFrame(v, <<>>) = <<>>
  BY <1>1 DEF eachFrame
<1> QED BY <1>2, FlattenEmpty DEF frames

\* The frame of one more packet comes behind the others.
LEMMA FramesAppend ==
    ASSUME NEW v \in {V311, V5}, NEW ps \in Seq(Packets), NEW p \in Packets
    PROVE  frames(v, Append(ps, p)) = frames(v, ps) \o bytes(v, p)
<1> DEFINE e == eachFrame(v, ps)
           f == eachFrame(v, Append(ps, p))
           g == bytes(v, p)
           n == Len(ps)
<1>1. n \in Nat /\ e \in Seq(Seq(Byte)) /\ Len(e) = n /\ g \in Seq(Byte)
  BY LenProperties, EachFrame, BytesAre
<1>2. /\ Append(ps, p) \in Seq(Packets) /\ Len(Append(ps, p)) = n + 1
      /\ Append(ps, p)[n + 1] = p /\ \A i \in 1..n : Append(ps, p)[i] = ps[i]
  BY AppendProperties
<1>3. f \in Seq(Seq(Byte)) /\ Len(f) = n + 1
  BY <1>2, EachFrame
<1>4. \A i \in 1..n : e[i] = bytes(v, ps[i])
  BY DEF eachFrame
<1>5. \A i \in 1..(n + 1) : f[i] = bytes(v, Append(ps, p)[i])
  BY <1>2 DEF eachFrame
<1>6. f[n + 1] = g /\ \A i \in 1..n : f[i] = e[i]
  <2>1. f[n + 1] = g
    BY <1>1, <1>2, <1>5
  <2>2. ASSUME NEW i \in 1..n PROVE f[i] = e[i]
    <3>1. i \in 1..(n + 1)
      BY <1>1
    <3>2. Append(ps, p)[i] = ps[i]
      BY <1>2
    <3>3. f[i] = bytes(v, ps[i])
      BY <1>5, <3>1, <3>2
    <3> QED BY <1>4, <3>3
  <2> QED BY <2>1, <2>2
<1> HIDE DEF e, f, g, n
<1>7. /\ Append(e, g) \in Seq(Seq(Byte)) /\ Len(Append(e, g)) = n + 1
      /\ Append(e, g)[n + 1] = g /\ \A i \in 1..n : Append(e, g)[i] = e[i]
  BY <1>1, AppendProperties
<1>8. \A i \in 1..(n + 1) : f[i] = Append(e, g)[i]
  BY <1>1, <1>6, <1>7
<1>9. f = Append(e, g)
  BY <1>3, <1>7, <1>8, SeqEqual
<1>10. FlattenSeq(Append(e, g)) = FlattenSeq(e) \o g
  BY <1>1, FlattenAppend
<1> QED BY <1>9, <1>10 DEF frames, e, f, g

\* The frame of the first packet comes before the others.
LEMMA FramesHead ==
    ASSUME NEW v \in {V311, V5}, NEW ps \in Seq(Packets), ps # <<>>
    PROVE  frames(v, ps) = bytes(v, Head(ps)) \o frames(v, Tail(ps))
<1> DEFINE e == eachFrame(v, ps)
           f == eachFrame(v, Tail(ps))
           n == Len(ps)
<1>0. n \in Nat /\ n # 0
  BY EmptySeq
<1>1. e \in Seq(Seq(Byte)) /\ Len(e) = n
  BY EachFrame
<1>2. /\ Tail(ps) \in Seq(Packets) /\ Len(Tail(ps)) = n - 1
      /\ \A i \in 1..(n - 1) : Tail(ps)[i] = ps[i + 1]
  BY HeadTailProperties
<1>3. f \in Seq(Seq(Byte)) /\ Len(f) = n - 1
  BY <1>2, EachFrame
<1>4. e[1] = bytes(v, Head(ps)) /\ \A i \in 1..n : e[i] = bytes(v, ps[i])
  BY <1>0 DEF eachFrame
<1>5. \A i \in 1..(n - 1) : f[i] = bytes(v, Tail(ps)[i])
  BY <1>2 DEF eachFrame
<1> HIDE DEF e, f, n
<1>6. e # <<>>
  BY <1>0, <1>1, EmptySeq
<1>7. Head(e) = e[1]
  BY <1>1, <1>6
<1>8. /\ Tail(e) \in Seq(Seq(Byte)) /\ Len(Tail(e)) = n - 1
      /\ \A i \in 1..(n - 1) : Tail(e)[i] = e[i + 1]
  BY <1>1, <1>6, HeadTailProperties
<1>9. \A i \in 1..(n - 1) : Tail(e)[i] = f[i]
  <2> SUFFICES ASSUME NEW i \in 1..(n - 1) PROVE Tail(e)[i] = f[i]
    OBVIOUS
  <2>1. i + 1 \in 1..n
    BY <1>0
  <2> QED BY <1>2, <1>4, <1>5, <1>8, <2>1
<1>10. Tail(e) = f
  BY <1>0, <1>3, <1>8, <1>9, SeqEqual
<1>11. FlattenSeq(e) = Head(e) \o FlattenSeq(Tail(e))
  BY <1>1, <1>6, FlattenHead
<1> QED BY <1>4, <1>7, <1>10, <1>11 DEF frames, e, f

\* What Decode makes of a whole packet at the head of the wire
LEMMA DecodedIs ==
    ASSUME NEW p \in Packets, NEW v \in {V311, V5}, NEW s \in Seq(Byte), ~tooLarge(body(v, p))
    PROVE  /\ frameRest(bytes(v, p) \o s) = s
           /\ decoded(v, bytes(v, p) \o s) =
                 IF Len(body(v, p)) = 0 THEN decodeEmpty(v, header(p))
                 ELSE IF Len(body(v, p)) < 2 THEN bad
                 ELSE IF v = V311 THEN decodeV311Packet(p.type, header(p), body(v, p))
                 ELSE decodeV5Packet(p.type, header(p), body(v, p))
<1> DEFINE d == body(v, p)
           w == bytes(v, p) \o s
           h == header(p)
           r == varIntBytes(Len(d)) \o d
<1>1. h \in Byte /\ typeOf(h) = p.type /\ d \in Seq(Byte)
  BY HeaderOf, BodyType
<1>2. w = write(h, d) \o s
  BY BytesAre
<1>3. bytes(v, p) = <<h>> \o r
  BY BytesAre
<1>4. r \in Seq(Byte)
  <2>1. varIntBytes(Len(d)) \in Seq(Byte)
    BY <1>1, VarIntBytesType, LenProperties
  <2> QED BY <1>1, <2>1, Joined
<1>5. w # <<>> /\ w[1] = h
  <2> HIDE DEF h, r
  <2> DEFINE x == <<h>>
             y == bytes(v, p)
  <2>1. x \in Seq(Byte) /\ Len(x) = 1 /\ x[1] = h
    BY <1>1
  <2>2. y = x \o r /\ y \in Seq(Byte)
    BY <1>3, BytesAre
  <2> HIDE DEF x
  <2>a. Len(x) >= 1
    BY <2>1
  <2>3. x \o r # <<>> /\ (x \o r)[1] = x[1]
    BY <1>4, <2>1, <2>a, FirstOf
  <2>4. y # <<>> /\ y[1] = h
    BY <2>1, <2>2, <2>3
  <2>5. Len(y) \in Nat /\ Len(y) # 0
    BY <2>2, <2>4, LenProperties, EmptySeq
  <2>6. Len(y) >= 1
    BY <2>5
  <2> HIDE DEF y
  <2>7. y \o s # <<>> /\ (y \o s)[1] = y[1]
    BY <2>2, <2>6, FirstOf
  <2> QED BY <2>4, <2>7 DEF y
<1> HIDE DEF w, h, d
<1>6. wholeFrame(w) /\ remaining(w) = Len(d) /\ frameBody(w) = d /\ frameRest(w) = s
  BY <1>1, <1>2, FrameRoundTrip DEF d
<1>7. decoded(v, w) =
        IF Len(d) = 0 THEN decodeEmpty(v, h)
        ELSE IF Len(d) < 2 THEN bad
        ELSE IF v = V311 THEN decodeV311Packet(p.type, h, d)
        ELSE decodeV5Packet(p.type, h, d)
  BY <1>1, <1>5, <1>6 DEF decoded
<1> QED BY <1>6, <1>7 DEF w, d, h

-----------------------------------------------------------------------------
(* What Decode leaves on the wire, whatever is there *)

\* getRemainLength reads at most four bytes.
LEMMA LastByteRange == ASSUME NEW d PROVE lastByte(d) \in 1..4
BY DEF lastByte

\* Whatever the bytes, the length is a number.
LEMMA LengthNat ==
    ASSUME NEW d \in Seq(Byte)
    PROVE  getRemainLength(d).length \in Nat
<1> DEFINE k == lastByte(d)
<1>1. k \in 1..4
  BY LastByteRange
<1>2. Len(d) \in Nat /\ \A i \in 1..Len(d) : d[i] \in Byte
  BY LenProperties, ElementOfSeq
<1> HIDE DEF k
<1>3. CASE k > Len(d)
  BY <1>3 DEF getRemainLength, lengthUpTo, k
<1>4. CASE ~(k > Len(d))
  <2> DEFINE part(i) == IF i <= k THEN (d[i] % 128) * weight[i] ELSE 0
  <2>1. getRemainLength(d).length = part(1) + part(2) + part(3) + part(4)
    BY <1>4 DEF getRemainLength, lengthUpTo, k
  <2>2. weight[1] = 1 /\ weight[2] = 128 /\ weight[3] = 16384 /\ weight[4] = 2097152
    BY DEF weight
  <2>3. ASSUME NEW i \in 1..4 PROVE part(i) \in Nat
    <3>1. CASE i <= k
      <4> DEFINE x == d[i]
                 y == weight[i]
      <4>1. x \in Byte
        BY <1>1, <1>2, <1>4, <3>1
      <4>2. y \in {1, 128, 16384, 2097152}
        BY <2>2, <2>3
      <4>3. part(i) = (x % 128) * y
        BY <3>1
      <4> HIDE DEF x, y, part
      <4>4. x % 128 \in Nat
        BY <4>1 DEF Byte
      <4> QED BY <4>2, <4>3, <4>4
    <3>2. CASE ~(i <= k)
      BY <3>2
    <3> QED BY <3>1, <3>2
  <2>4. part(1) \in Nat /\ part(2) \in Nat /\ part(3) \in Nat /\ part(4) \in Nat
    BY <2>3
  <2> HIDE DEF part
  <2> QED BY <2>1, <2>4
<1> QED BY <1>3, <1>4

\* What Decode leaves on the wire is bytes.
LEMMA FrameRestType ==
    ASSUME NEW w \in Seq(Byte), w # <<>>
    PROVE  frameRest(w) \in Seq(Byte)
<1>1. Tail(w) \in Seq(Byte) /\ Len(Tail(w)) \in Nat
  BY HeadTailProperties, LenProperties
<1>2. lastByte(Tail(w)) \in 1..4 /\ remaining(w) \in Nat
  BY <1>1, LastByteRange, LengthNat DEF remaining
<1>3. bodyStart(w) \in Nat /\ bodyStart(w) >= 2
  <2> DEFINE k == lastByte(Tail(w))
             n == Len(Tail(w))
  <2>1. bodyStart(w) = 2 + (IF k > n THEN n ELSE k)
    BY DEF bodyStart
  <2> HIDE DEF k, n
  <2> QED BY <1>1, <1>2, <2>1 DEF k, n
<1> DEFINE m == bodyStart(w) + remaining(w)
<1>4. m \in Nat /\ m >= 2
  BY <1>2, <1>3
<1> HIDE DEF m
<1>5. Len(w) \in Nat /\ \A i \in 1..Len(w) : w[i] \in Byte
  BY LenProperties, ElementOfSeq
<1>6. \A i \in m..Len(w) : w[i] \in Byte
  BY <1>4, <1>5
<1>7. SubSeq(w, m, Len(w)) \in Seq(Byte)
  <2>1. m \in Int /\ Len(w) \in Int
    BY <1>4, <1>5
  <2> QED BY <1>6, <2>1, SubSeqProperties
<1> QED BY <1>7 DEF frameRest, m

\* The first k bytes of the wire, and the bytes that are lost
LEMMA Cuts ==
    ASSUME NEW w \in Seq(Byte), NEW k \in 0..Len(w)
    PROVE  /\ SubSeq(w, 1, k) \in Seq(Byte)
           /\ \E u \in Seq(Byte) : SubSeq(w, 1, k) \o u = w
<1>1. Len(w) \in Nat /\ \A i \in 1..Len(w) : w[i] \in Byte
  BY LenProperties, ElementOfSeq
<1>2. SubSeq(w, 1, k) \in Seq(Byte)
  <2>1. 1 \in Int /\ k \in Int /\ \A i \in 1..k : w[i] \in Byte
    BY <1>1
  <2> QED BY <2>1, SubSeqProperties
<1> DEFINE m == k + 1
           u == SubSeq(w, m, Len(w))
<1>3. u \in Seq(Byte)
  <2>1. m \in Int /\ Len(w) \in Int /\ \A i \in m..Len(w) : w[i] \in Byte
    BY <1>1
  <2> HIDE DEF m
  <2> QED BY <2>1, SubSeqProperties
<1>4. SubSeq(w, 1, k) \o u = SubSeq(w, 1, Len(w))
  <2>1. 1 \in 1..(Len(w) + 1) /\ k \in (1 - 1)..Len(w) /\ Len(w) \in k..Len(w)
    BY <1>1
  <2> QED BY <2>1, ConcatAdjacentSubSeq
<1>5. SubSeq(w, 1, Len(w)) = w
  BY SubSeqFull
<1> QED BY <1>2, <1>3, <1>4, <1>5

\* Nothing but a first byte: Decode waits for the length.
LEMMA NotReady ==
    ASSUME NEW t \in Seq(Byte), Len(t) <= 1, wire = t
    PROVE  ~ready
<1> SUFFICES ASSUME ready PROVE FALSE
  OBVIOUS
<1>1. t # <<>> /\ lastByte(Tail(t)) <= Len(Tail(t))
  BY DEF ready
<1>2. Len(Tail(t)) = Len(t) - 1 /\ Len(t) \in Nat
  BY <1>1, HeadTailProperties, LenProperties
<1>3. lastByte(Tail(t)) \in 1..4
  BY LastByteRange
<1> HIDE DEF ready
<1> QED BY <1>1, <1>2, <1>3

-----------------------------------------------------------------------------
(* The invariant behind InSync *)

\* What a packet that was too large left on the wire
Left(t) ==
    IF sender = "failed"
    THEN \E p \in Packets : tooLarge(body(version, p)) /\ t = <<header(p)>>
    ELSE t = <<>>

\* The bytes on the wire are those of the packets that were not yet read.
Holds(t) == Left(t) /\ wire = frames(version, unread) \o t

UnreadOK == \A i \in 1..Len(unread) : ~tooLarge(body(version, unread[i]))

Sync ==
    /\ TypeOK
    /\ UnreadOK
    /\ open /\ reader = "reading" => \E t : Holds(t)

\* At most one byte is left behind.
LEMMA LeftType ==
    ASSUME NEW t, Left(t)
    PROVE  /\ t \in Seq(Byte)
           /\ Len(t) = IF sender = "failed" THEN 1 ELSE 0
BY HeaderOf, OneByte, EmptySeq DEF Left

\* The version of the connection is one of the two.
LEMMA VersionOK == TypeOK => version \in {V311, V5}
BY PacketsAssumption DEF TypeOK

\* The invariant holds on a new connection.
LEMMA SyncStarts == Init => Sync
<1> SUFFICES ASSUME Init PROVE Sync
  OBVIOUS
<1>0. <<>> \in Seq(Byte) /\ <<>> \in Seq(Packets) /\ Len(<<>>) = 0
  BY EmptySeq
<1>1. TypeOK
  BY <1>0, PacketsAssumption DEF Init, TypeOK, nothing
<1>2. UnreadOK
  BY <1>0 DEF Init, UnreadOK
<1>3. Holds(<<>>)
  <2>1. <<>> \o <<>> = <<>>
    BY <1>0, ConcatEmptySeq
  <2> QED BY <2>1, FramesEmpty DEF Init, Holds, Left
<1> QED BY <1>1, <1>2, <1>3 DEF Sync

\* One packet more, one packet less
LEMMA UnreadMore ==
    ASSUME NEW v, NEW ps \in Seq(Packets), NEW p \in Packets,
           \A i \in 1..Len(ps) : ~tooLarge(body(v, ps[i])), ~tooLarge(body(v, p))
    PROVE  \A i \in 1..Len(Append(ps, p)) : ~tooLarge(body(v, Append(ps, p)[i]))
<1>1. /\ Len(ps) \in Nat /\ Len(Append(ps, p)) = Len(ps) + 1
      /\ Append(ps, p)[Len(ps) + 1] = p /\ \A i \in 1..Len(ps) : Append(ps, p)[i] = ps[i]
  BY AppendProperties, LenProperties
<1> SUFFICES ASSUME NEW i \in 1..Len(Append(ps, p)) PROVE ~tooLarge(body(v, Append(ps, p)[i]))
  OBVIOUS
<1>2. i \in 1..Len(ps) \/ i = Len(ps) + 1
  BY <1>1
<1>3. Append(ps, p)[i] = p \/ \E j \in 1..Len(ps) : Append(ps, p)[i] = ps[j]
  BY <1>1, <1>2
<1> QED BY <1>3

\* The packets behind the first one.
LEMMA UnreadLess ==
    ASSUME NEW v, NEW ps \in Seq(Packets), ps # <<>>, \A i \in 1..Len(ps) : ~tooLarge(body(v, ps[i]))
    PROVE  /\ \A i \in 1..Len(Tail(ps)) : ~tooLarge(body(v, Tail(ps)[i]))
           /\ ~tooLarge(body(v, Head(ps))) /\ Head(ps) \in Packets /\ Tail(ps) \in Seq(Packets)
<1>1. /\ Len(ps) \in Nat /\ Len(ps) # 0 /\ Len(Tail(ps)) = Len(ps) - 1
      /\ \A i \in 1..Len(Tail(ps)) : Tail(ps)[i] = ps[i + 1]
  BY HeadTailProperties, LenProperties, EmptySeq
<1>2. Head(ps) \in Packets /\ Tail(ps) \in Seq(Packets) /\ Head(ps) = ps[1]
  BY HeadTailProperties
<1>3. 1 \in 1..Len(ps)
  BY <1>1
<1>4. ~tooLarge(body(v, Head(ps)))
  BY <1>2, <1>3
<1>5. ASSUME NEW i \in 1..Len(Tail(ps)) PROVE ~tooLarge(body(v, Tail(ps)[i]))
  <2>1. i + 1 \in 1..Len(ps) /\ Tail(ps)[i] = ps[i + 1]
    BY <1>1
  <2> QED BY <2>1
<1> QED BY <1>2, <1>4, <1>5

\* A packet is waiting: the wire is that packet and then the others.
LEMMA WireHead ==
    ASSUME TypeOK, NEW t \in Seq(Byte), wire = frames(version, unread) \o t, unread # <<>>
    PROVE  LET s == frames(version, Tail(unread)) \o t
           IN  s \in Seq(Byte) /\ wire = bytes(version, Head(unread)) \o s
<1> DEFINE b == bytes(version, Head(unread))
           f == frames(version, Tail(unread))
<1>1. version \in {V311, V5} /\ unread \in Seq(Packets)
  BY VersionOK DEF TypeOK
<1>2. Head(unread) \in Packets /\ Tail(unread) \in Seq(Packets)
  BY <1>1, HeadTailProperties
<1>3. b \in Seq(Byte) /\ f \in Seq(Byte)
  BY <1>1, <1>2, BytesAre, FramesType
<1>4. frames(version, unread) = b \o f
  BY <1>1, FramesHead
<1> HIDE DEF b, f
<1>5. (b \o f) \o t = b \o (f \o t)
  BY <1>3, ConcatAssociative
<1>6. f \o t \in Seq(Byte)
  BY <1>3, Joined
<1> QED BY <1>4, <1>5, <1>6 DEF b, f

\* A step of Decode, on a wire that was not cut: either the packet at the head
\* was read and taken off, or the reader stopped.
LEMMA DecodeOpen ==
    ASSUME Sync, Decode, open
    PROVE  /\ unread # <<>> /\ Head(unread) \in Packets /\ ~tooLarge(body(version, Head(unread)))
           /\ \E s \in Seq(Byte) :
                 LET w == bytes(version, Head(unread)) \o s
                 IN  /\ wire = w
                     /\ received(decoded(version, w), Head(unread))
                     /\ frameRest(wire) = s
                     /\ \E t : Left(t) /\ s = frames(version, Tail(unread)) \o t
<1>0. TypeOK /\ version \in {V311, V5} /\ unread \in Seq(Packets) /\ UnreadOK
  BY VersionOK DEF Sync, TypeOK
<1>1. reader = "reading" /\ ready
  BY <1>0 DEF Decode, TypeOK
<1>2. PICK t : Left(t) /\ wire = frames(version, unread) \o t
  BY <1>1 DEF Sync, Holds
<1>3. t \in Seq(Byte) /\ Len(t) = IF sender = "failed" THEN 1 ELSE 0
  BY <1>2, LeftType
<1>4. unread # <<>>
  <2> SUFFICES ASSUME unread = <<>> PROVE FALSE
    OBVIOUS
  <2>1. wire = <<>> \o t
    BY <1>2, FramesEmpty
  <2>2. wire = t /\ Len(t) <= 1
    BY <1>3, <2>1, ConcatEmptySeq
  <2> QED BY <1>1, <1>3, <2>2, NotReady
<1>5. Head(unread) \in Packets /\ ~tooLarge(body(version, Head(unread)))
  BY <1>0, <1>4, UnreadLess DEF UnreadOK
<1> DEFINE s == frames(version, Tail(unread)) \o t
<1>6. s \in Seq(Byte) /\ wire = bytes(version, Head(unread)) \o s
  BY <1>0, <1>2, <1>3, <1>4, WireHead
<1>7. Left(t) /\ s = frames(version, Tail(unread)) \o t
  BY <1>2
<1> HIDE DEF s
<1>8. frameRest(wire) = s
  BY <1>0, <1>5, <1>6, DecodedIs
<1>9. received(decoded(version, wire), Head(unread))
  BY <1>4 DEF Decode
<1> QED BY <1>4, <1>5, <1>6, <1>7, <1>8, <1>9

\* Every step keeps the types.
LEMMA TypeStep == Sync /\ [Next]_vars => TypeOK'
<1> SUFFICES ASSUME Sync, [Next]_vars PROVE TypeOK'
  OBVIOUS
<1>0. TypeOK /\ version \in {V311, V5}
  BY VersionOK DEF Sync
<1>1. ASSUME NEW p \in Packets, WriteTo(p) PROVE TypeOK'
  <2>1. wire' \in Seq(Byte)
    <3> DEFINE b == bytes(version, p)
    <3>1. b \in Seq(Byte) /\ wire \in Seq(Byte)
      BY <1>0, <1>1, BytesAre DEF TypeOK
    <3>2. wire' = wire \/ wire' = wire \o b
      BY <1>1 DEF WriteTo
    <3> HIDE DEF b
    <3>3. wire \o b \in Seq(Byte)
      BY <3>1, Joined
    <3> QED BY <3>1, <3>2, <3>3
  <2>2. unread' \in Seq(Packets)
    <3>1. unread' = unread \/ unread' = Append(unread, p)
      BY <1>1 DEF WriteTo
    <3> QED BY <1>0, <1>1, <3>1, AppendProperties DEF TypeOK
  <2>3. writes' \in 0..MaxWrites
    BY <1>0, <1>1, PacketsAssumption DEF WriteTo, TypeOK
  <2>4. sender' \in {"writing", "failed", "panicked"}
    BY <1>0, <1>1 DEF WriteTo, TypeOK
  <2> QED BY <1>0, <1>1, <2>1, <2>2, <2>3, <2>4 DEF WriteTo, TypeOK
<1>2. ASSUME NEW k \in 0..Len(wire), Cut(k) PROVE TypeOK'
  <2>1. wire' \in Seq(Byte)
    BY <1>0, <1>2, Cuts DEF Cut, TypeOK
  <2> QED BY <1>0, <1>2, <2>1 DEF Cut, TypeOK
<1>3. ASSUME Decode PROVE TypeOK'
  <2> DEFINE r == decoded(version, wire)
             of == IF unread = <<>> THEN [type |-> "none"] ELSE Head(unread)
  <2>0. received(r, of) /\ UNCHANGED <<version, sender, open, writes>> /\ reader = "reading"
    BY <1>3 DEF Decode
  <2>a. wire \in Seq(Byte) /\ unread \in Seq(Packets)
    BY <1>0 DEF TypeOK
  <2>b. wire = <<>> => ~r.ok
    BY DEF decoded, bad
  <2> HIDE DEF r, of
  <2>1. CASE /\ r.ok /\ last' = [ok |-> TRUE, pkt |-> r.pkt, of |-> of]
             /\ wire' = frameRest(wire) /\ unread' = (IF unread = <<>> THEN <<>> ELSE Tail(unread))
             /\ reader' = reader
    <3>1. wire' \in Seq(Byte)
      BY <2>1, <2>a, <2>b, FrameRestType
    <3>2. unread' \in Seq(Packets)
      <4>1. <<>> \in Seq(Packets)
        BY EmptySeq
      <4>2. unread # <<>> => Tail(unread) \in Seq(Packets)
        BY <2>a, HeadTailProperties
      <4> QED BY <2>1, <4>1, <4>2
    <3>3. last'.ok \in BOOLEAN
      BY <2>1
    <3> QED BY <1>0, <2>0, <2>1, <3>1, <3>2, <3>3 DEF TypeOK
  <2>2. CASE /\ ~r.ok /\ last' = [ok |-> FALSE, of |-> of] /\ reader' = "stopped"
             /\ UNCHANGED <<wire, unread>>
    BY <1>0, <2>0, <2>2 DEF TypeOK
  <2> QED BY <2>0, <2>1, <2>2 DEF received
<1>4. CASE UNCHANGED vars
  BY <1>0, <1>4 DEF TypeOK, vars
<1> QED BY <1>1, <1>2, <1>3, <1>4 DEF Next

\* Every step keeps the invariant.
LEMMA SyncStep == Sync /\ [Next]_vars => Sync'
<1> SUFFICES ASSUME Sync, [Next]_vars PROVE Sync'
  OBVIOUS
<1>0. TypeOK /\ version \in {V311, V5} /\ UnreadOK /\ wire \in Seq(Byte) /\ unread \in Seq(Packets)
  BY VersionOK DEF Sync, TypeOK
<1>t. TypeOK'
  BY TypeStep
<1> SUFFICES UnreadOK' /\ (open' /\ reader' = "reading" => \E t : Holds(t)')
  BY <1>t DEF Sync
<1>1. ASSUME NEW p \in Packets, WriteTo(p) PROVE UnreadOK' /\ (open' /\ reader' = "reading" => \E t : Holds(t)')
  <2> DEFINE b == bytes(version, p)
             f == frames(version, unread)
  <2>1. open /\ sender = "writing" /\ version' = version /\ reader' = reader /\ open' = open
    BY <1>1 DEF WriteTo
  <2>2. f \in Seq(Byte) /\ b \in Seq(Byte) /\ <<>> \in Seq(Byte)
    BY <1>0, <1>1, FramesType, BytesAre, EmptySeq
  <2>3. f \o <<>> = f
    BY <2>2, ConcatEmptySeq
  <2>4. reader = "reading" => wire = f
    BY <2>1, <2>3 DEF Sync, Holds, Left
  <2>5. CASE sender' = "panicked" /\ UNCHANGED <<wire, unread>>
    <3>1. UnreadOK'
      BY <1>0, <2>1, <2>5 DEF UnreadOK
    <3>2. reader = "reading" => Holds(<<>>)'
      BY <2>1, <2>3, <2>4, <2>5 DEF Holds, Left
    <3> QED BY <2>1, <3>1, <3>2
  <2>6. CASE wire' = wire \o b /\ tooLarge(body(version, p)) /\ sender' = "failed" /\ UNCHANGED unread
    <3>1. UnreadOK'
      BY <1>0, <2>1, <2>6 DEF UnreadOK
    <3>2. b = <<header(p)>>
      BY <1>0, <1>1, <2>6, BytesAre
    <3>3. reader = "reading" => Holds(b)'
      BY <1>1, <2>1, <2>4, <2>6, <3>2 DEF Holds, Left
    <3> QED BY <2>1, <3>1, <3>3
  <2>7. CASE wire' = wire \o b /\ ~tooLarge(body(version, p)) /\ unread' = Append(unread, p) /\ UNCHANGED sender
    <3>1. UnreadOK'
      BY <1>0, <1>1, <2>1, <2>7, UnreadMore DEF UnreadOK
    <3>2. frames(version, unread') = f \o b
      BY <1>0, <1>1, <2>7, FramesAppend
    <3>3. (f \o b) \o <<>> = f \o b
      <4> HIDE DEF f, b
      <4>1. f \o b \in Seq(Byte)
        BY <2>2, Joined
      <4> QED BY <4>1, ConcatEmptySeq
    <3>4. reader = "reading" => Holds(<<>>)'
      BY <2>1, <2>4, <2>7, <3>2, <3>3 DEF Holds, Left
    <3> QED BY <2>1, <3>1, <3>4
  <2> QED BY <1>1, <2>5, <2>6, <2>7 DEF WriteTo
<1>2. ASSUME NEW k \in 0..Len(wire), Cut(k) PROVE UnreadOK' /\ (open' /\ reader' = "reading" => \E t : Holds(t)')
  BY <1>0, <1>2 DEF Cut, UnreadOK
<1>3. ASSUME Decode PROVE UnreadOK' /\ (open' /\ reader' = "reading" => \E t : Holds(t)')
  <2>0. version' = version /\ sender' = sender /\ open' = open
    BY <1>3 DEF Decode
  <2>1. UnreadOK'
    <3>1. unread' = unread \/ unread' = (IF unread = <<>> THEN <<>> ELSE Tail(unread))
      BY <1>3 DEF Decode, received
    <3>2. CASE unread' = unread
      BY <1>0, <2>0, <3>2 DEF UnreadOK
    <3>3. CASE unread = <<>> /\ unread' = <<>>
      BY <1>0, <2>0, <3>3 DEF UnreadOK
    <3>4. CASE unread # <<>> /\ unread' = Tail(unread)
      BY <1>0, <2>0, <3>4, UnreadLess DEF UnreadOK
    <3> QED BY <3>1, <3>2, <3>3, <3>4
  <2>2. ASSUME open, reader' = "reading" PROVE \E t : Holds(t)'
    <3>1. PICK s \in Seq(Byte) :
             /\ received(decoded(version, wire), Head(unread)) /\ frameRest(wire) = s
             /\ \E t : Left(t) /\ s = frames(version, Tail(unread)) \o t
      BY <1>3, <2>2, DecodeOpen
    <3>2. unread # <<>>
      BY <1>3, <2>2, DecodeOpen
    <3>3. wire' = s /\ unread' = Tail(unread)
      BY <2>2, <3>1, <3>2 DEF received
    <3>4. PICK t : Left(t) /\ s = frames(version, Tail(unread)) \o t
      BY <3>1
    <3>5. Left(t)'
      BY <2>0, <3>4 DEF Left
    <3>6. Holds(t)'
      BY <2>0, <3>3, <3>4, <3>5 DEF Holds
    <3> QED BY <3>6
  <2> QED BY <2>0, <2>1, <2>2
<1>4. CASE UNCHANGED vars
  <2>1. UnreadOK'
    BY <1>0, <1>4 DEF UnreadOK, vars
  <2>2. ASSUME NEW t, Holds(t) PROVE Holds(t)'
    BY <1>4, <2>2 DEF Holds, Left, vars
  <2> QED BY <1>4, <2>1, <2>2 DEF Sync, vars
<1> QED BY <1>1, <1>2, <1>3, <1>4 DEF Next

\* The bytes of the packets are at the head of the wire.
LEMMA SyncIs == Sync => InSync
<1> SUFFICES ASSUME Sync, open, reader = "reading"
             PROVE  LET fs == FlattenSeq([i \in DOMAIN unread |-> bytes(version, unread[i])])
                    IN  /\ IsPrefix(fs, wire)
                        /\ Len(wire) - Len(fs) = (IF sender = "failed" THEN 1 ELSE 0)
  BY DEF InSync
<1> DEFINE fs == frames(version, unread)
<1>0. TypeOK /\ version \in {V311, V5} /\ unread \in Seq(Packets)
  BY VersionOK DEF Sync, TypeOK
<1>1. FlattenSeq([i \in DOMAIN unread |-> bytes(version, unread[i])]) = fs
  <2>1. DOMAIN unread = 1..Len(unread)
    BY <1>0
  <2> QED BY <2>1 DEF frames, eachFrame
<1>2. PICK t : Left(t) /\ wire = fs \o t
  BY DEF Sync, Holds
<1>3. t \in Seq(Byte) /\ Len(t) = (IF sender = "failed" THEN 1 ELSE 0) /\ fs \in Seq(Byte)
  BY <1>0, <1>2, LeftType, FramesType
<1> HIDE DEF fs
<1>4. Len(fs) \in Nat /\ Len(t) \in Nat /\ Len(wire) = Len(fs) + Len(t) /\ wire \in Seq(Byte)
  BY <1>2, <1>3, Joined, LenProperties
<1>5. \A i \in 1..Len(fs) : wire[i] = fs[i]
  BY <1>2, <1>3, ConcatProperties
<1>6. SubSeq(wire, 1, Len(fs)) = fs
  <2>1. SubSeq(wire, 0 + 1, Len(fs)) = fs
    <3>1. 0 \in Nat /\ Len(fs) = 0 + Len(fs) /\ Len(fs) <= Len(wire)
      BY <1>4
    <3>2. \A i \in 1..Len(fs) : wire[0 + i] = fs[i]
      BY <1>4, <1>5
    <3> QED BY <1>3, <1>4, <3>1, <3>2, SliceIs
  <2> QED BY <2>1
<1>7. SubSeq(fs, 1, Len(fs)) = fs
  BY <1>3, SubSeqFull
<1>8. IsPrefix(fs, wire)
  BY <1>4, <1>6, <1>7 DEF IsPrefix
<1>9. Len(wire) - Len(fs) = Len(t)
  BY <1>4
<1> QED BY <1>1, <1>3, <1>8, <1>9

\* The invariant of WriteTo, Cut and Decode.
LEMMA SyncAlways == Spec => []Sync
BY SyncStarts, SyncStep, PTL DEF Spec

\* Whatever is written, cut and decoded, the variables of the connection keep
\* their types: WriteTo produces bytes, and Decode leaves bytes on the wire.
THEOREM CodecTypes == Spec => []TypeOK
<1>1. Sync => TypeOK
  BY DEF Sync
<1> QED BY <1>1, SyncAlways, PTL

\* While the connection is up, Decode takes exactly the bytes of one packet
\* off the wire, however it understands them: the bytes that are left are those
\* of the packets not yet read.
THEOREM StaysInSync == Spec => []InSync
BY SyncIs, SyncAlways, PTL

-----------------------------------------------------------------------------
(* Reading back what was written *)

\* Parts of a joined sequence
LEMMA Parts ==
    ASSUME NEW a \in Seq(Byte), NEW b \in Seq(Byte), NEW c \in Seq(Byte)
    PROVE  /\ SubSeq(a \o (b \o c), Len(a) + 1, Len(a) + Len(b)) = b
           /\ SubSeq(a \o (b \o c), (Len(a) + Len(b)) + 1, Len(a \o (b \o c))) = c
           /\ Len(a \o (b \o c)) = Len(a) + Len(b) + Len(c)
<1> DEFINE r == b \o c
           w == a \o r
           m == Len(a)
           e == Len(a) + Len(b)
<1>1. Len(a) \in Nat /\ Len(b) \in Nat /\ Len(c) \in Nat
  BY LenProperties
<1>2. /\ r \in Seq(Byte) /\ Len(r) = Len(b) + Len(c)
      /\ \A i \in 1..Len(b) : r[i] = b[i]
      /\ \A i \in 1..Len(c) : r[Len(b) + i] = c[i]
  <2>1. \A i \in 1..Len(b) : r[i] = b[i]
    BY ConcatProperties
  <2>2. \A i \in 1..Len(c) : r[Len(b) + i] = c[i]
    OBVIOUS
  <2> QED BY <2>1, <2>2, Joined
<1> HIDE DEF r
<1>3. /\ w \in Seq(Byte) /\ Len(w) = Len(a) + Len(r)
      /\ \A i \in 1..Len(r) : w[Len(a) + i] = r[i]
  <2>1. \A i \in 1..Len(r) : w[Len(a) + i] = r[i]
    BY <1>2
  <2> QED BY <1>2, <2>1, Joined
<1> HIDE DEF w
<1>4. SubSeq(w, m + 1, e) = b
  <2>1. m \in Nat /\ e = m + Len(b) /\ e <= Len(w)
    BY <1>1, <1>2, <1>3
  <2>2. ASSUME NEW i \in 1..Len(b) PROVE w[m + i] = b[i]
    <3>1. i \in 1..Len(r)
      BY <1>1, <1>2
    <3> QED BY <1>2, <1>3, <3>1
  <2> QED BY <1>3, <2>1, <2>2, SliceIs
<1>5. SubSeq(w, e + 1, Len(w)) = c
  <2>1. e \in Nat /\ Len(w) = e + Len(c) /\ Len(w) <= Len(w)
    BY <1>1, <1>2, <1>3
  <2>2. ASSUME NEW i \in 1..Len(c) PROVE w[e + i] = c[i]
    <3>1. Len(b) + i \in 1..Len(r) /\ Len(a) + (Len(b) + i) = e + i
      BY <1>1, <1>2
    <3>2. w[Len(a) + (Len(b) + i)] = r[Len(b) + i] /\ r[Len(b) + i] = c[i]
      BY <1>2, <1>3, <3>1
    <3> QED BY <3>1, <3>2
  <2> DEFINE z == Len(w)
  <2>3. z = e + Len(c) /\ z <= Len(w)
    BY <2>1
  <2> HIDE DEF z
  <2>4. SubSeq(w, e + 1, z) = c
    BY <1>3, <2>1, <2>2, <2>3, SliceIs
  <2> QED BY <2>4 DEF z
<1>6. Len(w) = Len(a) + Len(b) + Len(c)
  BY <1>1, <1>2, <1>3
<1> QED BY <1>4, <1>5, <1>6 DEF r, w

\* Two bytes and what follows them
LEMMA FirstPart ==
    ASSUME NEW a \in Seq(Byte), NEW b \in Seq(Byte)
    PROVE  \A i \in 1..Len(a) : (a \o b)[i] = a[i]
BY ConcatProperties

\* A 16 bit number from its two bytes.
LEMMA Split16 ==
    ASSUME NEW n \in Uint16
    PROVE  /\ n \in Nat /\ (n \div 256) % 256 \in Byte /\ n % 256 \in Byte
           /\ ((n \div 256) % 256) * 256 + (n % 256) = n
<1> DEFINE q == n \div 256
<1>1. n \in Nat
  BY Uint16Bound
<1>2. q \in Byte /\ n % 256 \in Byte /\ q * 256 + (n % 256) = n
  BY PutUint16
<1>3. q % 256 = q
  <2> HIDE DEF q
  <2> QED BY <1>2 DEF Byte
<1> QED BY <1>1, <1>2, <1>3

\* Two bytes in front.
LEMMA AfterTwo ==
    ASSUME NEW x \in Byte, NEW y \in Byte, NEW r \in Seq(Byte)
    PROVE  /\ (<<x, y>> \o r)[1] = x /\ (<<x, y>> \o r)[2] = y
           /\ from(<<x, y>> \o r, 3) = r
           /\ Len(<<x, y>> \o r) = 2 + Len(r)
           /\ getUint16(<<x, y>> \o r) = x * 256 + y
<1> DEFINE h == <<x, y>>
<1>1. h \in Seq(Byte) /\ Len(h) = 2 /\ h[1] = x /\ h[2] = y
  OBVIOUS
<1>2. Len(r) \in Nat /\ <<>> \in Seq(Byte) /\ Len(<<>>) = 0
  BY LenProperties, EmptySeq
<1> HIDE DEF h
<1>3. 1 \in 1..Len(h) /\ 2 \in 1..Len(h)
  BY <1>1
<1>4. (h \o r)[1] = h[1] /\ (h \o r)[2] = h[2]
  <2>1. \A i \in 1..Len(h) : (h \o r)[i] = h[i]
    BY <1>1, FirstPart
  <2> QED BY <1>3, <2>1
<1>5. <<>> \o r = r
  BY ConcatEmptySeq
<1>6. SubSeq(h \o r, 3, Len(h \o r)) = r
  <2> DEFINE z == <<>>
  <2>1. (Len(h) + Len(z)) + 1 = 3 /\ z \o r = r
    BY <1>1, <1>2, <1>5
  <2>2. h \in Seq(Byte) /\ z \in Seq(Byte)
    BY <1>1, <1>2
  <2> HIDE DEF z
  <2>3. SubSeq(h \o (z \o r), (Len(h) + Len(z)) + 1, Len(h \o (z \o r))) = r
    BY <2>2, Parts
  <2> QED BY <2>1, <2>3
<1>7. Len(h \o r) = Len(h) + Len(r)
  BY <1>1, Joined
<1>8. getUint16(h \o r) = x * 256 + y
  BY <1>1, <1>4 DEF getUint16
<1> QED BY <1>1, <1>4, <1>6, <1>7, <1>8 DEF from, h

\* An identifier in front is read back, and what follows is what was there.
LEMMA IdBack ==
    ASSUME NEW n \in Uint16, NEW r \in Seq(Byte)
    PROVE  /\ getUint16(putUint16(n) \o r) = n
           /\ from(putUint16(n) \o r, 3) = r
           /\ Len(putUint16(n) \o r) = 2 + Len(r)
<1> DEFINE x == n \div 256
           y == n % 256
<1>1. putUint16(n) = <<x, y>> /\ x \in Byte /\ y \in Byte /\ x * 256 + y = n
  BY PutUint16
<1> HIDE DEF x, y
<1> QED BY <1>1, AfterTwo

\* An identifier with nothing behind it is read back.
LEMMA IdAlone ==
    ASSUME NEW n \in Uint16
    PROVE  getUint16(putUint16(n)) = n
<1>1. putUint16(n) \o <<>> = putUint16(n) /\ <<>> \in Seq(Byte)
  BY PutUint16, ConcatEmptySeq, EmptySeq
<1>2. getUint16(putUint16(n) \o <<>>) = n
  BY <1>1, IdBack
<1> QED BY <1>1, <1>2

\* getBinaryData undoes encodeBytesWithLen.
LEMMA ReadBack ==
    ASSUME NEW s \in Seq(Byte), Len(s) \in Uint16, NEW r \in Seq(Byte)
    PROVE  getBinaryData(encodeBytesWithLen(s) \o r) = [ok |-> TRUE, data |-> s, next |-> r]
<1> DEFINE n == Len(s)
           x == (n \div 256) % 256
           y == n % 256
           h == <<x, y>>
           t == s \o r
           d == encodeBytesWithLen(s) \o r
<1>1. x \in Byte /\ y \in Byte /\ x * 256 + y = n /\ n \in Nat
  BY Split16
<1>2. h \in Seq(Byte) /\ Len(h) = 2
  BY <1>1, TwoBytes
<1>3. d = (h \o s) \o r
  BY DEF encodeBytesWithLen
<1>4. t \in Seq(Byte)
  BY Joined
<1>5. d = h \o t
  <2> HIDE DEF h
  <2> QED BY <1>2, <1>3, ConcatAssociative
<1>6. getUint16(d) = n
  <2> HIDE DEF x, y, t, d
  <2> QED BY <1>1, <1>4, <1>5, AfterTwo
<1> HIDE DEF x, y, h, d
<1>7. /\ SubSeq(d, 3, n + 2) = s
      /\ SubSeq(d, (n + 2) + 1, Len(d)) = r
      /\ Len(d) = 2 + n + Len(r)
  <2>1. /\ SubSeq(h \o (s \o r), Len(h) + 1, Len(h) + Len(s)) = s
        /\ SubSeq(h \o (s \o r), (Len(h) + Len(s)) + 1, Len(h \o (s \o r))) = r
        /\ Len(h \o (s \o r)) = Len(h) + Len(s) + Len(r)
    BY <1>2, Parts, Zenon
  <2>2. Len(h) + 1 = 3 /\ Len(h) + Len(s) = n + 2 /\ Len(h) + Len(s) + Len(r) = 2 + n + Len(r)
    <3>1. Len(h) = 2 /\ n \in Nat /\ Len(s) = n
      BY <1>1, <1>2
    <3> HIDE DEF n
    <3> QED BY <3>1
  <2> HIDE DEF n
  <2> QED BY <1>5, <2>1, <2>2
<1>8. Len(r) \in Nat
  BY LenProperties
<1>9. ~(Len(d) < 2) /\ ~(n + 2 > Len(d))
  BY <1>1, <1>7, <1>8
<1>10. getBinaryData(d) = [ok |-> TRUE, data |-> SubSeq(d, 3, n + 2), next |-> SubSeq(d, (n + 2) + 1, Len(d))]
  BY <1>6, <1>9 DEF getBinaryData, from
<1> QED BY <1>7, <1>10 DEF d

\* A field of a CONNECT: what optional adds to the fields read before
Read(fields, next) == [ok |-> TRUE, fields |-> fields, next |-> next]

orEmpty(present, s) == IF present THEN s ELSE <<>>

\* A field that is missing counts as empty.
LEMMA SetFields ==
    ASSUME NEW fs, NEW r, NEW x
    PROVE  [Read(fs, r) EXCEPT !.fields = Append(@, x)] = Read(Append(fs, x), r)
<1> DEFINE y == Append(fs, x)
           k == TRUE
<1>1. [Read(fs, r) EXCEPT !.fields = Append(@, x)] = [[ok |-> k, fields |-> fs, next |-> r] EXCEPT !.fields = y]
  BY DEF Read
<1>2. [[ok |-> k, fields |-> fs, next |-> r] EXCEPT !.fields = y] = [ok |-> k, fields |-> y, next |-> r]
  <2> HIDE DEF k, y
  <2> QED OBVIOUS
<1> QED BY <1>1, <1>2, Zenon DEF Read

\* optional reads the field that field wrote, and goes on behind it.
LEMMA FieldBack ==
    ASSUME NEW present \in BOOLEAN, NEW s \in Seq(Byte), Len(s) \in Uint16, NEW r \in Seq(Byte), NEW fs
    PROVE  optional(present, Read(fs, field(present, s) \o r)) = Read(Append(fs, orEmpty(present, s)), r)
<1>1. CASE present
  <2> DEFINE n == encodeBytesWithLen(s) \o r
             read == Read(fs, field(present, s) \o r)
  <2>1. read.ok /\ read.fields = fs /\ read.next = n
    BY <1>1 DEF field, Read
  <2>2. getBinaryData(n) = [ok |-> TRUE, data |-> s, next |-> r]
    BY ReadBack
  <2> HIDE DEF n, read
  <2>3. optional(present, read) = oneMore(read, getBinaryData(n))
    BY <1>1, <2>1 DEF optional
  <2>4. oneMore(read, getBinaryData(n)) = [ok |-> TRUE, fields |-> Append(fs, s), next |-> r]
    BY <2>1, <2>2 DEF oneMore
  <2> QED BY <1>1, <2>3, <2>4 DEF read, Read, orEmpty
<1>2. CASE ~present
  <2>1. field(present, s) \o r = r
    BY <1>2, ConcatEmptySeq DEF field
  <2>2. Read(fs, r) = [ok |-> TRUE, fields |-> fs, next |-> r]
    BY DEF Read
  <2>3. optional(present, Read(fs, r)) = [Read(fs, r) EXCEPT !.fields = Append(@, <<>>)]
    BY <1>2, <2>2 DEF optional
  <2>4. [Read(fs, r) EXCEPT !.fields = Append(@, <<>>)] = Read(Append(fs, <<>>), r)
    BY SetFields
  <2> QED BY <1>2, <2>1, <2>3, <2>4 DEF orEmpty
<1> QED BY <1>1, <1>2

-----------------------------------------------------------------------------
(* The loop over the topic names: readNames takes the function it computes,
   with a value for every position, to be any that satisfies its equation. *)

nameAt(d, i) == getBinaryData(from(d, i))

endAt(d, i, extra) == i + 1 + Len(nameAt(d, i).data) + extra

nameStep(f, d, extra, i) ==
    IF i > Len(d) THEN [ok |-> TRUE, items |-> <<>>]
    ELSE IF ~nameAt(d, i).ok \/ endAt(d, i, extra) > Len(d) THEN [ok |-> FALSE, items |-> <<>>]
    ELSE nameInFront(nameAt(d, i).data,
                     SubSeq(d, endAt(d, i, extra) - extra + 1, endAt(d, i, extra)),
                     f[endAt(d, i, extra) + 1])

\* f is the function of readNames, from position m on.
NamesFrom(f, m, d, extra) == f = [i \in m..(Len(d) + 1) |-> nameStep(f, d, extra, i)]

\* readNames returns the first value of a function that satisfies its equation.
LEMMA ReadNamesIs ==
    ASSUME NEW d, NEW extra
    PROVE  readNames(d, extra) = (CHOOSE f : NamesFrom(f, 1, d, extra))[1]
BY Zenon DEF readNames, NamesFrom, nameStep, nameAt, endAt

\* The bytes from a position on.
LEMMA FromType ==
    ASSUME NEW d \in Seq(Byte), NEW i \in 1..(Len(d) + 1)
    PROVE  from(d, i) \in Seq(Byte)
<1>1. Len(d) \in Nat /\ \A j \in 1..Len(d) : d[j] \in Byte
  BY LenProperties, ElementOfSeq
<1>2. i \in Int /\ Len(d) \in Int /\ \A j \in i..Len(d) : d[j] \in Byte
  BY <1>1
<1>3. SubSeq(d, i, Len(d)) \in Seq(Byte)
  BY <1>2, SubSeqProperties
<1> QED BY <1>3 DEF from

\* getBinaryData returns bytes.
LEMMA BinaryLen ==
    ASSUME NEW d \in Seq(Byte), getBinaryData(d).ok
    PROVE  getBinaryData(d).data \in Seq(Byte) /\ Len(getBinaryData(d).data) \in Nat
<1> DEFINE e == getUint16(d) + 2
<1>1. Len(d) \in Nat /\ \A j \in 1..Len(d) : d[j] \in Byte
  BY LenProperties, ElementOfSeq
<1>2. ~(Len(d) < 2) /\ ~(e > Len(d))
  BY DEF getBinaryData, failedRead
<1>3. getBinaryData(d).data = SubSeq(d, 3, e)
  BY <1>2 DEF getBinaryData
<1>4. e \in Nat
  <2> DEFINE x == d[1]
             y == d[2]
  <2>1. x \in Byte /\ y \in Byte
    BY <1>1, <1>2
  <2>2. e = x * 256 + y + 2
    BY DEF getUint16
  <2> HIDE DEF x, y, e
  <2> QED BY <2>1, <2>2 DEF Byte
<1> HIDE DEF e
<1>5. 3 \in Int /\ e \in Int /\ \A j \in 3..e : d[j] \in Byte
  BY <1>1, <1>2, <1>4
<1>6. SubSeq(d, 3, e) \in Seq(Byte)
  BY <1>5, SubSeqProperties
<1>7. Len(SubSeq(d, 3, e)) \in Nat
  BY <1>6, LenProperties
<1> QED BY <1>3, <1>6, <1>7

\* A step looks only at what is behind it.
LEMMA NameStepAgree ==
    ASSUME NEW d \in Seq(Byte), NEW extra \in Nat, NEW i \in 1..(Len(d) + 1), NEW f, NEW g,
           \A j \in (i + 1)..(Len(d) + 1) : f[j] = g[j]
    PROVE  nameStep(f, d, extra, i) = nameStep(g, d, extra, i)
<1>1. Len(d) \in Nat
  BY LenProperties
<1>2. CASE i > Len(d) \/ ~nameAt(d, i).ok \/ endAt(d, i, extra) > Len(d)
  BY <1>2 DEF nameStep
<1>3. CASE ~(i > Len(d)) /\ nameAt(d, i).ok /\ ~(endAt(d, i, extra) > Len(d))
  <2> DEFINE n == Len(nameAt(d, i).data)
             e == endAt(d, i, extra)
  <2>1. n \in Nat
    BY <1>3, FromType, BinaryLen DEF nameAt
  <2>2. e = i + 1 + n + extra
    BY DEF endAt
  <2> HIDE DEF n, e
  <2>3. e + 1 \in (i + 1)..(Len(d) + 1)
    BY <1>1, <1>3, <2>1, <2>2 DEF e
  <2>4. f[e + 1] = g[e + 1]
    BY <2>3
  <2> QED BY <1>3, <2>4 DEF nameStep, e
<1> QED BY <1>2, <1>3

\* There is a function that satisfies the equation: it is built from the end.
LEMMA NamesExist ==
    ASSUME NEW d \in Seq(Byte), NEW extra \in Nat
    PROVE  \E f : NamesFrom(f, 1, d, extra)
<1> DEFINE n == Len(d) + 1
           Is(k) == k <= n => \E f : NamesFrom(f, n - k + 1, d, extra)
           T == {k \in Nat : Is(k)}
<1>0. n \in Nat /\ n >= 1
  BY LenProperties
<1>1. 0 \in T
  <2> DEFINE f == [i \in {} |-> <<>>]
  <2>1. (n - 0 + 1)..n = {}
    BY <1>0
  <2>2. [i \in (n - 0 + 1)..n |-> nameStep(f, d, extra, i)] = f
    BY <2>1
  <2>3. NamesFrom(f, n - 0 + 1, d, extra)
    BY <2>2 DEF NamesFrom
  <2> HIDE DEF f
  <2>4. Is(0)
    BY <2>3
  <2> HIDE DEF Is
  <2> QED BY <2>4
<1>2. ASSUME NEW k \in Nat, k \in T
      PROVE  k + 1 \in T
  <2> SUFFICES ASSUME k + 1 <= n PROVE \E g : NamesFrom(g, n - (k + 1) + 1, d, extra)
    BY <1>2
  <2> DEFINE m == n - k
  <2>0. m \in 1..n /\ m \in Nat /\ n - (k + 1) + 1 = m /\ n - k + 1 = m + 1 /\ k <= n
    BY <1>0, <1>2
  <2>1. PICK f : NamesFrom(f, m + 1, d, extra)
    BY <1>2, <2>0
  <2>2. f = [i \in (m + 1)..n |-> nameStep(f, d, extra, i)]
    BY <2>1 DEF NamesFrom
  <2> HIDE DEF m
  <2> DEFINE g == [i \in m..n |-> IF i = m THEN nameStep(f, d, extra, m) ELSE f[i]]
  <2>3. \A j \in (m + 1)..n : f[j] = g[j]
    BY <1>0, <2>0
  <2>4. ASSUME NEW i \in m..n PROVE g[i] = nameStep(g, d, extra, i)
    <3>1. i \in 1..n /\ \A j \in (i + 1)..n : j \in (m + 1)..n
      BY <1>0, <2>0
    <3>2. \A j \in (i + 1)..n : f[j] = g[j]
      BY <2>3, <3>1
    <3>3. nameStep(f, d, extra, i) = nameStep(g, d, extra, i)
      <4> HIDE DEF g
      <4> QED BY <3>1, <3>2, NameStepAgree
    <3>4. g[i] = nameStep(f, d, extra, i)
      <4>1. CASE i = m
        BY <4>1
      <4>2. CASE i # m
        <5>1. i \in (m + 1)..n
          BY <1>0, <2>0, <4>2
        <5>2. f[i] = nameStep(f, d, extra, i)
          <6> HIDE DEF g, n
          <6> QED BY <2>2, <5>1, Zenon
        <5> QED BY <4>2, <5>2
      <4> QED BY <4>1, <4>2
    <3> QED BY <3>3, <3>4
  <2>5. g = [i \in m..n |-> g[i]]
    OBVIOUS
  <2> HIDE DEF g
  <2>6. g = [i \in m..n |-> nameStep(g, d, extra, i)]
    BY <2>4, <2>5, Zenon
  <2>7. NamesFrom(g, m, d, extra)
    BY <2>6 DEF NamesFrom
  <2> QED BY <2>0, <2>7
<1>3. Nat \subseteq T
  <2> HIDE DEF Is
  <2> QED BY <1>1, <1>2, Induct
<1>4. Is(n)
  BY <1>0, <1>3
<1>5. n <= n /\ n - n + 1 = 1
  BY <1>0
<1> QED BY <1>4, <1>5

\* readNames by what it does at each position.
LEMMA NamesAre ==
    ASSUME NEW d \in Seq(Byte), NEW extra \in Nat
    PROVE  \E f : /\ readNames(d, extra) = f[1]
                  /\ \A i \in 1..(Len(d) + 1) : f[i] = nameStep(f, d, extra, i)
<1> DEFINE f == CHOOSE f : NamesFrom(f, 1, d, extra)
<1>1. NamesFrom(f, 1, d, extra)
  BY NamesExist, Zenon
<1>2. readNames(d, extra) = f[1]
  BY ReadNamesIs
<1> HIDE DEF f
<1>3. \A i \in 1..(Len(d) + 1) : f[i] = nameStep(f, d, extra, i)
  BY <1>1, Zenon DEF NamesFrom
<1> QED BY <1>2, <1>3

\* What comes behind the first part.
LEMMA FromAfter ==
    ASSUME NEW a \in Seq(Byte), NEW c \in Seq(Byte)
    PROVE  from(a \o c, Len(a) + 1) = c
<1> DEFINE z == <<>>
<1>0. z \in Seq(Byte)
  BY EmptySeq
<1>1. z \o c = c
  BY ConcatEmptySeq
<1>2. (Len(a) + Len(z)) + 1 = Len(a) + 1
  <2>1. Len(a) \in Nat /\ Len(z) = 0
    BY LenProperties
  <2> QED BY <2>1
<1> HIDE DEF z
<1>3. SubSeq(a \o (z \o c), (Len(a) + Len(z)) + 1, Len(a \o (z \o c))) = c
  BY <1>0, Parts
<1> QED BY <1>1, <1>2, <1>3 DEF from

\* One name, wherever it stands
LEMMA NameStepBack ==
    ASSUME NEW extra \in Nat, NEW a \in Seq(Byte), NEW x \in Item, Len(x.name) \in Uint16, Len(x.tail) = extra,
           NEW r \in Seq(Byte), NEW f
    PROVE  nameStep(f, a \o (itemBytes(x) \o r), extra, Len(a) + 1)
              = nameInFront(x.name, x.tail, f[Len(a \o itemBytes(x)) + 1])
<1> DEFINE e == encodeBytesWithLen(x.name)
           t == x.tail
           ib == itemBytes(x)
           d == a \o (ib \o r)
           i == Len(a) + 1
           n == Len(x.name)
<1>0. x.name \in Seq(Byte) /\ t \in Seq(Byte) /\ n \in Nat /\ Len(t) = extra
  BY LenProperties DEF Item
<1>1. e \in Seq(Byte) /\ Len(e) = 2 + n
  BY <1>0, EncodeBytes
<1>2. ib = e \o t /\ ib \in Seq(Byte)
  BY ItemBytes DEF itemBytes
<1>3. getBinaryData(e \o (t \o r)) = [ok |-> TRUE, data |-> x.name, next |-> t \o r]
  <2>1. t \o r \in Seq(Byte)
    BY <1>0, Joined
  <2> DEFINE c == t \o r
  <2> HIDE DEF c
  <2> QED BY <1>0, <2>1, ReadBack DEF c
<1> HIDE DEF e, t, ib, n
<1>4. ib \o r = e \o (t \o r) /\ ib \o r \in Seq(Byte)
  <2>1. (e \o t) \o r = e \o (t \o r)
    BY <1>0, <1>1, ConcatAssociative, SMTT(30)
  <2>2. ib \o r \in Seq(Byte)
    BY <1>2, Joined
  <2> QED BY <1>2, <2>1, <2>2
<1>5. Len(a) \in Nat /\ Len(r) \in Nat
  BY LenProperties
<1>6. Len(ib) = 2 + n + extra
  <2>1. Len(e \o t) = Len(e) + Len(t)
    BY <1>0, <1>1, Joined
  <2> QED BY <1>0, <1>1, <1>2, <2>1
<1>7. Len(a \o ib) = Len(a) + (2 + n + extra)
  <2>1. Len(a \o ib) = Len(a) + Len(ib)
    BY <1>2, Joined
  <2> QED BY <1>6, <2>1
<1>8. Len(d) = Len(a) + (2 + n + extra) + Len(r)
  <2> DEFINE c == ib \o r
  <2>1. c \in Seq(Byte) /\ Len(c) = Len(ib) + Len(r)
    BY <1>2, Joined
  <2> HIDE DEF c
  <2>2. Len(a \o c) = Len(a) + Len(c)
    BY <2>1, Joined
  <2>3. Len(d) = Len(a) + Len(c)
    BY <2>2 DEF c
  <2> HIDE DEF d
  <2> QED BY <1>0, <1>5, <1>6, <2>1, <2>3
<1>9. from(d, i) = ib \o r
  <2> DEFINE c == ib \o r
  <2>1. c \in Seq(Byte)
    BY <1>4
  <2> HIDE DEF c
  <2>2. from(a \o c, Len(a) + 1) = c
    BY <2>1, FromAfter
  <2> QED BY <2>2 DEF c
<1>10. SubSeq(d, (Len(a) + 2 + n) + 1, Len(a) + (2 + n + extra)) = t
  <2> DEFINE b == a \o e
             c == t \o r
  <2>1. b \in Seq(Byte) /\ Len(b) = Len(a) + Len(e)
    BY <1>1, Joined
  <2>2. c \in Seq(Byte)
    BY <1>0, Joined
  <2>3. d = a \o (e \o c)
    BY <1>4
  <2>4. a \o (e \o c) = b \o c
    <3>1. e \in Seq(Byte)
      BY <1>1
    <3>2. c \in Seq(Byte)
      BY <2>2
    <3> HIDE DEF c, d
    <3>3. (a \o e) \o c = a \o (e \o c)
      BY <3>1, <3>2, CatAssoc, Zenon DEF cat
    <3> QED BY <3>3
  <2> HIDE DEF b, d
  <2>5. SubSeq(b \o (t \o r), Len(b) + 1, Len(b) + Len(t)) = t
    BY <1>0, <2>1, Parts, SMTT(30)
  <2>6. Len(b) + 1 = (Len(a) + 2 + n) + 1 /\ Len(b) + Len(t) = Len(a) + (2 + n + extra)
    BY <1>0, <1>1, <1>5, <2>1
  <2> QED BY <2>3, <2>4, <2>5, <2>6
<1>11. nameAt(d, i).ok = TRUE /\ nameAt(d, i).data = x.name
  <2>1. nameAt(d, i) = [ok |-> TRUE, data |-> x.name, next |-> t \o r]
    BY <1>3, <1>4, <1>9, Zenon DEF nameAt
  <2> DEFINE c == t \o r
             g == nameAt(d, i)
  <2>2. g = [ok |-> TRUE, data |-> x.name, next |-> c]
    BY <2>1
  <2> HIDE DEF c, g
  <2>3. g.ok = TRUE /\ g.data = x.name
    BY <2>2
  <2> QED BY <2>3 DEF g
<1> DEFINE z == endAt(d, i, extra)
<1>12. z = Len(a) + (2 + n + extra) /\ z - extra + 1 = (Len(a) + 2 + n) + 1
  <2>1. z = i + 1 + n + extra
    BY <1>11 DEF endAt, n
  <2> HIDE DEF z, d
  <2> QED BY <1>0, <1>5, <2>1
<1> HIDE DEF d
<1>13. ~(i > Len(d)) /\ ~(z > Len(d))
  <2> HIDE DEF z
  <2> QED BY <1>0, <1>5, <1>8, <1>12
<1>14. nameStep(f, d, extra, i) = nameInFront(nameAt(d, i).data, SubSeq(d, z - extra + 1, z), f[z + 1])
  BY <1>11, <1>13 DEF nameStep
<1>15. z + 1 = Len(a \o ib) + 1
  BY <1>7, <1>12
<1>16. SubSeq(d, z - extra + 1, z) = t
  BY <1>10, <1>12
<1> QED BY <1>11, <1>14, <1>15, <1>16 DEF d, t, ib

Fits(xs, extra) ==
    xs \in Seq(Item) /\ \A i \in 1..Len(xs) : Len(xs[i].name) \in Uint16 /\ Len(xs[i].tail) = extra

\* The first name and the others.
LEMMA FitsTail ==
    ASSUME NEW xs, NEW extra, Fits(xs, extra), xs # <<>>
    PROVE  /\ Head(xs) \in Item /\ Len(Head(xs).name) \in Uint16 /\ Len(Head(xs).tail) = extra
           /\ Fits(Tail(xs), extra) /\ Len(Tail(xs)) = Len(xs) - 1
           /\ <<Head(xs)>> \o Tail(xs) = xs
<1>1. xs \in Seq(Item) /\ \A i \in 1..Len(xs) : Len(xs[i].name) \in Uint16 /\ Len(xs[i].tail) = extra
  BY DEF Fits
<1>2. /\ Head(xs) \in Item /\ Tail(xs) \in Seq(Item) /\ Len(Tail(xs)) = Len(xs) - 1
      /\ \A i \in 1..Len(Tail(xs)) : Tail(xs)[i] = xs[i + 1]
  BY <1>1, HeadTailProperties
<1>3. Len(xs) \in Nat /\ Len(xs) # 0 /\ Head(xs) = xs[1]
  BY <1>1, LenProperties, EmptySeq
<1>4. 1 \in 1..Len(xs)
  BY <1>3
<1>5. ASSUME NEW i \in 1..Len(Tail(xs)) PROVE Len(Tail(xs)[i].name) \in Uint16 /\ Len(Tail(xs)[i].tail) = extra
  <2>1. i + 1 \in 1..Len(xs) /\ Tail(xs)[i] = xs[i + 1]
    BY <1>2, <1>3
  <2> QED BY <1>1, <2>1
<1>6. <<Head(xs)>> \o Tail(xs) = xs
  BY <1>1
<1>7. Len(Head(xs).name) \in Uint16 /\ Len(Head(xs).tail) = extra
  BY <1>1, <1>3, <1>4
<1> QED BY <1>2, <1>5, <1>6, <1>7 DEF Fits

Names(xs) == [ok |-> TRUE, items |-> xs]

\* A name in front of the others.
LEMMA NameInFront ==
    ASSUME NEW x \in Item, NEW xs
    PROVE  nameInFront(x.name, x.tail, Names(xs)) = Names(<<x>> \o xs)
<1>1. [name |-> x.name, tail |-> x.tail] = x
  BY DEF Item
<1> QED BY <1>1 DEF nameInFront, Names

\* The names that follow position Len(a) of d
Rest(f, d, a, xs) == d = a \o listBytes(xs) => f[Len(a) + 1] = Names(xs)

\* The loop over the names reads the list that was written.
LEMMA NamesBack ==
    ASSUME NEW extra \in Nat, NEW xs, Fits(xs, extra)
    PROVE  readNames(listBytes(xs), extra) = Names(xs)
<1> DEFINE d == listBytes(xs)
<1>0. xs \in Seq(Item)
  BY DEF Fits
<1>1. d \in Seq(Byte)
  BY <1>0, ListBytes
<1> HIDE DEF d
<1>2. PICK f : /\ readNames(d, extra) = f[1]
               /\ \A i \in 1..(Len(d) + 1) : f[i] = nameStep(f, d, extra, i)
  BY <1>1, NamesAre
<1> DEFINE Is(n) == \A ys : \A a \in Seq(Byte) : Fits(ys, extra) /\ Len(ys) = n => Rest(f, d, a, ys)
           T == {n \in Nat : Is(n)}
<1>3. 0 \in T
  <2> SUFFICES ASSUME NEW ys, NEW a \in Seq(Byte), Fits(ys, extra), Len(ys) = 0, d = a \o listBytes(ys)
               PROVE  f[Len(a) + 1] = Names(ys)
    BY DEF Rest
  <2>1. ys = <<>>
    BY EmptySeq DEF Fits
  <2>2. d = a
    BY <2>1, ListEmpty, ConcatEmptySeq
  <2>3. Len(a) \in Nat /\ Len(a) + 1 \in 1..(Len(d) + 1) /\ Len(a) + 1 > Len(d)
    <3>1. Len(a) \in Nat
      BY LenProperties
    <3> QED BY <2>2, <3>1
  <2>4. f[Len(a) + 1] = nameStep(f, d, extra, Len(a) + 1)
    BY <1>2, <2>3
  <2>5. nameStep(f, d, extra, Len(a) + 1) = Names(<<>>)
    BY <2>3 DEF nameStep, Names
  <2> QED BY <2>1, <2>4, <2>5
<1>4. ASSUME NEW n \in Nat, n \in T PROVE n + 1 \in T
  <2>0. n + 1 \in Nat
    BY <1>4
  <2> SUFFICES Is(n + 1)
    <3> HIDE DEF Is
    <3> QED BY <2>0
  <2> SUFFICES ASSUME NEW ys, NEW a \in Seq(Byte), Fits(ys, extra), Len(ys) = n + 1, d = a \o listBytes(ys)
               PROVE  f[Len(a) + 1] = Names(ys)
    BY DEF Rest
  <2> DEFINE x == Head(ys)
             zs == Tail(ys)
             ib == itemBytes(x)
             r == listBytes(zs)
             b == a \o ib
  <2>1. ys \in Seq(Item) /\ ys # <<>>
    BY <1>4, EmptySeq DEF Fits
  <2>2. /\ x \in Item /\ Len(x.name) \in Uint16 /\ Len(x.tail) = extra
        /\ Fits(zs, extra) /\ Len(zs) = Len(ys) - 1 /\ <<x>> \o zs = ys
    BY <2>1, FitsTail
  <2>3. zs \in Seq(Item) /\ Len(zs) = n
    BY <1>4, <2>2 DEF Fits
  <2>4. r \in Seq(Byte) /\ ib \in Seq(Byte) /\ Len(ib) = 2 + Len(x.name) + Len(x.tail)
    BY <2>2, <2>3, ListBytes, ItemBytes
  <2>5. listBytes(ys) = ib \o r
    BY <2>1, ListHead
  <2>6. d = a \o (ib \o r)
    BY <2>5
  <2> HIDE DEF x, zs, r, ib
  <2>7. b \in Seq(Byte) /\ d = b \o r
    <3>1. (a \o ib) \o r = a \o (ib \o r)
      <4>1. ib \in Seq(Byte) /\ r \in Seq(Byte)
        BY <2>4
      <4> QED BY <4>1, ConcatAssociative
    <3>2. a \o ib \in Seq(Byte)
      BY <2>4, Joined
    <3> QED BY <2>6, <3>1, <3>2
  <2>8. f[Len(b) + 1] = Names(zs)
    <3>1. Is(n)
      BY <1>4
    <3> HIDE DEF b
    <3>2. Rest(f, d, b, zs)
      BY <2>2, <2>3, <2>7, <3>1, Zenon
    <3> QED BY <2>7, <3>2, Zenon DEF Rest, r
  <2>9. nameStep(f, d, extra, Len(a) + 1) = nameInFront(x.name, x.tail, f[Len(b) + 1])
    <3>1. nameStep(f, a \o (itemBytes(x) \o r), extra, Len(a) + 1)
             = nameInFront(x.name, x.tail, f[Len(a \o itemBytes(x)) + 1])
      BY <2>2, <2>4, NameStepBack
    <3> QED BY <2>6, <3>1 DEF ib
  <2>10. nameInFront(x.name, x.tail, Names(zs)) = Names(ys)
    BY <2>2, NameInFront
  <2>11. Len(a) + 1 \in 1..(Len(d) + 1)
    <3> DEFINE c == ib \o r
    <3>1. c \in Seq(Byte)
      BY <2>4, Joined
    <3> HIDE DEF c
    <3>2. Len(a \o c) = Len(a) + Len(c) /\ Len(a) \in Nat /\ Len(c) \in Nat
      BY <3>1, Joined, LenProperties
    <3>3. Len(d) = Len(a) + Len(c)
      BY <2>6, <3>2 DEF c
    <3> QED BY <3>2, <3>3
  <2>12. f[Len(a) + 1] = nameStep(f, d, extra, Len(a) + 1)
    BY <1>2, <2>11
  <2> QED BY <2>8, <2>9, <2>10, <2>12
<1>5. Nat \subseteq T
  <2> HIDE DEF Is
  <2> QED BY <1>3, <1>4, Induct
<1>6. Rest(f, d, <<>>, xs)
  <2>1. Len(xs) \in Nat /\ <<>> \in Seq(Byte)
    BY <1>0, LenProperties, EmptySeq
  <2>2. Is(Len(xs))
    BY <1>5, <2>1
  <2> QED BY <2>1, <2>2, Zenon
<1>7. <<>> \o d = d /\ Len(<<>>) + 1 = 1
  BY <1>1, ConcatEmptySeq
<1> QED BY <1>2, <1>6, <1>7 DEF Rest, d

-----------------------------------------------------------------------------
(* Decode of MQTT 3.1.1, by the type of the packet *)

\* The names of a packet have lengths of 16 bits.
LEMMA StringLengths ==
    ASSUME NEW p \in Packets
    PROVE  /\ p.type = "CONNECT" =>
                /\ Len(p.clientID) \in Uint16 /\ Len(p.willTopic) \in Uint16 /\ Len(p.willMessage) \in Uint16
                /\ Len(p.username) \in Uint16 /\ Len(p.password) \in Uint16
           /\ p.type = "PUBLISH" => Len(p.topicName) \in Uint16
           /\ p.type = "SUBSCRIBE" => \A i \in DOMAIN p.topics : Len(p.topics[i].name) \in Uint16
           /\ p.type = "UNSUBSCRIBE" => \A i \in DOMAIN p.topicNames : Len(p.topicNames[i]) \in Uint16
<1>1. \A s \in strings(p) : Len(s) \in Uint16
  BY StringsAssumption
<1>2. CASE p.type = "CONNECT"
  <2>1. strings(p) = {p.clientID, p.willTopic, p.willMessage, p.username, p.password}
    BY <1>2 DEF strings
  <2> QED BY <1>1, <1>2, <2>1, Zenon
<1>3. CASE p.type = "PUBLISH"
  <2>1. strings(p) = {p.topicName}
    BY <1>3 DEF strings
  <2> QED BY <1>1, <1>3, <2>1, Zenon
<1>4. CASE p.type = "SUBSCRIBE"
  <2>1. strings(p) = {p.topics[i].name : i \in DOMAIN p.topics}
    BY <1>4 DEF strings
  <2> QED BY <1>1, <1>4, <2>1, Zenon
<1>5. CASE p.type = "UNSUBSCRIBE"
  <2>1. strings(p) = {p.topicNames[i] : i \in DOMAIN p.topicNames}
    BY <1>5 DEF strings
  <2> QED BY <1>1, <1>5, <2>1, Zenon
<1> QED BY <1>2, <1>3, <1>4, <1>5

\* decodeV311Packet, type by type.
LEMMA Decode311Is ==
    ASSUME NEW h, NEW d
    PROVE  /\ decodeV311Packet("CONNECT", h, d) = decodeV311Conn(getBinaryData(d))
           /\ decodeV311Packet("CONNACK", h, d) =
                ok([type |-> "CONNACK", present |-> bit(d[1], 1), code |-> d[2], props |-> noProps])
           /\ decodeV311Packet("PUBLISH", h, d) =
                decodeV311Publish(h, publishHeader((h \div 2) % 4, getBinaryData(d)))
           /\ \A type \in AckTypes :
                decodeV311Packet(type, h, d) =
                  ok([type |-> type, packetID |-> getUint16(d), code |-> 0, props |-> noProps])
           /\ decodeV311Packet("SUBSCRIBE", h, d) = subscribe(getUint16(d), readNames(from(d, 3), 1), noProps)
           /\ decodeV311Packet("SUBACK", h, d) =
                ok([type |-> "SUBACK", packetID |-> getUint16(d), codes |-> from(d, 3), props |-> noProps])
           /\ decodeV311Packet("UNSUBSCRIBE", h, d) = unsubscribe(getUint16(d), readNames(from(d, 3), 0), noProps)
           /\ decodeV311Packet("UNSUBACK", h, d) =
                ok([type |-> "UNSUBACK", packetID |-> getUint16(d), props |-> noProps])
BY DEF decodeV311Packet, AckTypes

\* received311, type by type.
LEMMA Received311Is ==
    ASSUME NEW p
    PROVE  /\ p.type = "PUBLISH" =>
                received311(p) = [p EXCEPT !.packetID = IF p.qos = 0 THEN 0 ELSE @, !.props = noProps]
           /\ p.type \in AckTypes \cup {"DISCONNECT"} =>
                received311(p) = [p EXCEPT !.code = 0, !.props = noProps]
           /\ p.type \in {"PINGREQ", "PINGRESP"} => received311(p) = p
           /\ p.type \in {"CONNACK", "SUBSCRIBE", "SUBACK", "UNSUBSCRIBE", "UNSUBACK", "AUTH"} =>
                received311(p) = [p EXCEPT !.props = noProps]
BY DEF received311, AckTypes

\* What a packet is to its reader
Back311(p) ==
    (IF Len(body(V311, p)) = 0 THEN decodeEmpty(V311, header(p))
     ELSE decodeV311Packet(p.type, header(p), body(V311, p))) = ok(received311(p))

\* A ping is read back.
LEMMA PingBack ==
    ASSUME NEW p \in Packets, p.type \in {"PINGREQ", "PINGRESP"}
    PROVE  Back311(p)
<1>1. body(V311, p) = <<>> /\ typeOf(header(p)) = p.type
  BY BodyIs, HeaderOf
<1>2. p = [type |-> p.type]
  BY PingFields
<1>3. received311(p) = [type |-> p.type]
  BY <1>2, Received311Is
<1>4. decodeEmpty(V311, header(p)) = ok([type |-> p.type])
  BY <1>1 DEF decodeEmpty
<1> QED BY <1>1, <1>3, <1>4 DEF Back311

\* A DISCONNECT is read back, without its code.
LEMMA DisconnBack ==
    ASSUME NEW p \in Packets, p.type = "DISCONNECT"
    PROVE  Back311(p)
<1>1. body(V311, p) = <<>> /\ typeOf(header(p)) = p.type
  BY SmallBodies, HeaderOf
<1>2. p \in [type : {"DISCONNECT", "AUTH"}, code : Byte, props : PropertySets]
  BY CodeFields
<1>3. received311(p) = [type |-> p.type, code |-> 0, props |-> noProps]
  <2>1. received311(p) = [p EXCEPT !.code = 0, !.props = noProps]
    BY Received311Is
  <2>2. p = [type |-> p.type, code |-> p.code, props |-> p.props]
    BY <1>2
  <2> DEFINE t == p.type
             c == p.code
             x == p.props
             z == 0
             y == noProps
  <2> HIDE DEF t, c, x, y, z
  <2>3. [p EXCEPT !.code = z, !.props = y] = [[p EXCEPT !.code = z] EXCEPT !.props = y]
    BY SMT
  <2>4. [[type |-> t, code |-> c, props |-> x] EXCEPT !.code = z] = [type |-> t, code |-> z, props |-> x]
    OBVIOUS
  <2>5. [[type |-> t, code |-> z, props |-> x] EXCEPT !.props = y] = [type |-> t, code |-> z, props |-> y]
    OBVIOUS
  <2>6. [p EXCEPT !.code = z] = [type |-> t, code |-> z, props |-> x]
    BY <2>2, <2>4, Zenon DEF t, c, x
  <2> QED BY <2>1, <2>3, <2>5, <2>6, Zenon DEF t, y, z
<1>4. decodeEmpty(V311, header(p)) = ok([type |-> p.type, code |-> 0, props |-> noProps])
  BY <1>1 DEF decodeEmpty
<1> QED BY <1>1, <1>3, <1>4 DEF Back311

\* The other packets have at least the two bytes that Decode asks for.
LEMMA NotEmpty311 ==
    ASSUME NEW p \in Packets, p.type \notin {"PINGREQ", "PINGRESP", "DISCONNECT"}
    PROVE  Len(body(V311, p)) # 0 /\ Len(body(V311, p)) >= 2 /\ Len(body(V311, p)) \in Nat
<1>1. V311 \in {V311, V5}
  OBVIOUS
<1>2. body(V311, p) \in Seq(Byte) /\ Len(body(V311, p)) >= 2
  BY <1>1, BodyType
<1>3. Len(body(V311, p)) \in Nat
  BY <1>2, LenProperties
<1> QED BY <1>2, <1>3

\* A bit is a flag.
LEMMA BoolBit ==
    ASSUME NEW b \in BOOLEAN
    PROVE  bit(boolToByte(b), 1) = b
BY DEF bit, boolToByte

\* A CONNACK is read back.
LEMMA ConnAckBack ==
    ASSUME NEW p \in Packets, p.type = "CONNACK"
    PROVE  Back311(p)
<1>1. p \in [type : {"CONNACK"}, present : BOOLEAN, code : Byte, props : PropertySets]
  BY ConnAckFields
<1>2. body(V311, p) = <<boolToByte(p.present), p.code>>
  BY SmallBodies
<1>3. body(V311, p)[1] = boolToByte(p.present) /\ body(V311, p)[2] = p.code
  BY <1>2
<1>4. bit(boolToByte(p.present), 1) = p.present
  BY <1>1, BoolBit
<1>5. received311(p) = [type |-> p.type, present |-> p.present, code |-> p.code, props |-> noProps]
  <2>1. received311(p) = [p EXCEPT !.props = noProps]
    BY Received311Is
  <2> QED BY <1>1, <2>1
<1>6. decodeV311Packet(p.type, header(p), body(V311, p)) =
        ok([type |-> p.type, present |-> p.present, code |-> p.code, props |-> noProps])
  <2> DEFINE d == body(V311, p)
  <2>1. decodeV311Packet(p.type, header(p), d) =
          ok([type |-> p.type, present |-> bit(d[1], 1), code |-> d[2], props |-> noProps])
    BY Decode311Is, Zenon
  <2> QED BY <1>3, <1>4, <2>1, Zenon
<1>7. Len(body(V311, p)) # 0
  BY NotEmpty311
<1> QED BY <1>5, <1>6, <1>7 DEF Back311

\* The acknowledgements of a PUBLISH are read back, without their code.
LEMMA AckBack ==
    ASSUME NEW p \in Packets, p.type \in AckTypes
    PROVE  Back311(p)
<1>1. p \in [type : AckTypes, packetID : Uint16, code : Byte, props : PropertySets]
  BY AckFields
<1>2. body(V311, p) = putUint16(p.packetID) /\ getUint16(putUint16(p.packetID)) = p.packetID
  BY <1>1, SmallBodies, IdAlone
<1>3. received311(p) = [type |-> p.type, packetID |-> p.packetID, code |-> 0, props |-> noProps]
  <2>1. received311(p) = [p EXCEPT !.code = 0, !.props = noProps]
    BY Received311Is
  <2>2. p = [type |-> p.type, packetID |-> p.packetID, code |-> p.code, props |-> p.props]
    BY <1>1
  <2> DEFINE t == p.type
             n == p.packetID
             c == p.code
             x == p.props
             z == 0
             y == noProps
  <2> HIDE DEF t, n, c, x, y, z
  <2>3. [p EXCEPT !.code = z, !.props = y] = [[p EXCEPT !.code = z] EXCEPT !.props = y]
    BY SMT
  <2>4. [[type |-> t, packetID |-> n, code |-> c, props |-> x] EXCEPT !.code = z]
           = [type |-> t, packetID |-> n, code |-> z, props |-> x]
    OBVIOUS
  <2>5. [[type |-> t, packetID |-> n, code |-> z, props |-> x] EXCEPT !.props = y]
           = [type |-> t, packetID |-> n, code |-> z, props |-> y]
    OBVIOUS
  <2>6. [p EXCEPT !.code = z] = [type |-> t, packetID |-> n, code |-> z, props |-> x]
    BY <2>2, <2>4, Zenon DEF t, n, c, x
  <2> QED BY <2>1, <2>3, <2>5, <2>6, Zenon DEF t, n, y, z
<1>4. decodeV311Packet(p.type, header(p), body(V311, p)) =
        ok([type |-> p.type, packetID |-> p.packetID, code |-> 0, props |-> noProps])
  BY <1>2, Decode311Is, Zenon
<1>5. Len(body(V311, p)) # 0
  BY NotEmpty311 DEF AckTypes
<1> QED BY <1>3, <1>4, <1>5 DEF Back311

\* A SUBACK is read back.
LEMMA SubAckBack ==
    ASSUME NEW p \in Packets, p.type = "SUBACK"
    PROVE  Back311(p)
<1>1. p \in [type : {"SUBACK"}, packetID : Uint16, codes : Seq(Byte), props : PropertySets]
  BY SubAckFields
<1>2. body(V311, p) = putUint16(p.packetID) \o p.codes
  BY SmallBodies
<1>3. getUint16(body(V311, p)) = p.packetID /\ from(body(V311, p), 3) = p.codes
  <2> DEFINE n == p.packetID
             c == p.codes
  <2>1. n \in Uint16 /\ c \in Seq(Byte)
    BY <1>1
  <2> HIDE DEF n, c
  <2>2. getUint16(putUint16(n) \o c) = n /\ from(putUint16(n) \o c, 3) = c
    BY <2>1, IdBack
  <2> QED BY <1>2, <2>2 DEF n, c
<1>4. received311(p) = [type |-> p.type, packetID |-> p.packetID, codes |-> p.codes, props |-> noProps]
  <2>1. received311(p) = [p EXCEPT !.props = noProps]
    BY Received311Is
  <2> QED BY <1>1, <2>1
<1>5. decodeV311Packet(p.type, header(p), body(V311, p)) =
        ok([type |-> p.type, packetID |-> p.packetID, codes |-> p.codes, props |-> noProps])
  <2> DEFINE d == body(V311, p)
  <2>1. decodeV311Packet(p.type, header(p), d) =
          ok([type |-> p.type, packetID |-> getUint16(d), codes |-> from(d, 3), props |-> noProps])
    BY Decode311Is, Zenon
  <2> QED BY <1>3, <2>1, Zenon
<1>6. Len(body(V311, p)) # 0
  BY NotEmpty311
<1> QED BY <1>4, <1>5, <1>6, Zenon DEF Back311

\* An UNSUBACK is read back.
LEMMA UnsubAckBack ==
    ASSUME NEW p \in Packets, p.type = "UNSUBACK"
    PROVE  Back311(p)
<1>1. p \in [type : {"UNSUBACK"}, packetID : Uint16, props : PropertySets]
  BY UnsubAckFields
<1>2. body(V311, p) = putUint16(p.packetID) /\ getUint16(putUint16(p.packetID)) = p.packetID
  BY <1>1, SmallBodies, IdAlone
<1>3. received311(p) = [type |-> p.type, packetID |-> p.packetID, props |-> noProps]
  <2>1. received311(p) = [p EXCEPT !.props = noProps]
    BY Received311Is
  <2> QED BY <1>1, <2>1
<1>4. decodeV311Packet(p.type, header(p), body(V311, p)) =
        ok([type |-> p.type, packetID |-> p.packetID, props |-> noProps])
  <2> DEFINE d == body(V311, p)
  <2>1. decodeV311Packet(p.type, header(p), d) =
          ok([type |-> p.type, packetID |-> getUint16(d), props |-> noProps])
    BY Decode311Is, Zenon
  <2> QED BY <1>2, <2>1, Zenon
<1>5. Len(body(V311, p)) # 0
  BY NotEmpty311
<1> QED BY <1>3, <1>4, <1>5 DEF Back311

\* A CONNECT by its fields
connRecord(cs, iw, wq, wr, un, pw, id, ka, wt, wm, wp, pr) ==
    [type |-> "CONNECT", cleanSession |-> cs, isWill |-> iw, willQos |-> wq, willRetain |-> wr,
     username |-> un, password |-> pw, clientID |-> id, keepalive |-> ka,
     willTopic |-> wt, willMessage |-> wm, willProps |-> wp, props |-> pr]

\* What the reader should get of a CONNECT, field by field.
LEMMA ConnReceived ==
    ASSUME NEW p \in Packets, p.type = "CONNECT"
    PROVE  received311(p) =
             connRecord(p.cleanSession \/ p.clientID = <<>>, p.isWill,
                        IF p.isWill THEN p.willQos ELSE 0, p.isWill /\ p.willRetain,
                        p.username, p.password, p.clientID, p.keepalive,
                        orEmpty(p.isWill, p.willTopic), orEmpty(p.isWill, p.willMessage), noProps, noProps)
<1> DEFINE cs == p.cleanSession \/ p.clientID = <<>>
           iw == p.isWill
           wq == p.willQos
           wr == p.willRetain
           un == p.username
           pw == p.password
           id == p.clientID
           ka == p.keepalive
           wt == p.willTopic
           wm == p.willMessage
           e  == <<>>
           z  == 0
           no == FALSE
           y  == noProps
           q  == connRecord(cs, iw, wq, wr, un, pw, id, ka, wt, wm, y, y)
<1>1. p = connRecord(p.cleanSession, iw, wq, wr, un, pw, id, ka, wt, wm, p.willProps, p.props)
  BY ConnectFields DEF connRecord
<1>2. [p EXCEPT !.cleanSession = @ \/ p.clientID = <<>>, !.props = noProps, !.willProps = noProps]
        = [[[p EXCEPT !.cleanSession = cs] EXCEPT !.props = y] EXCEPT !.willProps = y]
  BY SMT
<1>3. [p EXCEPT !.cleanSession = cs] = connRecord(cs, iw, wq, wr, un, pw, id, ka, wt, wm, p.willProps, p.props)
  <2> DEFINE a == p.cleanSession
             b == p.willProps
             c == p.props
             r == connRecord(a, iw, wq, wr, un, pw, id, ka, wt, wm, b, c)
  <2>1. p = r
    BY <1>1, Zenon
  <2>2. [r EXCEPT !.cleanSession = cs] = connRecord(cs, iw, wq, wr, un, pw, id, ka, wt, wm, b, c)
    <3> HIDE DEF cs, iw, wq, wr, un, pw, id, ka, wt, wm, a, b, c
    <3> QED BY DEF connRecord
  <2> HIDE DEF r
  <2>3. [p EXCEPT !.cleanSession = cs] = [r EXCEPT !.cleanSession = cs]
    <3> HIDE DEF cs
    <3> QED BY <2>1, Zenon
  <2> QED BY <2>2, <2>3, Zenon
<1>4. [p EXCEPT !.cleanSession = @ \/ p.clientID = <<>>, !.props = noProps, !.willProps = noProps] = q
  <2> DEFINE b == p.willProps
             c == p.props
  <2>1. [connRecord(cs, iw, wq, wr, un, pw, id, ka, wt, wm, b, c) EXCEPT !.props = y]
          = connRecord(cs, iw, wq, wr, un, pw, id, ka, wt, wm, b, y)
    <3> HIDE DEF cs, iw, wq, wr, un, pw, id, ka, wt, wm, b, c, y
    <3> QED BY DEF connRecord
  <2>2. [connRecord(cs, iw, wq, wr, un, pw, id, ka, wt, wm, b, y) EXCEPT !.willProps = y]
          = connRecord(cs, iw, wq, wr, un, pw, id, ka, wt, wm, y, y)
    <3> HIDE DEF cs, iw, wq, wr, un, pw, id, ka, wt, wm, b, c, y
    <3> QED BY DEF connRecord
  <2> QED BY <1>2, <1>3, <2>1, <2>2, Zenon
<1>5. received311(p) = IF iw THEN q ELSE [q EXCEPT !.willQos = 0, !.willRetain = FALSE, !.willTopic = <<>>, !.willMessage = <<>>]
  BY <1>4, Zenon DEF received311
<1>6. CASE iw
  <2>1. (IF p.isWill THEN p.willQos ELSE 0) = wq /\ orEmpty(p.isWill, p.willTopic) = wt
        /\ orEmpty(p.isWill, p.willMessage) = wm /\ (p.isWill /\ p.willRetain) = wr
    BY <1>6, ConnectFields DEF orEmpty
  <2> QED BY <1>5, <1>6, <2>1, Zenon
<1>7. CASE ~iw
  <2>1. (IF p.isWill THEN p.willQos ELSE 0) = z /\ orEmpty(p.isWill, p.willTopic) = e
        /\ orEmpty(p.isWill, p.willMessage) = e /\ (p.isWill /\ p.willRetain) = no
    BY <1>7, ConnectFields DEF orEmpty
  <2>2. received311(p) = [q EXCEPT !.willQos = z, !.willRetain = no, !.willTopic = e, !.willMessage = e]
    BY <1>5, <1>7
  <2>a. q = connRecord(cs, iw, wq, wr, un, pw, id, ka, wt, wm, y, y)
    BY Zenon
  <2> HIDE DEF cs, iw, wq, wr, un, pw, id, ka, wt, wm, e, z, no, y, q
  <2>3. [q EXCEPT !.willQos = z, !.willRetain = no, !.willTopic = e, !.willMessage = e]
          = [[[[q EXCEPT !.willQos = z] EXCEPT !.willRetain = no] EXCEPT !.willTopic = e] EXCEPT !.willMessage = e]
    BY SMT
  <2>4. [q EXCEPT !.willQos = z] = connRecord(cs, iw, z, wr, un, pw, id, ka, wt, wm, y, y)
    BY <2>a DEF connRecord
  <2>5. [connRecord(cs, iw, z, wr, un, pw, id, ka, wt, wm, y, y) EXCEPT !.willRetain = no]
          = connRecord(cs, iw, z, no, un, pw, id, ka, wt, wm, y, y)
    BY DEF connRecord
  <2>6. [connRecord(cs, iw, z, no, un, pw, id, ka, wt, wm, y, y) EXCEPT !.willTopic = e]
          = connRecord(cs, iw, z, no, un, pw, id, ka, e, wm, y, y)
    BY DEF connRecord
  <2>7. [connRecord(cs, iw, z, no, un, pw, id, ka, e, wm, y, y) EXCEPT !.willMessage = e]
          = connRecord(cs, iw, z, no, un, pw, id, ka, e, e, y, y)
    BY DEF connRecord
  <2>8. received311(p) = connRecord(cs, iw, z, no, un, pw, id, ka, e, e, y, y)
    BY <2>2, <2>3, <2>4, <2>5, <2>6, <2>7, Zenon
  <2> QED BY <2>1, <2>8, Zenon DEF cs, iw, un, pw, id, ka, y
<1> QED BY <1>6, <1>7

\* The fields of a CONNECT as connFields reads them
fiveFields(a, b, c, d, e) == Append(Append(Append(Append(Append(<<>>, a), b), c), d), e)

connRead(p) ==
    fiveFields(p.clientID, orEmpty(p.isWill, p.willTopic), orEmpty(p.isWill, p.willMessage), p.username, p.password)

\* One more item at the end of a sequence.
LEMMA OneMoreItem ==
    ASSUME NEW S, NEW s \in Seq(S), NEW e \in S, NEW n \in Nat, Len(s) = n
    PROVE  /\ Append(s, e) \in Seq(S) /\ Len(Append(s, e)) = n + 1
           /\ \A i \in 1..n : Append(s, e)[i] = s[i]
           /\ Append(s, e)[n + 1] = e
BY AppendProperties

\* The five fields in their places.
LEMMA FiveFields ==
    ASSUME NEW S, NEW a \in S, NEW b \in S, NEW c \in S, NEW d \in S, NEW e \in S
    PROVE  /\ fiveFields(a, b, c, d, e)[1] = a /\ fiveFields(a, b, c, d, e)[2] = b
           /\ fiveFields(a, b, c, d, e)[3] = c /\ fiveFields(a, b, c, d, e)[4] = d
           /\ fiveFields(a, b, c, d, e)[5] = e
<1> DEFINE x0 == <<>>
           x1 == Append(x0, a)
           x2 == Append(x1, b)
           x3 == Append(x2, c)
           x4 == Append(x3, d)
           x5 == Append(x4, e)
<1>0. x0 \in Seq(S) /\ Len(x0) = 0
  BY EmptySeq
<1> HIDE DEF x0
<1>1. x1 \in Seq(S) /\ Len(x1) = 0 + 1 /\ x1[0 + 1] = a
  BY <1>0, OneMoreItem
<1>1a. Len(x1) = 1 /\ x1[1] = a
  BY <1>1
<1> HIDE DEF x1
<1>2. x2 \in Seq(S) /\ Len(x2) = 1 + 1 /\ (\A i \in 1..1 : x2[i] = x1[i]) /\ x2[1 + 1] = b
  <2> DEFINE n == 1
  <2>1. x1 \in Seq(S) /\ Len(x1) = n /\ n \in Nat
    BY <1>1, <1>1a
  <2> HIDE DEF n
  <2>2. x2 \in Seq(S) /\ Len(x2) = n + 1 /\ (\A i \in 1..n : x2[i] = x1[i]) /\ x2[n + 1] = b
    BY <2>1, OneMoreItem
  <2> QED BY <2>2, Zenon DEF n
<1>2a. Len(x2) = 2 /\ x2[1] = a /\ x2[2] = b
  BY <1>1a, <1>2
<1> HIDE DEF x2
<1>3. x3 \in Seq(S) /\ Len(x3) = 2 + 1 /\ (\A i \in 1..2 : x3[i] = x2[i]) /\ x3[2 + 1] = c
  <2> DEFINE n == 2
  <2>1. x2 \in Seq(S) /\ Len(x2) = n /\ n \in Nat
    BY <1>2, <1>2a
  <2> HIDE DEF n
  <2>2. x3 \in Seq(S) /\ Len(x3) = n + 1 /\ (\A i \in 1..n : x3[i] = x2[i]) /\ x3[n + 1] = c
    BY <2>1, OneMoreItem
  <2> QED BY <2>2, Zenon DEF n
<1>3a. Len(x3) = 3 /\ x3[1] = a /\ x3[2] = b /\ x3[3] = c
  <2>1. x3[1] = x2[1] /\ x3[2] = x2[2]
    BY <1>3
  <2> QED BY <1>2a, <1>3, <2>1
<1> HIDE DEF x3
<1>4. x4 \in Seq(S) /\ Len(x4) = 3 + 1 /\ (\A i \in 1..3 : x4[i] = x3[i]) /\ x4[3 + 1] = d
  <2> DEFINE n == 3
  <2>1. x3 \in Seq(S) /\ Len(x3) = n /\ n \in Nat
    BY <1>3, <1>3a
  <2> HIDE DEF n
  <2>2. x4 \in Seq(S) /\ Len(x4) = n + 1 /\ (\A i \in 1..n : x4[i] = x3[i]) /\ x4[n + 1] = d
    BY <2>1, OneMoreItem
  <2> QED BY <2>2, Zenon DEF n
<1>4a. Len(x4) = 4 /\ x4[1] = a /\ x4[2] = b /\ x4[3] = c /\ x4[4] = d
  <2>1. x4[1] = x3[1] /\ x4[2] = x3[2] /\ x4[3] = x3[3]
    BY <1>4
  <2> QED BY <1>3a, <1>4, <2>1
<1> HIDE DEF x4
<1>5. x5 \in Seq(S) /\ (\A i \in 1..4 : x5[i] = x4[i]) /\ x5[4 + 1] = e
  <2> DEFINE n == 4
  <2>1. x4 \in Seq(S) /\ Len(x4) = n /\ n \in Nat
    BY <1>4, <1>4a
  <2> HIDE DEF n
  <2>2. x5 \in Seq(S) /\ Len(x5) = n + 1 /\ (\A i \in 1..n : x5[i] = x4[i]) /\ x5[n + 1] = e
    BY <2>1, OneMoreItem
  <2> QED BY <2>2, Zenon DEF n
<1> HIDE DEF x5
<1>5a. x5[1] = a /\ x5[2] = b /\ x5[3] = c /\ x5[4] = d /\ x5[5] = e
  <2>1. x5[1] = x4[1] /\ x5[2] = x4[2] /\ x5[3] = x4[3] /\ x5[4] = x4[4]
    BY <1>5
  <2> QED BY <1>4a, <1>5, <2>1
<1>6. fiveFields(a, b, c, d, e) = x5
  BY Zenon DEF fiveFields, x0, x1, x2, x3, x4, x5
<1> QED BY <1>5a, <1>6, Zenon

\* connFields reads the fields that connPayload wrote.
LEMMA ConnFieldsBack ==
    ASSUME NEW p \in Packets, p.type = "CONNECT"
    PROVE  connFields(connFlags(p), connBytes(p)) = Read(connRead(p), <<>>)
<1> DEFINE fl == connFlags(p)
           c == p.clientID
           t == p.willTopic
           m == p.willMessage
           u == p.username
           w == p.password
           iw == p.isWill
           hu == p.username # <<>>
           hw == p.password # <<>>
           yes == TRUE
           e == <<>>
           r5 == e
           r4 == field(hw, w) \o r5
           r3 == field(hu, u) \o r4
           r2 == field(iw, m) \o r3
           r1 == field(iw, t) \o r2
           r0 == field(yes, c) \o r1
           f1 == Append(e, orEmpty(yes, c))
           f2 == Append(f1, orEmpty(iw, t))
           f3 == Append(f2, orEmpty(iw, m))
           f4 == Append(f3, orEmpty(hu, u))
           f5 == Append(f4, orEmpty(hw, w))
<1>1. /\ c \in Seq(Byte) /\ t \in Seq(Byte) /\ m \in Seq(Byte) /\ u \in Seq(Byte) /\ w \in Seq(Byte)
      /\ iw \in BOOLEAN /\ hu \in BOOLEAN /\ hw \in BOOLEAN /\ yes \in BOOLEAN
  BY ConnectFields
<1>2. /\ Len(c) \in Uint16 /\ Len(t) \in Uint16 /\ Len(m) \in Uint16 /\ Len(u) \in Uint16 /\ Len(w) \in Uint16
  BY StringLengths
<1>3. bit(fl, 4) <=> iw
  BY ConnFlags
<1>4. bit(fl, 64) <=> hw
  BY ConnFlags
<1>5. bit(fl, 128) <=> hu
  BY ConnFlags
<1>6. e \in Seq(Byte)
  BY EmptySeq
<1>7. /\ field(hw, w) \in Seq(Byte) /\ field(hu, u) \in Seq(Byte) /\ field(iw, m) \in Seq(Byte)
      /\ field(iw, t) \in Seq(Byte) /\ field(yes, c) \in Seq(Byte)
  BY <1>1, FieldType
<1>8. connBytes(p) = r0
  <2>1. field(hw, w) \o e = field(hw, w)
    <3> DEFINE x == field(hw, w)
    <3>1. x \in Seq(Byte)
      BY <1>7
    <3> HIDE DEF x
    <3>2. x \o <<>> = x
      BY <3>1, ConcatEmptySeq
    <3> QED BY <3>2 DEF x
  <2> QED BY <2>1, Zenon DEF connBytes
<1>9. connFields(fl, r0) = optional(hw, optional(hu, optional(iw, optional(iw, optional(yes, Read(e, r0))))))
  <2>1. bit(fl, 4) = iw /\ bit(fl, 64) = hw /\ bit(fl, 128) = hu
    BY <1>1, <1>3, <1>4, <1>5 DEF bit
  <2> QED BY <2>1, Zenon DEF connFields, Read
<1>10. connRead(p) = f5
  <2>1. orEmpty(yes, c) = c /\ orEmpty(hu, u) = u /\ orEmpty(hw, w) = w
    BY DEF orEmpty
  <2> QED BY <2>1, Zenon DEF connRead, fiveFields
<1>11. r4 \in Seq(Byte)
  BY <1>6, <1>7, Joined
<1> HIDE DEF r4
<1>12. r3 \in Seq(Byte)
  BY <1>7, <1>11, Joined
<1> HIDE DEF r3
<1>13. r2 \in Seq(Byte)
  BY <1>7, <1>12, Joined
<1> HIDE DEF r2
<1>14. r1 \in Seq(Byte)
  BY <1>7, <1>13, Joined
<1> HIDE DEF c, t, m, u, w, iw, hu, hw, yes, e, f1, f2, f3, f4, f5, r1, r0, fl
<1>15. optional(yes, Read(e, r0)) = Read(f1, r1)
  BY <1>1, <1>2, <1>14, FieldBack DEF r0, f1
<1>16. optional(iw, Read(f1, r1)) = Read(f2, r2)
  BY <1>1, <1>2, <1>13, FieldBack DEF r1, f2
<1>17. optional(iw, Read(f2, r2)) = Read(f3, r3)
  BY <1>1, <1>2, <1>12, FieldBack DEF r2, f3
<1>18. optional(hu, Read(f3, r3)) = Read(f4, r4)
  BY <1>1, <1>2, <1>11, FieldBack DEF r3, f4
<1>19. optional(hw, Read(f4, r4)) = Read(f5, e)
  BY <1>1, <1>2, <1>6, FieldBack DEF r4, f5
<1>20. connFields(fl, r0) = Read(f5, e)
  BY <1>9, <1>15, <1>16, <1>17, <1>18, <1>19, Zenon
<1> QED BY <1>8, <1>10, <1>20, Zenon DEF e, fl

\* A CONNECT is put together again from its flags and fields.
LEMMA ConnBack ==
    ASSUME NEW p \in Packets, p.type = "CONNECT"
    PROVE  conn(connFlags(p), p.keepalive, noProps, Read(connRead(p), <<>>)) = ok(received311(p))
<1> DEFINE fl == connFlags(p)
           rd == Read(connRead(p), <<>>)
           cs == p.cleanSession \/ p.clientID = <<>>
           wq == IF p.isWill THEN p.willQos ELSE 0
           wr == p.isWill /\ p.willRetain
           wt == orEmpty(p.isWill, p.willTopic)
           wm == orEmpty(p.isWill, p.willMessage)
<1>0. p.isWill \in BOOLEAN /\ p.willRetain \in BOOLEAN /\ p.cleanSession \in BOOLEAN
  BY ConnectFields
<1>1. bit(fl, 2) = cs /\ bit(fl, 4) = p.isWill /\ (fl \div 8) % 4 = wq /\ bit(fl, 32) = wr
  BY <1>0, ConnFlags DEF bit
<1>2. rd.ok = TRUE /\ rd.fields = connRead(p)
  BY Zenon DEF Read
<1>3. /\ connRead(p)[1] = p.clientID /\ connRead(p)[2] = wt /\ connRead(p)[3] = wm
      /\ connRead(p)[4] = p.username /\ connRead(p)[5] = p.password
  <2> DEFINE S == Seq(Byte)
  <2>1. p.clientID \in S /\ wt \in S /\ wm \in S /\ p.username \in S /\ p.password \in S
    BY ConnectFields, EmptySeq DEF orEmpty
  <2> HIDE DEF S, wt, wm
  <2>2. connRead(p) = fiveFields(p.clientID, wt, wm, p.username, p.password)
    BY Zenon DEF connRead, wt, wm
  <2> DEFINE x == fiveFields(p.clientID, wt, wm, p.username, p.password)
  <2>3. x[1] = p.clientID /\ x[2] = wt /\ x[3] = wm /\ x[4] = p.username /\ x[5] = p.password
    <3> DEFINE c == p.clientID
               u == p.username
               w == p.password
    <3>1. c \in S /\ wt \in S /\ wm \in S /\ u \in S /\ w \in S
      BY <2>1
    <3> HIDE DEF c, u, w
    <3>2. /\ fiveFields(c, wt, wm, u, w)[1] = c /\ fiveFields(c, wt, wm, u, w)[2] = wt
          /\ fiveFields(c, wt, wm, u, w)[3] = wm /\ fiveFields(c, wt, wm, u, w)[4] = u
          /\ fiveFields(c, wt, wm, u, w)[5] = w
      BY <3>1, FiveFields
    <3> QED BY <3>2, Zenon DEF c, u, w
  <2> HIDE DEF x
  <2>4. connRead(p) = x
    BY <2>2 DEF x
  <2> QED BY <2>3, <2>4, Zenon
<1> HIDE DEF rd, fl
<1>4. conn(fl, p.keepalive, noProps, rd) =
        ok([type |-> "CONNECT", cleanSession |-> cs, isWill |-> p.isWill, willQos |-> wq, willRetain |-> wr,
            keepalive |-> p.keepalive, clientID |-> p.clientID, willTopic |-> wt, willMessage |-> wm,
            username |-> p.username, password |-> p.password, willProps |-> noProps, props |-> noProps])
  BY <1>1, <1>2, <1>3, Zenon DEF conn
<1>5. received311(p) =
        [type |-> "CONNECT", cleanSession |-> cs, isWill |-> p.isWill, willQos |-> wq, willRetain |-> wr,
            keepalive |-> p.keepalive, clientID |-> p.clientID, willTopic |-> wt, willMessage |-> wm,
            username |-> p.username, password |-> p.password, willProps |-> noProps, props |-> noProps]
  <2>1. received311(p) = connRecord(cs, p.isWill, wq, wr, p.username, p.password, p.clientID, p.keepalive, wt, wm, noProps, noProps)
    BY ConnReceived
  <2> HIDE DEF cs, wq, wr, wt, wm
  <2> QED BY <2>1 DEF connRecord
<1> QED BY <1>4, <1>5, Zenon DEF rd, fl

\* Version, flags and keepalive in front of what follows
LEMMA ConnNext ==
    ASSUME NEW p \in Packets, p.type = "CONNECT", NEW v \in {V311, V5}, NEW d \in Seq(Byte)
    PROVE  LET n == connHeader(v, p) \o d
           IN  /\ n[1] = v /\ n[2] = connFlags(p)
               /\ from(n, 3) = putUint16(p.keepalive) \o d
               /\ getUint16(from(n, 3)) = p.keepalive
               /\ from(n, 5) = d
               /\ Len(n) = 4 + Len(d)
<1> DEFINE n == connHeader(v, p) \o d
           f == connFlags(p)
           k == putUint16(p.keepalive)
           h == <<v, f>>
           r == k \o d
<1>1. f \in Byte /\ v \in Byte
  <2>1. f \in Byte
    BY ConnFlags
  <2>2. v \in Byte
    BY Versions45 DEF Byte
  <2> QED BY <2>1, <2>2
<1>2. k \in Seq(Byte) /\ Len(k) = 2 /\ p.keepalive \in Uint16
  BY ConnectFields, PutUint16
<1>3. h \in Seq(Byte)
  BY <1>1, TwoBytes
<1>4. n = (h \o k) \o d
  BY DEF connHeader
<1>5. (h \o k) \o d = h \o r
  <2>1. k \in Seq(Byte)
    BY <1>2
  <2> HIDE DEF h, k
  <2> QED BY <1>3, <2>1, ConcatAssociative
<1>6. r \in Seq(Byte) /\ Len(r) = 2 + Len(d)
  <2> HIDE DEF k
  <2>1. r \in Seq(Byte) /\ Len(r) = Len(k) + Len(d)
    BY <1>2, Joined
  <2> QED BY <1>2, <2>1
<1>7. n = <<v, f>> \o r
  BY <1>4, <1>5
<1>8. /\ (<<v, f>> \o r)[1] = v /\ (<<v, f>> \o r)[2] = f /\ from(<<v, f>> \o r, 3) = r
      /\ Len(<<v, f>> \o r) = 2 + Len(r)
  <2> HIDE DEF r, f
  <2> QED BY <1>1, <1>6, AfterTwo
<1>9. getUint16(r) = p.keepalive
  BY <1>2, IdBack
<1>10. from(n, 5) = d
  <2> DEFINE q == h \o k
  <2>1. h \in Seq(Byte) /\ k \in Seq(Byte) /\ Len(h) = 2
    BY <1>1, <1>2, TwoBytes
  <2> HIDE DEF h, k
  <2>2. q \in Seq(Byte) /\ Len(q) = Len(h) + Len(k)
    BY <2>1, Joined
  <2>3. Len(q) + 1 = 5
    BY <1>2, <2>1, <2>2
  <2> HIDE DEF q
  <2>4. from(q \o d, Len(q) + 1) = d
    BY <2>2, FromAfter
  <2> QED BY <1>4, <2>3, <2>4 DEF q
<1>11. 2 + (2 + Len(d)) = 4 + Len(d)
  <2>1. Len(d) \in Nat
    BY LenProperties
  <2> QED BY <2>1
<1> HIDE DEF n, r
<1>12. /\ n[1] = v /\ n[2] = f /\ from(n, 3) = r /\ Len(n) = 4 + Len(d)
  BY <1>6, <1>7, <1>8, <1>11, Zenon
<1> QED BY <1>9, <1>10, <1>12, Zenon DEF n, r

\* A CONNECT is read back.
LEMMA ConnectBack ==
    ASSUME NEW p \in Packets, p.type = "CONNECT"
    PROVE  Back311(p)
<1> DEFINE d == connBytes(p)
           h == connHeader(V311, p)
           n == h \o d
<1>1. /\ h \in Seq(Byte) /\ Len(h) = 4 /\ mqtt \in Seq(Byte) /\ Len(mqtt) = 4
      /\ body(V311, p) = encodeBytesWithLen(mqtt) \o n
  <2>1. V311 \in {V311, V5}
    OBVIOUS
  <2> QED BY <2>1, ConnectBody, ConnBytes
<1>2. d \in Seq(Byte)
  BY ConnBytes
<1>3. n \in Seq(Byte) /\ Len(n) = Len(h) + Len(d)
  <2>1. h \in Seq(Byte)
    BY <1>1
  <2> HIDE DEF h, d
  <2> QED BY <1>2, <2>1, Joined
<1>4. getBinaryData(body(V311, p)) = [ok |-> TRUE, data |-> mqtt, next |-> n]
  <2>1. Len(mqtt) \in Uint16
    BY <1>1 DEF Uint16, maxUint16
  <2>2. mqtt \in Seq(Byte) /\ n \in Seq(Byte)
    BY <1>1, <1>3
  <2> HIDE DEF n
  <2>3. getBinaryData(encodeBytesWithLen(mqtt) \o n) = [ok |-> TRUE, data |-> mqtt, next |-> n]
    BY <2>1, <2>2, ReadBack
  <2> QED BY <1>1, <2>3
<1>5. /\ n[1] = V311 /\ n[2] = connFlags(p)
      /\ getUint16(from(n, 3)) = p.keepalive /\ from(n, 5) = d
      /\ Len(n) = 4 + Len(d)
  <2>1. V311 \in {V311, V5}
    OBVIOUS
  <2> HIDE DEF d
  <2> QED BY <1>2, <2>1, ConnNext
<1>6. ~(Len(n) < 4)
  <2>1. Len(d) \in Nat
    BY <1>2, LenProperties
  <2> HIDE DEF d, n
  <2> QED BY <1>5, <2>1
<1> HIDE DEF d, n
<1>7. decodeV311Conn([ok |-> TRUE, data |-> mqtt, next |-> n])
        = conn(connFlags(p), p.keepalive, noProps, connFields(connFlags(p), d))
  <2> DEFINE b == [ok |-> TRUE, data |-> mqtt, next |-> n]
  <2>1. b.ok = TRUE /\ b.next = n
    BY Zenon
  <2> HIDE DEF b
  <2>2. decodeV311Conn(b) = conn(n[2], getUint16(from(n, 3)), noProps, connFields(n[2], from(n, 5)))
    BY <1>5, <1>6, <2>1 DEF decodeV311Conn
  <2> QED BY <1>5, <2>2, Zenon DEF b
<1>8. decodeV311Packet(p.type, header(p), body(V311, p)) = ok(received311(p))
  <2>1. decodeV311Packet(p.type, header(p), body(V311, p)) = decodeV311Conn(getBinaryData(body(V311, p)))
    BY Decode311Is, Zenon
  <2> QED BY <1>4, <1>7, <2>1, ConnFieldsBack, ConnBack, Zenon DEF d
<1>9. Len(body(V311, p)) # 0
  BY NotEmpty311
<1> QED BY <1>8, <1>9 DEF Back311

\* The flags of a PUBLISH
LEMMA PublishFlags ==
    ASSUME NEW p \in Packets, p.type = "PUBLISH"
    PROVE  /\ (header(p) \div 2) % 4 = p.qos
           /\ bit(header(p), 8) = p.isDup
           /\ bit(header(p), 1) = p.isRetain
<1> DEFINE d == boolToByte(p.isDup)
           r == boolToByte(p.isRetain)
           q == p.qos
           h == header(p)
<1>1. d \in 0..1 /\ r \in 0..1 /\ q \in 0..2 /\ (d = 1 <=> p.isDup) /\ (r = 1 <=> p.isRetain)
  BY PublishFields DEF boolToByte
<1>2. p.isDup \in BOOLEAN /\ p.isRetain \in BOOLEAN
  BY PublishFields
<1>3. h = 16 * 3 + (8 * d + 2 * q + r)
  BY CtrlTypes DEF header, flagBits
<1> HIDE DEF h, d, q, r
<1>4. (h \div 2) % 4 = q /\ (h \div 8) % 2 = d /\ (h \div 1) % 2 = r
  <2>1. d = 0 \/ d = 1
    BY <1>1
  <2>2. r = 0 \/ r = 1
    BY <1>1
  <2>3. q = 0 \/ q = 1 \/ q = 2
    BY <1>1
  <2>4. CASE d = 0 /\ r = 0 /\ q = 0
    <3>1. h = 48
      BY <1>3, <2>4
    <3> QED BY <2>4, <3>1
  <2>5. CASE d = 0 /\ r = 0 /\ q = 1
    <3>1. h = 50
      BY <1>3, <2>5
    <3> QED BY <2>5, <3>1
  <2>6. CASE d = 0 /\ r = 0 /\ q = 2
    <3>1. h = 52
      BY <1>3, <2>6
    <3> QED BY <2>6, <3>1
  <2>7. CASE d = 0 /\ r = 1 /\ q = 0
    <3>1. h = 49
      BY <1>3, <2>7
    <3> QED BY <2>7, <3>1
  <2>8. CASE d = 0 /\ r = 1 /\ q = 1
    <3>1. h = 51
      BY <1>3, <2>8
    <3> QED BY <2>8, <3>1
  <2>9. CASE d = 0 /\ r = 1 /\ q = 2
    <3>1. h = 53
      BY <1>3, <2>9
    <3> QED BY <2>9, <3>1
  <2>10. CASE d = 1 /\ r = 0 /\ q = 0
    <3>1. h = 56
      BY <1>3, <2>10
    <3> QED BY <2>10, <3>1
  <2>11. CASE d = 1 /\ r = 0 /\ q = 1
    <3>1. h = 58
      BY <1>3, <2>11
    <3> QED BY <2>11, <3>1
  <2>12. CASE d = 1 /\ r = 0 /\ q = 2
    <3>1. h = 60
      BY <1>3, <2>12
    <3> QED BY <2>12, <3>1
  <2>13. CASE d = 1 /\ r = 1 /\ q = 0
    <3>1. h = 57
      BY <1>3, <2>13
    <3> QED BY <2>13, <3>1
  <2>14. CASE d = 1 /\ r = 1 /\ q = 1
    <3>1. h = 59
      BY <1>3, <2>14
    <3> QED BY <2>14, <3>1
  <2>15. CASE d = 1 /\ r = 1 /\ q = 2
    <3>1. h = 61
      BY <1>3, <2>15
    <3> QED BY <2>15, <3>1
  <2> QED BY <2>1, <2>2, <2>3, <2>4, <2>5, <2>6, <2>7, <2>8, <2>9, <2>10, <2>11, <2>12, <2>13, <2>14, <2>15
<1> QED BY <1>1, <1>2, <1>4 DEF bit, h, q

\* The identifier is read back if there is one.
LEMMA PublishHeaderBack ==
    ASSUME NEW q \in 0..2, NEW n \in Uint16, NEW s, NEW d \in Seq(Byte)
    PROVE  publishHeader(q, [ok |-> TRUE, data |-> s, next |-> (IF q > 0 THEN putUint16(n) ELSE <<>>) \o d])
             = [ok |-> TRUE, data |-> s, id |-> IF q = 0 THEN 0 ELSE n, next |-> d]
<1> DEFINE x == (IF q > 0 THEN putUint16(n) ELSE <<>>) \o d
           t == [ok |-> TRUE, data |-> s, next |-> x]
<1>1. t.ok = TRUE /\ t.data = s /\ t.next = x
  BY Zenon
<1>2. Len(d) \in Nat
  BY LenProperties
<1> HIDE DEF t
<1>3. CASE q > 0
  <2>1. x = putUint16(n) \o d /\ q # 0
    BY <1>3
  <2>2. getUint16(x) = n /\ from(x, 3) = d /\ Len(x) = 2 + Len(d)
    BY <2>1, IdBack
  <2> HIDE DEF x
  <2>3. ~(Len(x) < 2)
    BY <1>2, <2>2
  <2>4. publishHeader(q, t) = [ok |-> TRUE, data |-> s, id |-> n, next |-> d]
    BY <1>1, <1>3, <2>2, <2>3 DEF publishHeader
  <2> QED BY <2>1, <2>4 DEF t, x
<1>4. CASE ~(q > 0)
  <2>1. x = d /\ q = 0
    BY <1>4, ConcatEmptySeq
  <2> HIDE DEF x
  <2>2. publishHeader(q, t) = [ok |-> TRUE, data |-> s, id |-> 0, next |-> d]
    BY <1>1, <1>4, <2>1 DEF publishHeader
  <2> QED BY <2>1, <2>2 DEF t, x
<1> QED BY <1>3, <1>4

\* A PUBLISH as Decode puts it together
publishRecord(id, q, r, s, n, d, x) ==
    [type |-> "PUBLISH", isDup |-> id, qos |-> q, isRetain |-> r,
     topicName |-> s, packetID |-> n, payload |-> d, props |-> x]

\* What the reader should get of a PUBLISH, field by field.
LEMMA PublishReceived ==
    ASSUME NEW p \in Packets, p.type = "PUBLISH"
    PROVE  received311(p) = publishRecord(p.isDup, p.qos, p.isRetain, p.topicName,
                                          IF p.qos = 0 THEN 0 ELSE p.packetID, p.payload, noProps)
<1> DEFINE a == p.isDup
           q == p.qos
           r == p.isRetain
           s == p.topicName
           n == p.packetID
           d == p.payload
           x == p.props
           m == IF p.qos = 0 THEN 0 ELSE p.packetID
           y == noProps
<1>1. received311(p) = [p EXCEPT !.packetID = m, !.props = y]
  BY Received311Is
<1>2. p = publishRecord(a, q, r, s, n, d, x)
  BY PublishFields DEF publishRecord
<1> HIDE DEF a, q, r, s, n, d, x, m, y
<1>3. [p EXCEPT !.packetID = m, !.props = y] = [[p EXCEPT !.packetID = m] EXCEPT !.props = y]
  BY SMT
<1>4. [publishRecord(a, q, r, s, n, d, x) EXCEPT !.packetID = m] = publishRecord(a, q, r, s, m, d, x)
  BY DEF publishRecord
<1>5. [publishRecord(a, q, r, s, m, d, x) EXCEPT !.props = y] = publishRecord(a, q, r, s, m, d, y)
  BY DEF publishRecord
<1>6. received311(p) = publishRecord(a, q, r, s, m, d, y)
  BY <1>1, <1>2, <1>3, <1>4, <1>5, Zenon
<1> QED BY <1>6, Zenon DEF a, q, r, s, m, d, y

\* A PUBLISH is read back.
LEMMA PublishBack ==
    ASSUME NEW p \in Packets, p.type = "PUBLISH"
    PROVE  Back311(p)
<1> DEFINE q == p.qos
           n == p.packetID
           s == p.topicName
           d == p.payload
           x == (IF q > 0 THEN putUint16(n) ELSE <<>>) \o d
           rd == [ok |-> TRUE, data |-> s, id |-> IF q = 0 THEN 0 ELSE n, next |-> d]
<1>1. q \in 0..2 /\ n \in Uint16 /\ s \in Seq(Byte) /\ d \in Seq(Byte) /\ Len(s) \in Uint16
  BY PublishFields, StringLengths
<1>2. body(V311, p) = encodeBytesWithLen(s) \o x
  BY PublishBody, Zenon
<1>3. x \in Seq(Byte)
  <2> DEFINE i == IF q > 0 THEN putUint16(n) ELSE <<>>
  <2>1. i \in Seq(Byte)
    BY <1>1, PutUint16, EmptySeq
  <2> HIDE DEF i, d
  <2>2. i \o d \in Seq(Byte)
    BY <1>1, <2>1, Joined
  <2> QED BY <2>2 DEF i
<1> HIDE DEF q, n, s, d
<1>4. getBinaryData(encodeBytesWithLen(s) \o x) = [ok |-> TRUE, data |-> s, next |-> x]
  <2> HIDE DEF x
  <2> QED BY <1>1, <1>3, ReadBack
<1>5. publishHeader(q, [ok |-> TRUE, data |-> s, next |-> x]) = rd
  BY <1>1, PublishHeaderBack, Zenon
<1>6. decodeV311Packet(p.type, header(p), body(V311, p)) = decodeV311Publish(header(p), rd)
  <2> DEFINE h == header(p)
             b == body(V311, p)
  <2>1. decodeV311Packet(p.type, h, b) = decodeV311Publish(h, publishHeader((h \div 2) % 4, getBinaryData(b)))
    BY Decode311Is, Zenon
  <2>2. (h \div 2) % 4 = q
    BY PublishFlags DEF q
  <2> QED BY <1>2, <1>4, <1>5, <2>1, <2>2, Zenon
<1>7. rd.ok = TRUE /\ rd.data = s /\ rd.next = d /\ rd.id = IF q = 0 THEN 0 ELSE n
  BY Zenon
<1> HIDE DEF rd
<1>8. decodeV311Publish(header(p), rd)
        = ok(publishRecord(p.isDup, q, p.isRetain, s, IF q = 0 THEN 0 ELSE n, d, noProps))
  BY <1>7, PublishFlags, Zenon DEF decodeV311Publish, publish, publishRecord, q
<1>9. Len(body(V311, p)) # 0
  BY NotEmpty311
<1> QED BY <1>6, <1>8, <1>9, PublishReceived, Zenon DEF Back311, q, n, s, d

\* The topics of a SUBSCRIBE as a list of names, and back.
LEMMA SubscribeItems ==
    ASSUME NEW p \in Packets, p.type = "SUBSCRIBE"
    PROVE  /\ Fits(subItems(p), 1)
           /\ [i \in DOMAIN subItems(p) |-> [name |-> subItems(p)[i].name, qos |-> subItems(p)[i].tail[1]]] = p.topics
<1> DEFINE xs == subItems(p)
           ts == p.topics
<1>1. /\ xs \in Seq(Item) /\ Len(xs) = Len(ts)
      /\ \A i \in 1..Len(ts) : xs[i] = [name |-> ts[i].name, tail |-> <<ts[i].qos>>]
  BY SubscribeBody
<1>2. ts \in Seq([name : Seq(Byte), qos : Byte]) /\ \A i \in DOMAIN ts : Len(ts[i].name) \in Uint16
  BY SubscribeFields, StringLengths
<1> HIDE DEF xs, ts
<1>3. DOMAIN xs = 1..Len(ts) /\ DOMAIN ts = 1..Len(ts) /\ ts = [i \in 1..Len(ts) |-> ts[i]]
  BY <1>1, <1>2, LenProperties
<1>4. ASSUME NEW i \in 1..Len(ts)
      PROVE  /\ xs[i].name = ts[i].name /\ Len(ts[i].name) \in Uint16
             /\ Len(xs[i].tail) = 1 /\ xs[i].tail[1] = ts[i].qos
             /\ ts[i] = [name |-> ts[i].name, qos |-> ts[i].qos]
  <2>1. ts[i] \in [name : Seq(Byte), qos : Byte]
    BY <1>2, ElementOfSeq
  <2>2. xs[i] = [name |-> ts[i].name, tail |-> <<ts[i].qos>>]
    BY <1>1
  <2>3. xs[i].name = ts[i].name /\ xs[i].tail = <<ts[i].qos>>
    <3> DEFINE c == ts[i].name
               t == <<ts[i].qos>>
               g == xs[i]
    <3>1. g = [name |-> c, tail |-> t]
      BY <2>2
    <3> HIDE DEF c, t, g
    <3>2. g.name = c /\ g.tail = t
      BY <3>1
    <3> QED BY <3>2 DEF c, t, g
  <2>4. Len(xs[i].tail) = 1 /\ xs[i].tail[1] = ts[i].qos
    BY <2>3
  <2> QED BY <1>2, <1>3, <2>1, <2>3, <2>4
<1>5. Fits(xs, 1)
  BY <1>1, <1>4 DEF Fits
<1>6. [i \in 1..Len(ts) |-> [name |-> xs[i].name, qos |-> xs[i].tail[1]]] = [i \in 1..Len(ts) |-> ts[i]]
  <2>1. ASSUME NEW i \in 1..Len(ts) PROVE [name |-> xs[i].name, qos |-> xs[i].tail[1]] = ts[i]
    BY <1>4, Zenon
  <2> QED BY <2>1, Zenon
<1>7. [i \in DOMAIN xs |-> [name |-> xs[i].name, qos |-> xs[i].tail[1]]] = ts
  BY <1>3, <1>6, Zenon
<1> QED BY <1>5, <1>7 DEF xs, ts

\* The topics of a SUBSCRIBE are read back.
LEMMA SubscribeRead ==
    ASSUME NEW p \in Packets, p.type = "SUBSCRIBE", NEW n, NEW x
    PROVE  subscribe(n, readNames(listBytes(subItems(p)), 1), x)
             = ok([type |-> "SUBSCRIBE", packetID |-> n, props |-> x, topics |-> p.topics])
<1> DEFINE xs == subItems(p)
           one == 1
<1>1. Fits(xs, one) /\ one \in Nat
  BY SubscribeItems
<1>2. [i \in DOMAIN xs |-> [name |-> xs[i].name, qos |-> xs[i].tail[1]]] = p.topics
  BY SubscribeItems
<1> HIDE DEF xs, one
<1>3. readNames(listBytes(xs), one) = Names(xs)
  BY <1>1, NamesBack
<1>4. Names(xs).ok = TRUE /\ Names(xs).items = xs
  BY Zenon DEF Names
<1>5. subscribe(n, Names(xs), x) = ok([type |-> "SUBSCRIBE", packetID |-> n, props |-> x, topics |-> p.topics])
  BY <1>2, <1>4, Zenon DEF subscribe
<1> QED BY <1>3, <1>5, Zenon DEF xs, one

\* A SUBSCRIBE is read back.
LEMMA SubscribeBack ==
    ASSUME NEW p \in Packets, p.type = "SUBSCRIBE"
    PROVE  Back311(p)
<1> DEFINE n == p.packetID
           l == listBytes(subItems(p))
<1>1. n \in Uint16 /\ l \in Seq(Byte) /\ body(V311, p) = putUint16(n) \o l
  BY SubscribeBody, ListBytes
<1>2. getUint16(putUint16(n) \o l) = n /\ from(putUint16(n) \o l, 3) = l
  <2>1. n \in Uint16 /\ l \in Seq(Byte)
    BY <1>1
  <2> HIDE DEF n, l
  <2> QED BY <2>1, IdBack
<1>3. decodeV311Packet(p.type, header(p), body(V311, p)) = subscribe(n, readNames(l, 1), noProps)
  BY <1>1, <1>2, Decode311Is, ZenonT(30)
<1>4. received311(p) = [type |-> "SUBSCRIBE", packetID |-> n, props |-> noProps, topics |-> p.topics]
  <2>1. received311(p) = [p EXCEPT !.props = noProps]
    BY Received311Is
  <2> QED BY <2>1, SubscribeFields
<1>5. Len(body(V311, p)) # 0
  BY NotEmpty311
<1> QED BY <1>3, <1>4, <1>5, SubscribeRead, Zenon DEF Back311

\* The topic names of an UNSUBSCRIBE as a list, and back.
LEMMA UnsubItems ==
    ASSUME NEW p \in Packets, p.type = "UNSUBSCRIBE"
    PROVE  /\ Fits(unsubItems(p), 0)
           /\ [i \in DOMAIN unsubItems(p) |-> unsubItems(p)[i].name] = p.topicNames
<1> DEFINE xs == unsubItems(p)
           ts == p.topicNames
<1>1. /\ xs \in Seq(Item) /\ Len(xs) = Len(ts)
      /\ \A i \in 1..Len(ts) : xs[i] = [name |-> ts[i], tail |-> <<>>]
  BY UnsubBody
<1>2. ts \in Seq(Seq(Byte)) /\ \A i \in DOMAIN ts : Len(ts[i]) \in Uint16
  BY UnsubFields, StringLengths
<1> HIDE DEF xs, ts
<1>3. DOMAIN xs = 1..Len(ts) /\ DOMAIN ts = 1..Len(ts) /\ ts = [i \in 1..Len(ts) |-> ts[i]]
  <2> DEFINE S == Seq(Byte)
  <2>1. ts \in Seq(S)
    BY <1>2
  <2> HIDE DEF S
  <2> QED BY <1>1, <2>1, LenProperties
<1>4. ASSUME NEW i \in 1..Len(ts)
      PROVE  xs[i].name = ts[i] /\ Len(ts[i]) \in Uint16 /\ Len(xs[i].tail) = 0
  <2>1. xs[i] = [name |-> ts[i], tail |-> <<>>]
    BY <1>1
  <2>2. xs[i].name = ts[i] /\ xs[i].tail = <<>>
    <3> DEFINE c == ts[i]
               t == <<>>
               g == xs[i]
    <3>1. g = [name |-> c, tail |-> t]
      BY <2>1
    <3> HIDE DEF c, t, g
    <3>2. g.name = c /\ g.tail = t
      BY <3>1
    <3> QED BY <3>2 DEF c, t, g
  <2>3. Len(xs[i].tail) = 0
    BY <2>2
  <2> QED BY <1>2, <1>3, <2>2, <2>3
<1>5. Fits(xs, 0)
  BY <1>1, <1>4 DEF Fits
<1>6. [i \in 1..Len(ts) |-> xs[i].name] = [i \in 1..Len(ts) |-> ts[i]]
  BY <1>4, Zenon
<1>7. [i \in DOMAIN xs |-> xs[i].name] = ts
  BY <1>3, <1>6, Zenon
<1> QED BY <1>5, <1>7 DEF xs, ts

\* The topic names of an UNSUBSCRIBE are read back.
LEMMA UnsubRead ==
    ASSUME NEW p \in Packets, p.type = "UNSUBSCRIBE", NEW n, NEW x
    PROVE  unsubscribe(n, readNames(listBytes(unsubItems(p)), 0), x)
             = ok([type |-> "UNSUBSCRIBE", packetID |-> n, props |-> x, topicNames |-> p.topicNames])
<1> DEFINE xs == unsubItems(p)
           none == 0
<1>1. Fits(xs, none) /\ none \in Nat
  BY UnsubItems
<1>2. [i \in DOMAIN xs |-> xs[i].name] = p.topicNames
  BY UnsubItems
<1> HIDE DEF xs, none
<1>3. readNames(listBytes(xs), none) = Names(xs)
  BY <1>1, NamesBack
<1>4. Names(xs).ok = TRUE /\ Names(xs).items = xs
  BY Zenon DEF Names
<1>5. unsubscribe(n, Names(xs), x)
        = ok([type |-> "UNSUBSCRIBE", packetID |-> n, props |-> x, topicNames |-> p.topicNames])
  BY <1>2, <1>4, Zenon DEF unsubscribe
<1> QED BY <1>3, <1>5, Zenon DEF xs, none

\* An UNSUBSCRIBE is read back.
LEMMA UnsubBack ==
    ASSUME NEW p \in Packets, p.type = "UNSUBSCRIBE"
    PROVE  Back311(p)
<1> DEFINE n == p.packetID
           l == listBytes(unsubItems(p))
<1>1. n \in Uint16 /\ l \in Seq(Byte) /\ body(V311, p) = putUint16(n) \o l
  BY UnsubBody, ListBytes
<1>2. getUint16(putUint16(n) \o l) = n /\ from(putUint16(n) \o l, 3) = l
  <2>1. n \in Uint16 /\ l \in Seq(Byte)
    BY <1>1
  <2> HIDE DEF n, l
  <2> QED BY <2>1, IdBack
<1>3. decodeV311Packet(p.type, header(p), body(V311, p)) = unsubscribe(n, readNames(l, 0), noProps)
  BY <1>1, <1>2, Decode311Is, Zenon
<1>4. received311(p) = [type |-> "UNSUBSCRIBE", packetID |-> n, props |-> noProps, topicNames |-> p.topicNames]
  <2>1. received311(p) = [p EXCEPT !.props = noProps]
    BY Received311Is
  <2> QED BY <2>1, UnsubFields
<1>5. Len(body(V311, p)) # 0
  BY NotEmpty311
<1> QED BY <1>3, <1>4, <1>5, UnsubRead, Zenon DEF Back311

\* Every packet of MQTT 3.1.1 is to its reader what it should be.
LEMMA AllBack ==
    ASSUME NEW p \in Packets, p.type # "AUTH"
    PROVE  Back311(p)
<1>1. p.type \in Types
  BY PacketType
<1> QED BY <1>1, ConnectBack, ConnAckBack, PublishBack, AckBack, SubscribeBack, SubAckBack, UnsubBack,
           UnsubAckBack, PingBack, DisconnBack DEF Types, AckTypes

\* A sequence that agrees with a as far as a goes begins with a.
LEMMA PrefixOf ==
    ASSUME NEW a \in Seq(Byte), NEW w \in Seq(Byte), Len(a) <= Len(w), \A i \in 1..Len(a) : w[i] = a[i]
    PROVE  \E x \in Seq(Byte) : w = cat(a, x)
<1> DEFINE n == Len(a)
<1>1. n \in Nat /\ Len(w) \in Nat /\ n \in 0..Len(w)
  BY LenProperties
<1>3. SubSeq(w, 1, n) = a
  <2>1. SubSeq(w, 0 + 1, n) = a
    <3>1. 0 \in Nat /\ n = 0 + Len(a) /\ n <= Len(w)
      BY <1>1
    <3>2. \A i \in 1..Len(a) : w[0 + i] = a[i]
      <4> TAKE i \in 1..Len(a)
      <4>1. 0 + i = i
        BY <1>1
      <4> QED BY <4>1
    <3> HIDE DEF n
    <3> QED BY <3>1, <3>2, SliceIs
  <2> QED BY <2>1
<1>4. \E x \in Seq(Byte) : SubSeq(w, 1, n) \o x = w
  BY <1>1, Cuts
<1> QED BY <1>3, <1>4 DEF cat

\* The first part.
LEMMA CatFirst ==
    ASSUME NEW a \in Seq(Byte), NEW b \in Seq(Byte)
    PROVE  \A i \in 1..Len(a) : cat(a, b)[i] = a[i]
BY FirstPart DEF cat

\* The second part.
LEMMA CatFrom ==
    ASSUME NEW a \in Seq(Byte), NEW b \in Seq(Byte)
    PROVE  from(cat(a, b), Len(a) + 1) = b
BY FromAfter DEF cat

\* Nothing behind.
LEMMA CatEmpty == \A a \in Seq(Byte) : cat(a, <<>>) = a
BY ConcatEmptySeq DEF cat

\* The longer of two beginnings begins with the shorter.
LEMMA CatPrefix ==
    ASSUME NEW a \in Seq(Byte), NEW s \in Seq(Byte), NEW w \in Seq(Byte), NEW u \in Seq(Byte),
           cat(w, u) = cat(a, s), Len(a) <= Len(w)
    PROVE  \E x \in Seq(Byte) : w = cat(a, x)
<1>1. \A i \in 1..Len(a) : cat(a, s)[i] = a[i]
  BY CatFirst
<1>2. \A i \in 1..Len(w) : cat(w, u)[i] = w[i]
  BY CatFirst
<1>3. Len(a) \in Nat /\ Len(w) \in Nat
  BY LenProperties
<1>4. \A i \in 1..Len(a) : w[i] = a[i]
  <2> TAKE i \in 1..Len(a)
  <2>1. i \in 1..Len(w)
    BY <1>3
  <2> QED BY <1>1, <1>2, <2>1, Zenon
<1> QED BY <1>4, PrefixOf

\* Two ways to split the same bytes: the one part begins with the other.
WholeIn(a, s, w, u) == \E x \in Seq(Byte) : w = cat(a, x) /\ cat(x, u) = s
PartOf(w, a) == \E x \in Seq(Byte) : x # <<>> /\ cat(w, x) = a

\* One of the two cases holds.
LEMMA Splits ==
    ASSUME NEW a \in Seq(Byte), NEW s \in Seq(Byte), NEW w \in Seq(Byte), NEW u \in Seq(Byte),
           cat(w, u) = cat(a, s)
    PROVE  WholeIn(a, s, w, u) \/ PartOf(w, a)
<1>0. Len(a) \in Nat /\ Len(w) \in Nat
  BY LenProperties
<1>1. CASE Len(a) <= Len(w)
  <2>1. PICK x \in Seq(Byte) : w = cat(a, x)
    BY <1>1, CatPrefix
  <2>2. cat(a, cat(x, u)) = cat(a, s)
    BY <2>1, CatAssoc
  <2>3. cat(x, u) \in Seq(Byte)
    BY CatType
  <2>4. from(cat(a, cat(x, u)), Len(a) + 1) = cat(x, u)
    BY <2>3, CatFrom
  <2>5. from(cat(a, s), Len(a) + 1) = s
    BY CatFrom
  <2>6. cat(x, u) = s
    BY <2>2, <2>4, <2>5
  <2> QED BY <2>1, <2>6 DEF WholeIn
<1>2. CASE Len(w) < Len(a)
  <2>0. cat(a, s) = cat(w, u) /\ Len(w) <= Len(a)
    BY <1>0, <1>2
  <2>1. PICK x \in Seq(Byte) : a = cat(w, x)
    BY <2>0, CatPrefix
  <2>2. x # <<>>
    <3> SUFFICES ASSUME x = <<>> PROVE FALSE
      OBVIOUS
    <3>1. a = w
      BY <2>1, CatEmpty
    <3> QED BY <1>0, <1>2, <3>1
  <2> QED BY <2>1, <2>2 DEF PartOf
<1>3. Len(a) <= Len(w) \/ Len(w) < Len(a)
  BY <1>0
<1> QED BY <1>1, <1>2, <1>3, Zenon

\* A whole packet is read as what it is.
LEMMA Taken ==
    ASSUME NEW p \in Packets, p.type # "AUTH", ~tooLarge(body(V311, p)), NEW s \in Seq(Byte)
    PROVE  /\ decoded(V311, bytes(V311, p) \o s) = ok(received311(p))
           /\ frameRest(bytes(V311, p) \o s) = s
<1> DEFINE b == body(V311, p)
<1>0. V311 \in {V311, V5}
  OBVIOUS
<1>1. b = <<>> \/ Len(b) >= 2
  BY <1>0, BodyType
<1>2. Len(b) \in Nat /\ (b = <<>> => Len(b) = 0)
  BY <1>0, BodyType, LenProperties, EmptySeq
<1>3. Len(b) = 0 \/ ~(Len(b) < 2)
  BY <1>1, <1>2
<1>4. Back311(p)
  BY AllBack
<1>5. /\ frameRest(bytes(V311, p) \o s) = s
      /\ decoded(V311, bytes(V311, p) \o s) =
            IF Len(b) = 0 THEN decodeEmpty(V311, header(p))
            ELSE IF Len(b) < 2 THEN bad
            ELSE IF V311 = V311 THEN decodeV311Packet(p.type, header(p), b)
            ELSE decodeV5Packet(p.type, header(p), b)
  BY <1>0, DecodedIs, Zenon
<1>6. CASE Len(b) = 0
  BY <1>4, <1>5, <1>6, Zenon DEF Back311
<1>7. CASE Len(b) # 0 /\ ~(Len(b) < 2)
  BY <1>4, <1>5, <1>7, Zenon DEF Back311
<1> QED BY <1>3, <1>6, <1>7, Zenon

\* The bytes of a length that break off have no length.
LEMMA LengthCut ==
    ASSUME NEW d \in Seq(Byte), Len(d) <= 3, \A i \in 1..Len(d) : d[i] >= 128
    PROVE  lastByte(d) = Len(d) + 1 /\ getRemainLength(d).length = 0
<1>1. Len(d) \in Nat
  BY LenProperties
<1>2. lastByte(d) = Len(d) + 1
  <2>1. Len(d) = 0 \/ Len(d) = 1 \/ Len(d) = 2 \/ Len(d) = 3
    <3> DEFINE n == Len(d)
    <3>1. n \in Nat /\ n <= 3
      BY <1>1
    <3> HIDE DEF n
    <3>2. n = 0 \/ n = 1 \/ n = 2 \/ n = 3
      BY <3>1
    <3> QED BY <3>2 DEF n
  <2>2. CASE Len(d) = 0
    BY <2>2 DEF lastByte
  <2>3. CASE Len(d) = 1
    <3>1. d[1] >= 128
      BY <2>3
    <3> QED BY <2>3, <3>1 DEF lastByte
  <2>4. CASE Len(d) = 2
    <3>1. d[1] >= 128 /\ d[2] >= 128
      BY <2>4
    <3> QED BY <2>4, <3>1 DEF lastByte
  <2>5. CASE Len(d) = 3
    <3>1. d[1] >= 128 /\ d[2] >= 128 /\ d[3] >= 128
      BY <2>5
    <3> QED BY <2>5, <3>1 DEF lastByte
  <2> QED BY <2>1, <2>2, <2>3, <2>4, <2>5
<1>3. lastByte(d) > Len(d)
  BY <1>1, <1>2
<1>4. getRemainLength(d) = [length |-> 0, byteCount |-> 0]
  BY <1>3 DEF getRemainLength, lengthUpTo
<1> QED BY <1>2, <1>4

\* A header without a length
LEMMA HeaderAlone ==
    ASSUME NEW p \in Packets
    PROVE  decodeEmpty(V311, header(p)) =
             IF p.type \in {"PINGREQ", "PINGRESP", "DISCONNECT"} THEN ok(received311(p)) ELSE bad
<1>0. V311 \in {V311, V5}
  OBVIOUS
<1>1. CASE p.type \in {"PINGREQ", "PINGRESP", "DISCONNECT"}
  <2>1. Back311(p)
    BY <1>1, PingBack, DisconnBack
  <2>2. body(V311, p) = <<>>
    BY <1>0, <1>1, BodyType
  <2>3. Len(body(V311, p)) = 0
    BY <2>2
  <2> QED BY <1>1, <2>1, <2>3 DEF Back311
<1>2. CASE p.type \notin {"PINGREQ", "PINGRESP", "DISCONNECT"}
  <2>1. typeOf(header(p)) = p.type
    BY HeaderOf
  <2> QED BY <1>2, <2>1 DEF decodeEmpty
<1> QED BY <1>1, <1>2

\* The bytes of a packet, one by one
LEMMA FrameBytes ==
    ASSUME NEW p \in Packets, NEW v \in {V311, V5}, ~tooLarge(body(v, p))
    PROVE  LET n == Len(body(v, p))
           IN  /\ n \in Nat /\ n < varIntLimit /\ varIntLen(n) \in 1..4
               /\ bytes(v, p) \in Seq(Byte) /\ Len(bytes(v, p)) = 1 + varIntLen(n) + n
               /\ bytes(v, p)[1] = header(p)
               /\ \A i \in 1..varIntLen(n) : bytes(v, p)[i + 1] = varIntBytes(n)[i]
<1> DEFINE b == body(v, p)
           n == Len(b)
           l == varIntBytes(n)
           h == <<header(p)>>
           r == l \o b
<1>1. b \in Seq(Byte) /\ n \in Nat /\ n < varIntLimit
  <2>1. b \in Seq(Byte)
    BY BodyType
  <2>2. n \in Nat
    BY <2>1, LenProperties
  <2>3. n <= maxMsgSize
    BY <2>2, maxMsgSizeAssumption DEF tooLarge
  <2> HIDE DEF n
  <2>4. n < varIntLimit
    BY <2>2, <2>3, maxMsgSizeAssumption DEF varIntLimit
  <2> QED BY <2>1, <2>2, <2>4
<1>2. l \in Seq(Byte) /\ Len(l) = varIntLen(n) /\ varIntLen(n) \in 1..4
  BY <1>1, VarIntBytesType
<1>3. h \in Seq(Byte) /\ Len(h) = 1 /\ h[1] = header(p)
  BY HeaderOf, OneByte
<1>4. bytes(v, p) = h \o r /\ bytes(v, p) \in Seq(Byte)
  BY BytesAre
<1> DEFINE z == bytes(v, p)
<1>5. r \in Seq(Byte) /\ Len(r) = Len(l) + n
  <2> HIDE DEF l, b
  <2> QED BY <1>1, <1>2, Joined DEF n
<1>6. \A i \in 1..Len(l) : r[i] = l[i]
  <2> HIDE DEF l, b
  <2> QED BY <1>1, <1>2, FirstPart
<1> HIDE DEF h, r, z, l, n
<1>7. Len(z) = Len(h) + Len(r)
  BY <1>3, <1>4, <1>5, Joined DEF z
<1>8. z = cat(h, r)
  BY <1>4 DEF z, cat
<1>9. z[1] = header(p)
  <2>1. cat(h, r)[1] = h[1]
    BY <1>3, <1>5, CatFirst
  <2> QED BY <1>3, <1>8, <2>1
<1>10. ASSUME NEW i \in 1..varIntLen(n) PROVE z[i + 1] = l[i]
  <2>1. i \in 1..Len(r)
    BY <1>1, <1>2, <1>5
  <2>2. (h \o r)[1 + i] = r[i]
    <3>1. h \in Seq(Byte) /\ r \in Seq(Byte)
      BY <1>3, <1>5
    <3>2. \A j \in 1..Len(r) : (h \o r)[Len(h) + j] = r[j]
      BY <3>1, ConcatProperties
    <3> QED BY <1>3, <2>1, <3>2, Zenon
  <2>3. i + 1 = 1 + i
    BY <1>2
  <2> QED BY <1>2, <1>4, <1>6, <2>2, <2>3 DEF z
<1>11. Len(z) = 1 + varIntLen(n) + n
  BY <1>1, <1>2, <1>3, <1>5, <1>7
<1> QED BY <1>1, <1>2, <1>4, <1>9, <1>10, <1>11 DEF z, l, n

\* The facts about the beginning w of the bytes of a packet.
LEMMA CutBytes ==
    ASSUME NEW w \in Seq(Byte), NEW x \in Seq(Byte), x # <<>>, NEW z, z = cat(w, x)
    PROVE  /\ Len(w) \in Nat /\ Len(w) < Len(z)
           /\ \A i \in 1..Len(w) : w[i] = z[i]
<1>1. Len(w) \in Nat /\ Len(x) \in Nat /\ Len(x) # 0
  BY LenProperties, EmptySeq
<1>2. Len(z) = Len(w) + Len(x)
  BY CatLen
<1>3. \A i \in 1..Len(w) : w[i] = z[i]
  BY CatFirst
<1> QED BY <1>1, <1>2, <1>3

\* A packet that breaks off is not read, unless only its header mattered.
LEMMA TakenCut ==
    ASSUME NEW p \in Packets, ~tooLarge(body(V311, p)), NEW w \in Seq(Byte), NEW x \in Seq(Byte),
           x # <<>>, cat(w, x) = bytes(V311, p)
    PROVE  \/ decoded(V311, w) = bad
           \/ decoded(V311, w) = ok(received311(p)) /\ frameRest(w) = <<>>
<1> DEFINE n == Len(body(V311, p))
           z == bytes(V311, p)
           l == varIntLen(n)
           d == Tail(w)
           k == Len(w)
<1>0. V311 \in {V311, V5}
  OBVIOUS
<1>1. /\ n \in Nat /\ n < varIntLimit /\ l \in 1..4 /\ Len(z) = 1 + l + n
      /\ z[1] = header(p) /\ \A i \in 1..l : z[i + 1] = varIntBytes(n)[i]
  BY <1>0, FrameBytes
<1>2. k \in Nat /\ k < Len(z) /\ \A i \in 1..k : w[i] = z[i]
  <2>1. z = cat(w, x)
    OBVIOUS
  <2> HIDE DEF z
  <2> QED BY <2>1, CutBytes
<1> HIDE DEF n, z, k
<1>3. CASE w = <<>>
  BY <1>3 DEF decoded
<1>4. CASE w # <<>>
  <2>1. /\ d \in Seq(Byte) /\ Len(d) = k - 1 /\ k >= 1 /\ w[1] = header(p)
        /\ \A i \in 1..Len(d) : d[i] = z[i + 1]
    <3>1. d \in Seq(Byte) /\ Len(d) = k - 1 /\ \A i \in 1..Len(d) : d[i] = w[i + 1]
      BY <1>4, HeadTailProperties DEF k
    <3>2. k # 0
      BY <1>4, EmptySeq DEF k
    <3>3. k >= 1
      BY <1>2, <3>2
    <3>4. \A i \in 1..Len(d) : i + 1 \in 1..k
      <4> HIDE DEF d
      <4> QED BY <1>2, <3>1
    <3>5. \A i \in 1..Len(d) : d[i] = z[i + 1]
      BY <1>2, <3>1, <3>4, Zenon
    <3>6. w[1] = z[1]
      BY <1>2, <3>3
    <3> QED BY <1>1, <3>1, <3>3, <3>5, <3>6
  <2> HIDE DEF d
  <2>2. CASE Len(d) < l
    <3>1. Len(d) \in Nat /\ Len(d) <= 3
      BY <1>1, <1>2, <2>1, <2>2
    <3>2. \A i \in 1..Len(d) : d[i] >= 128
      <4> TAKE i \in 1..Len(d)
      <4>1. i \in 1..l /\ i < l
        BY <1>1, <2>2, <3>1
      <4>2. varIntBytes(n)[i] >= 128
        BY <1>1, <4>1, VarIntBytesType
      <4>3. d[i] = varIntBytes(n)[i]
        BY <1>1, <2>1, <4>1
      <4> QED BY <4>2, <4>3
    <3>3. lastByte(d) = Len(d) + 1 /\ getRemainLength(d).length = 0
      BY <2>1, <3>1, <3>2, LengthCut
    <3>4. remaining(w) = 0
      BY <3>3 DEF remaining, d
    <3>5. decoded(V311, w) = decodeEmpty(V311, header(p))
      BY <1>4, <2>1, <3>4 DEF decoded
    <3>6. frameRest(w) = <<>>
      <4>1. bodyStart(w) = 2 + Len(d)
        BY <3>1, <3>3 DEF bodyStart, d
      <4>2. bodyStart(w) + remaining(w) = k + 1
        BY <1>2, <2>1, <3>1, <3>4, <4>1
      <4>3. SubSeq(w, k + 1, k) = <<>>
        BY <1>2, SubSeqEmpty
      <4> QED BY <4>2, <4>3 DEF frameRest, k
    <3> QED BY <3>5, <3>6, HeaderAlone
  <2>3. CASE ~(Len(d) < l)
    <3>1. Len(d) \in Nat /\ Len(d) >= l
      BY <1>1, <1>2, <2>1, <2>3
    <3>2. \A i \in 1..l : d[i] = varIntBytes(n)[i]
      <4> TAKE i \in 1..l
      <4>1. i \in 1..Len(d)
        BY <1>1, <3>1
      <4> QED BY <1>1, <2>1, <4>1
    <3>3. lastByte(d) = l /\ getRemainLength(d) = [length |-> n, byteCount |-> l]
      BY <1>1, <2>1, <3>1, <3>2, LengthReadBack
    <3>4. remaining(w) = n
      <4>1. getRemainLength(d).length = n
        BY <3>3
      <4> QED BY <4>1 DEF remaining, d
    <3>5. bodyStart(w) = 2 + l
      <4>1. ~(l > Len(d))
        BY <1>1, <3>1
      <4> QED BY <3>3, <4>1 DEF bodyStart, d
    <3>6. ~wholeFrame(w) /\ n # 0
      BY <1>1, <1>2, <2>1, <3>1, <3>4, <3>5 DEF wholeFrame, k
    <3> QED BY <1>4, <3>4, <3>6 DEF decoded
  <2> QED BY <2>2, <2>3
<1> QED BY <1>3, <1>4

\* Nothing but what a packet that was too large left behind: not a packet.
LEMMA LeftIsBad ==
    ASSUME version = V311, NEW t, Left(t), NEW w \in Seq(Byte), NEW u \in Seq(Byte), cat(w, u) = t
    PROVE  decoded(V311, w) = bad
<1>1. t \in Seq(Byte) /\ Len(t) = IF sender = "failed" THEN 1 ELSE 0
  BY LeftType
<1>2. Len(w) \in Nat /\ Len(u) \in Nat /\ Len(t) = Len(w) + Len(u)
  BY LenProperties, CatLen
<1>3. CASE w = <<>>
  BY <1>3 DEF decoded
<1>4. CASE w # <<>>
  <2>1. Len(w) # 0
    BY <1>4, EmptySeq
  <2>2. Len(w) = 1 /\ sender = "failed"
    <3> DEFINE m == Len(w)
               n == Len(u)
               k == Len(t)
    <3>1. m \in Nat /\ n \in Nat /\ k = m + n /\ m # 0 /\ (k = 0 \/ k = 1)
      BY <1>1, <1>2, <2>1
    <3> HIDE DEF m, n, k
    <3>2. m = 1 /\ k # 0
      BY <3>1
    <3>3. sender = "failed"
      BY <1>1, <3>2 DEF k
    <3> QED BY <3>2, <3>3 DEF m
  <2>3. PICK p \in Packets : tooLarge(body(V311, p)) /\ t = <<header(p)>>
    BY <2>2 DEF Left
  <2>4. w[1] = header(p)
    <3>1. cat(w, u)[1] = w[1]
      BY <2>2, CatFirst
    <3>2. t[1] = header(p)
      BY <2>3
    <3> QED BY <3>1, <3>2
  <2>5. remaining(w) = 0
    <3> DEFINE d == Tail(w)
    <3>1. d \in Seq(Byte) /\ Len(d) = 0
      BY <1>4, <2>2, HeadTailProperties
    <3> HIDE DEF d
    <3>2. Len(d) <= 3 /\ \A i \in 1..Len(d) : d[i] >= 128
      BY <3>1
    <3>3. getRemainLength(d).length = 0
      BY <3>1, <3>2, LengthCut
    <3> QED BY <3>3 DEF remaining, d
  <2>6. p.type \notin {"PINGREQ", "PINGRESP", "DISCONNECT"}
    <3> SUFFICES ASSUME p.type \in {"PINGREQ", "PINGRESP", "DISCONNECT"} PROVE FALSE
      OBVIOUS
    <3>1. V311 \in {V311, V5}
      OBVIOUS
    <3>2. body(V311, p) = <<>>
      BY <3>1, BodyType
    <3>3. Len(body(V311, p)) = 0
      BY <3>2
    <3> QED BY <2>3, <3>3, maxMsgSizeAssumption DEF tooLarge
  <2>7. decoded(V311, w) = decodeEmpty(V311, header(p))
    BY <1>4, <2>4, <2>5 DEF decoded
  <2> QED BY <2>6, <2>7, HeaderAlone
<1> QED BY <1>3, <1>4

\* Only MQTT 5 has AUTH.
NoAuth == \A i \in 1..Len(unread) : unread[i].type # "AUTH"

\* The wire was cut: the rest u of the bytes is lost.
CutOff == \E t : \E u \in Seq(Byte) : Left(t) /\ cat(wire, u) = cat(frames(version, unread), t)

\* The first packet and the others, without AUTH.
LEMMA HeadNotAuth ==
    ASSUME NEW ps \in Seq(Packets), ps # <<>>, \A i \in 1..Len(ps) : ps[i].type # "AUTH"
    PROVE  Head(ps).type # "AUTH" /\ \A i \in 1..Len(Tail(ps)) : Tail(ps)[i].type # "AUTH"
<1>1. /\ Tail(ps) \in Seq(Packets) /\ Len(Tail(ps)) = Len(ps) - 1
      /\ \A i \in 1..Len(Tail(ps)) : Tail(ps)[i] = ps[i + 1]
  BY HeadTailProperties
<1>2. Len(ps) \in Nat /\ Len(ps) # 0 /\ Head(ps) = ps[1]
  BY LenProperties, EmptySeq
<1>3. 1 \in 1..Len(ps)
  BY <1>2
<1>4. ASSUME NEW i \in 1..Len(Tail(ps)) PROVE Tail(ps)[i].type # "AUTH"
  <2>1. i + 1 \in 1..Len(ps) /\ Tail(ps)[i] = ps[i + 1]
    BY <1>1, <1>2
  <2> QED BY <2>1
<1> QED BY <1>2, <1>3, <1>4

\* One more packet, without AUTH.
LEMMA AppendNotAuth ==
    ASSUME NEW ps \in Seq(Packets), NEW p \in Packets, \A i \in 1..Len(ps) : ps[i].type # "AUTH", p.type # "AUTH"
    PROVE  \A i \in 1..Len(Append(ps, p)) : Append(ps, p)[i].type # "AUTH"
<1> TAKE i \in 1..Len(Append(ps, p))
<1>1. /\ Len(Append(ps, p)) = Len(ps) + 1 /\ Len(ps) \in Nat
      /\ \A j \in 1..Len(ps) : Append(ps, p)[j] = ps[j]
      /\ Append(ps, p)[Len(ps) + 1] = p
  BY AppendProperties, LenProperties
<1>2. i \in 1..Len(ps) \/ i = Len(ps) + 1
  BY <1>1
<1> QED BY <1>1, <1>2

\* A step of Decode on a wire that was cut
LEMMA DecodeCut ==
    ASSUME TypeOK, UnreadOK, version = V311, NoAuth, CutOff
    PROVE  \/ decoded(version, wire) = bad
           \/ /\ unread # <<>> /\ decoded(version, wire) = ok(received311(Head(unread)))
              /\ \E t : \E u \in Seq(Byte) :
                    Left(t) /\ cat(frameRest(wire), u) = cat(frames(version, Tail(unread)), t)
<1>0. V311 \in {V311, V5} /\ unread \in Seq(Packets) /\ wire \in Seq(Byte)
  BY DEF TypeOK
<1>1. PICK t : \E u \in Seq(Byte) : Left(t) /\ cat(wire, u) = cat(frames(version, unread), t)
  BY DEF CutOff
<1>2. PICK u \in Seq(Byte) : Left(t) /\ cat(wire, u) = cat(frames(version, unread), t)
  BY <1>1
<1>3. t \in Seq(Byte)
  BY <1>2, LeftType
<1>4. CASE unread = <<>>
  <2>1. frames(version, unread) = <<>>
    BY <1>4, FramesEmpty
  <2>2. cat(<<>>, t) = t
    BY <1>3, ConcatEmptySeq DEF cat
  <2>3. cat(wire, u) = t
    BY <1>2, <2>1, <2>2, Zenon
  <2> QED BY <1>0, <1>2, <2>3, LeftIsBad
<1>5. CASE unread # <<>>
  <2> DEFINE p == Head(unread)
             b == bytes(V311, p)
             f == frames(V311, Tail(unread))
             s == cat(f, t)
  <2>1. p \in Packets /\ ~tooLarge(body(V311, p)) /\ Tail(unread) \in Seq(Packets)
    BY <1>0, <1>5, UnreadLess DEF UnreadOK
  <2>2. p.type # "AUTH"
    BY <1>0, <1>5, HeadNotAuth DEF NoAuth
  <2>3. b \in Seq(Byte) /\ f \in Seq(Byte)
    BY <1>0, <2>1, BytesAre, FramesType
  <2>4. frames(version, unread) = cat(b, f)
    BY <1>0, <1>5, FramesHead DEF cat
  <2> HIDE DEF b, f, p
  <2>5. s \in Seq(Byte) /\ cat(cat(b, f), t) = cat(b, s)
    BY <1>3, <2>3, CatType, CatAssoc
  <2>6. cat(wire, u) = cat(b, s)
    BY <1>2, <2>4, <2>5, Zenon
  <2> HIDE DEF s
  <2>7. WholeIn(b, s, wire, u) \/ PartOf(wire, b)
    <3>1. wire \in Seq(Byte) /\ b \in Seq(Byte) /\ s \in Seq(Byte)
      BY <1>0, <2>3, <2>5
    <3> QED BY <2>6, <3>1, Splits
  <2>8. CASE WholeIn(b, s, wire, u)
    <3>1. PICK x \in Seq(Byte) : wire = cat(b, x) /\ cat(x, u) = s
      BY <2>8 DEF WholeIn
    <3>2. decoded(V311, b \o x) = ok(received311(p)) /\ frameRest(b \o x) = x
      BY <2>1, <2>2, Taken DEF b
    <3>3. wire = b \o x
      BY <3>1 DEF cat
    <3>4. decoded(V311, wire) = ok(received311(p)) /\ frameRest(wire) = x
      BY <3>2, <3>3, Zenon
    <3>5. cat(frameRest(wire), u) = cat(frames(version, Tail(unread)), t)
      BY <3>1, <3>4, Zenon DEF s, f
    <3> QED BY <1>2, <1>5, <3>4, <3>5 DEF p
  <2>9. CASE PartOf(wire, b)
    <3>1. PICK x \in Seq(Byte) : x # <<>> /\ cat(wire, x) = b
      BY <2>9 DEF PartOf
    <3>2. \/ decoded(V311, wire) = bad
          \/ decoded(V311, wire) = ok(received311(p)) /\ frameRest(wire) = <<>>
      BY <1>0, <2>1, <3>1, TakenCut DEF b
    <3>3. cat(<<>>, s) = s
      BY <2>5, ConcatEmptySeq DEF cat
    <3>4. frameRest(wire) = <<>> => cat(frameRest(wire), s) = cat(frames(version, Tail(unread)), t)
      BY <3>3 DEF s, f
    <3> QED BY <1>2, <1>5, <2>5, <3>2, <3>4 DEF p
  <2> QED BY <2>7, <2>8, <2>9
<1> QED BY <1>4, <1>5

-----------------------------------------------------------------------------
(* The invariant behind RoundTrip and ReadsWhatIsWritten *)
Reads311 ==
    version = V311 =>
        /\ NoAuth
        /\ open => reader = "reading"
        /\ ~open /\ reader = "reading" => CutOff
        /\ last.ok => last.of.type # "none" /\ last.pkt = received311(last.of)

\* Nothing was read yet on a new connection.
LEMMA ReadsStarts == Init => Reads311
<1> SUFFICES ASSUME Init PROVE Reads311
  OBVIOUS
<1>1. NoAuth
  <2>1. Len(unread) = 0
    BY EmptySeq DEF Init
  <2> QED BY <2>1 DEF NoAuth
<1>2. last.ok = FALSE
  BY DEF Init, nothing
<1> QED BY <1>1, <1>2 DEF Init, Reads311

\* What becomes of a packet that was read
LEMMA ReceivedIs ==
    ASSUME NEW p \in Packets, NEW q, received(ok(q), p)
    PROVE  /\ wire' = frameRest(wire) /\ reader' = reader
           /\ unread' = IF unread = <<>> THEN <<>> ELSE Tail(unread)
           /\ last'.ok = TRUE /\ last'.pkt = q /\ last'.of = p /\ last'.of.type # "none"
<1>1. ok(q).ok = TRUE /\ ok(q).pkt = q
  BY Zenon DEF ok
<1>2. /\ last' = [ok |-> TRUE, pkt |-> ok(q).pkt, of |-> p] /\ wire' = frameRest(wire) /\ reader' = reader
      /\ unread' = IF unread = <<>> THEN <<>> ELSE Tail(unread)
  BY <1>1, Zenon DEF received
<1>3. last' = [ok |-> TRUE, pkt |-> q, of |-> p]
  BY <1>1, <1>2, Zenon
<1>4. last'.ok = TRUE /\ last'.pkt = q /\ last'.of = p
  BY <1>3
<1>5. p.type # "none"
  BY PacketType DEF Types
<1> QED BY <1>2, <1>4, <1>5, Zenon

\* What becomes of the connection when Decode failed.
LEMMA ReceivedBad ==
    ASSUME NEW p, received(bad, p)
    PROVE  wire' = wire /\ unread' = unread /\ reader' = "stopped" /\ last'.ok = FALSE
<1>1. bad.ok = FALSE
  BY DEF bad
<1>2. last' = [ok |-> FALSE, of |-> p] /\ wire' = wire /\ unread' = unread /\ reader' = "stopped"
  BY <1>1, Zenon DEF received
<1>3. last'.ok = FALSE
  BY <1>2
<1> QED BY <1>2, <1>3

\* Every step keeps the invariant.
LEMMA ReadsStep == Sync /\ Reads311 /\ [Next]_vars => Reads311'
<1> SUFFICES ASSUME Sync, Reads311, [Next]_vars PROVE Reads311'
  OBVIOUS
<1> SUFFICES ASSUME version' = V311
             PROVE  /\ NoAuth'
                    /\ open' => reader' = "reading"
                    /\ ~open' /\ reader' = "reading" => CutOff'
                    /\ last'.ok => last'.of.type # "none" /\ last'.pkt = received311(last'.of)
  BY DEF Reads311
<1>0. /\ TypeOK /\ version = V311 /\ UnreadOK /\ wire \in Seq(Byte) /\ unread \in Seq(Packets) /\ open \in BOOLEAN
      /\ version' = version
  BY DEF Sync, TypeOK, Next, WriteTo, Cut, Decode, vars
<1>i. /\ NoAuth /\ (open => reader = "reading")
      /\ ~open /\ reader = "reading" => CutOff
      /\ last.ok => last.of.type # "none" /\ last.pkt = received311(last.of)
  BY <1>0 DEF Reads311
<1> DEFINE Goal == /\ NoAuth'
                   /\ open' => reader' = "reading"
                   /\ ~open' /\ reader' = "reading" => CutOff'
                   /\ last'.ok => last'.of.type # "none" /\ last'.pkt = received311(last'.of)
<1>1. ASSUME NEW p \in Packets, WriteTo(p) PROVE Goal
  <2>1. open /\ open' = open /\ reader' = reader /\ last' = last /\ p.type # "AUTH"
    BY <1>0, <1>1, Versions45 DEF WriteTo
  <2>2. unread' = unread \/ unread' = Append(unread, p)
    BY <1>1 DEF WriteTo
  <2>3. NoAuth'
    BY <1>0, <1>1, <1>i, <2>1, <2>2, AppendNotAuth DEF NoAuth
  <2> QED BY <1>i, <2>1, <2>3
<1>2. ASSUME NEW k \in 0..Len(wire), Cut(k) PROVE Goal
  <2>1. /\ open /\ open' = FALSE /\ reader' = reader /\ last' = last /\ unread' = unread /\ sender' = sender
        /\ wire' = SubSeq(wire, 1, k)
    BY <1>2 DEF Cut
  <2>2. PICK t : Left(t) /\ wire = frames(version, unread) \o t
    BY <1>i, <2>1 DEF Sync, Holds
  <2>3. PICK u \in Seq(Byte) : SubSeq(wire, 1, k) \o u = wire
    BY <1>0, <1>2, Cuts
  <2>4. cat(wire', u) = cat(frames(version, unread), t)
    BY <2>1, <2>2, <2>3, Zenon DEF cat
  <2>5. Left(t)'
    BY <1>0, <2>1, <2>2 DEF Left
  <2>6. CutOff'
    BY <1>0, <2>1, <2>4, <2>5 DEF CutOff
  <2>7. NoAuth'
    BY <1>i, <2>1 DEF NoAuth
  <2> QED BY <1>i, <2>1, <2>6, <2>7
<1>3. ASSUME Decode PROVE Goal
  <2>0. /\ open' = open /\ sender' = sender /\ reader = "reading"
        /\ received(decoded(version, wire), IF unread = <<>> THEN [type |-> "none"] ELSE Head(unread))
    BY <1>3 DEF Decode
  <2>1. CASE open
    <3> DEFINE p == Head(unread)
    <3>1. unread # <<>> /\ p \in Packets /\ ~tooLarge(body(version, p))
      BY <1>3, <2>1, DecodeOpen
    <3>2. PICK s \in Seq(Byte) : received(decoded(version, bytes(version, p) \o s), p)
      BY <1>3, <2>1, DecodeOpen
    <3>3. p.type # "AUTH" /\ \A i \in 1..Len(Tail(unread)) : Tail(unread)[i].type # "AUTH"
      BY <1>0, <1>i, <3>1, HeadNotAuth DEF NoAuth
    <3> HIDE DEF p
    <3>4. decoded(V311, bytes(V311, p) \o s) = ok(received311(p))
      BY <1>0, <3>1, <3>3, Taken
    <3>5. received(ok(received311(p)), p)
      BY <1>0, <3>2, <3>4, Zenon
    <3>6. /\ reader' = reader /\ unread' = IF unread = <<>> THEN <<>> ELSE Tail(unread)
          /\ last'.ok = TRUE /\ last'.pkt = received311(p) /\ last'.of = p /\ last'.of.type # "none"
      BY <3>1, <3>5, ReceivedIs
    <3>7. unread' = Tail(unread)
      BY <3>1, <3>6
    <3>8. NoAuth'
      BY <3>3, <3>7 DEF NoAuth
    <3> QED BY <2>0, <2>1, <3>6, <3>8
  <2>2. CASE ~open
    <3>0. CutOff
      BY <1>i, <2>0, <2>2
    <3>1. CASE decoded(version, wire) = bad
      <4>1. unread' = unread /\ reader' = "stopped" /\ last'.ok = FALSE
        BY <2>0, <3>1, ReceivedBad
      <4>2. NoAuth'
        BY <1>i, <4>1 DEF NoAuth
      <4> QED BY <2>0, <2>2, <4>1, <4>2
    <3>2. CASE /\ unread # <<>> /\ decoded(version, wire) = ok(received311(Head(unread)))
               /\ \E t : \E u \in Seq(Byte) :
                     Left(t) /\ cat(frameRest(wire), u) = cat(frames(version, Tail(unread)), t)
      <4> DEFINE p == Head(unread)
      <4>1. p \in Packets /\ \A i \in 1..Len(Tail(unread)) : Tail(unread)[i].type # "AUTH"
        BY <1>0, <1>i, <3>2, HeadNotAuth, HeadTailProperties DEF NoAuth
      <4> HIDE DEF p
      <4>2. received(ok(received311(p)), p)
        BY <2>0, <3>2, Zenon DEF p
      <4>3. /\ wire' = frameRest(wire) /\ reader' = reader
            /\ unread' = IF unread = <<>> THEN <<>> ELSE Tail(unread)
            /\ last'.ok = TRUE /\ last'.pkt = received311(p) /\ last'.of = p /\ last'.of.type # "none"
        BY <4>1, <4>2, ReceivedIs
      <4>4. unread' = Tail(unread)
        BY <3>2, <4>3
      <4>5. NoAuth'
        BY <4>1, <4>4 DEF NoAuth
      <4>6. PICK t : \E u \in Seq(Byte) :
                        Left(t) /\ cat(frameRest(wire), u) = cat(frames(version, Tail(unread)), t)
        BY <3>2
      <4>7. Left(t)'
        BY <1>0, <2>0, <4>6 DEF Left
      <4>8. CutOff'
        BY <1>0, <4>3, <4>4, <4>6, <4>7, Zenon DEF CutOff
      <4> QED BY <2>0, <2>2, <4>3, <4>5, <4>8
    <3> QED BY <1>0, <1>i, <3>0, <3>1, <3>2, DecodeCut
  <2> QED BY <2>1, <2>2
<1>4. CASE UNCHANGED vars
  <2>1. NoAuth' = NoAuth /\ CutOff' = CutOff
    BY <1>4 DEF vars, NoAuth, CutOff, Left
  <2> QED BY <1>4, <1>i, <2>1 DEF vars
<1> QED BY <1>1, <1>2, <1>3, <1>4 DEF Next

\* The invariant of the reader of MQTT 3.1.1.
LEMMA ReadsAlways == Spec => [](Sync /\ Reads311)
<1>1. Init => Sync /\ Reads311
  BY SyncStarts, ReadsStarts
<1>2. Sync /\ Reads311 /\ [Next]_vars => (Sync /\ Reads311)'
  BY SyncStep, ReadsStep
<1> QED BY <1>1, <1>2, PTL DEF Spec

\* With MQTT 3.1.1, every packet that Decode returns is the one that was written,
\* whatever the packets and wherever the connection was cut.
THEOREM RoundTrips == Spec => []RoundTrip
<1>1. Sync /\ Reads311 => RoundTrip
  BY DEF Reads311, RoundTrip
<1> QED BY <1>1, ReadsAlways, PTL

\* With MQTT 3.1.1, Decode fails only after the connection is lost or the writer
\* gave up: no sequence of packets makes it fail.
THEOREM EverythingRead == Spec => []ReadsWhatIsWritten
<1>1. Sync /\ Reads311 => ReadsWhatIsWritten
  BY DEF Reads311, ReadsWhatIsWritten
<1> QED BY <1>1, ReadsAlways, PTL

-----------------------------------------------------------------------------
(* MQTT 5: the loop over the properties *)

valueLen(b, i) == propLen(SubSeq(b, i, Len(b)))

propStep(f, b, i) ==
    IF i > Len(b) THEN [ok |-> TRUE, props |-> noProps]
    ELSE IF valueLen(b, i) = badLen \/ i + valueLen(b, i) > Len(b) THEN [ok |-> FALSE, props |-> noProps]
    ELSE inFront(b[i], SubSeq(b, i + 1, i + valueLen(b, i)), f[i + 1 + valueLen(b, i)])

\* f is the function of readProps, from position m on.
PropsFrom(f, m, b) == f = [i \in m..(Len(b) + 1) |-> propStep(f, b, i)]

\* readProps returns the first value of a function that satisfies its equation.
LEMMA ReadPropsIs ==
    ASSUME NEW b
    PROVE  readProps(b) = (CHOOSE f : PropsFrom(f, 1, b))[1]
BY Zenon DEF readProps, PropsFrom, propStep, valueLen

\* A 16 bit number that is read is a number.
LEMMA Uint16Nat ==
    ASSUME NEW d, d[1] \in Byte, d[2] \in Byte
    PROVE  getUint16(d) \in Nat
<1> DEFINE x == d[1]
           y == d[2]
<1>1. x \in Byte /\ y \in Byte
  OBVIOUS
<1>2. getUint16(d) = x * 256 + y
  BY DEF getUint16
<1> HIDE DEF x, y
<1> QED BY <1>1, <1>2 DEF Byte

\* getRemainLength counts the bytes it used.
LEMMA CountNat ==
    ASSUME NEW d \in Seq(Byte)
    PROVE  getRemainLength(d).byteCount \in Nat
<1> DEFINE k == lastByte(d)
<1>1. k \in 1..4
  BY LastByteRange
<1> HIDE DEF k
<1>2. CASE k > Len(d)
  <2>1. lengthUpTo(d, k) = [length |-> 0, byteCount |-> 0]
    BY <1>2 DEF lengthUpTo
  <2> QED BY <2>1 DEF getRemainLength, k
<1>3. CASE ~(k > Len(d))
  <2>1. lengthUpTo(d, k).byteCount = IF k = 4 /\ d[4] >= 128 THEN 5 ELSE k
    BY <1>3 DEF lengthUpTo
  <2>2. lengthUpTo(d, k).byteCount \in Nat
    BY <1>1, <2>1
  <2> QED BY <2>2 DEF getRemainLength, k
<1> QED BY <1>2, <1>3

\* The loop never goes back.
LEMMA PropLenRange ==
    ASSUME NEW b \in Seq(Byte), b # <<>>
    PROVE  propLen(b) \in Nat \/ propLen(b) = badLen
<1> DEFINE r == Tail(b)
           u == getUint16(r)
           e == (3 + u) % 65536
           key == (2 + u) % 65536
           s == SubSeq(b, key + 2, key + 3)
           v == getUint16(s)
           val == (2 + key + v) % 65536
           c == getRemainLength(r).byteCount
<1>1. r \in Seq(Byte) /\ \A i \in 1..Len(r) : r[i] \in Byte
  <2>1. r \in Seq(Byte)
    BY HeadTailProperties
  <2> HIDE DEF r
  <2> QED BY <2>1, ElementOfSeq
<1>2. Len(r) >= 2 => u \in Nat
  <2> SUFFICES ASSUME Len(r) >= 2 PROVE u \in Nat
    OBVIOUS
  <2>0. Len(r) \in Nat
    BY <1>1, LenProperties
  <2>1. 1 \in 1..Len(r) /\ 2 \in 1..Len(r)
    <3> HIDE DEF r
    <3> QED BY <2>0
  <2>2. r[1] \in Byte /\ r[2] \in Byte
    BY <1>1, <2>1
  <2> HIDE DEF r
  <2> QED BY <2>2, Uint16Nat
<1>3. Len(r) >= 2 => e - 1 \in Nat \/ e - 1 = badLen
  <2> HIDE DEF u, r
  <2> QED BY <1>2 DEF badLen
<1>4. Len(r) >= 2 => key \in Nat
  <2> HIDE DEF u, r
  <2> QED BY <1>2
<1>5. Len(r) >= 2 /\ Len(b) >= key + 3 => val \in Nat
  <2> SUFFICES ASSUME Len(r) >= 2, Len(b) >= key + 3 PROVE val \in Nat
    OBVIOUS
  <2>1. key \in Nat
    BY <1>4
  <2> HIDE DEF key, r
  <2>2. Len(b) \in Nat /\ \A i \in 1..Len(b) : b[i] \in Byte
    BY LenProperties, ElementOfSeq
  <2>3. s[1] = b[key + 2] /\ s[2] = b[key + 3]
    BY <2>1
  <2>4. key + 2 \in 1..Len(b) /\ key + 3 \in 1..Len(b)
    BY <2>1, <2>2
  <2>5. s[1] \in Byte /\ s[2] \in Byte
    BY <2>2, <2>3, <2>4
  <2> HIDE DEF s
  <2>6. v \in Nat
    BY <2>5, Uint16Nat
  <2> HIDE DEF v
  <2> QED BY <2>1, <2>6
<1>6. c \in Nat
  <2>1. r \in Seq(Byte)
    BY <1>1
  <2> HIDE DEF r
  <2> QED BY <2>1, CountNat
<1> DEFINE one == b[1] \in oneByteKeys
           two == b[1] \in twoByteKeys
           four == b[1] \in fourByteKeys
           pre == b[1] \in prefixedKeys /\ Len(r) >= 2
           id == b[1] = propKeySubID
           us == b[1] = propKeyUserProps /\ Len(r) >= 2 /\ Len(b) >= key + 3
<1>7. propLen(b) = CASE one -> 1 [] two -> 2 [] four -> 4 [] pre -> e - 1 [] id -> c [] us -> val [] OTHER -> badLen
  BY DEF propLen
<1>8. (pre => e - 1 \in Nat \/ e - 1 = badLen) /\ (us => val \in Nat)
  BY <1>3, <1>5
<1> HIDE DEF one, two, four, pre, id, us, e, c, val
<1> QED BY <1>6, <1>7, <1>8

\* A step looks only at what is behind it.
LEMMA PropStepAgree ==
    ASSUME NEW b \in Seq(Byte), NEW i \in 1..(Len(b) + 1), NEW f, NEW g,
           \A j \in (i + 1)..(Len(b) + 1) : f[j] = g[j]
    PROVE  propStep(f, b, i) = propStep(g, b, i)
<1> DEFINE n == valueLen(b, i)
<1>1. Len(b) \in Nat
  BY LenProperties
<1>2. CASE i > Len(b) \/ n = badLen \/ i + n > Len(b)
  BY <1>2 DEF propStep
<1>3. CASE ~(i > Len(b)) /\ n # badLen /\ ~(i + n > Len(b))
  <2> DEFINE s == from(b, i)
  <2>1. s \in Seq(Byte)
    BY FromType
  <2>2. s # <<>>
    <3>1. i \in 1..Len(b)
      BY <1>1, <1>3
    <3>2. Len(s) = Len(b) - i + 1
      BY <1>1, <3>1 DEF from
    <3>3. Len(s) # 0
      <4> HIDE DEF s
      <4> QED BY <1>1, <3>1, <3>2
    <3> QED BY <2>1, <3>3, EmptySeq
  <2> HIDE DEF s
  <2>3. n = propLen(s)
    BY DEF s, from, valueLen
  <2>4. n \in Nat
    BY <1>3, <2>1, <2>2, <2>3, PropLenRange
  <2> HIDE DEF n
  <2>5. i + 1 + n \in (i + 1)..(Len(b) + 1)
    BY <1>1, <1>3, <2>4
  <2>6. f[i + 1 + n] = g[i + 1 + n]
    BY <2>5
  <2> QED BY <2>6 DEF propStep, n
<1> QED BY <1>2, <1>3

\* There is a function that satisfies the equation: it is built from the end.
LEMMA PropsExist ==
    ASSUME NEW b \in Seq(Byte)
    PROVE  \E f : PropsFrom(f, 1, b)
<1> DEFINE n == Len(b) + 1
           Is(k) == k <= n => \E f : PropsFrom(f, n - k + 1, b)
           T == {k \in Nat : Is(k)}
<1>0. n \in Nat /\ n >= 1
  BY LenProperties
<1>1. 0 \in T
  <2> DEFINE f == [i \in {} |-> <<>>]
  <2>1. (n - 0 + 1)..n = {}
    BY <1>0
  <2>2. [i \in (n - 0 + 1)..n |-> propStep(f, b, i)] = f
    BY <2>1
  <2>3. PropsFrom(f, n - 0 + 1, b)
    BY <2>2 DEF PropsFrom
  <2> HIDE DEF f
  <2>4. Is(0)
    BY <2>3
  <2> HIDE DEF Is
  <2> QED BY <2>4
<1>2. ASSUME NEW k \in Nat, k \in T
      PROVE  k + 1 \in T
  <2> SUFFICES ASSUME k + 1 <= n PROVE \E g : PropsFrom(g, n - (k + 1) + 1, b)
    BY <1>2
  <2> DEFINE m == n - k
  <2>0. m \in 1..n /\ m \in Nat /\ n - (k + 1) + 1 = m /\ n - k + 1 = m + 1 /\ k <= n
    BY <1>0, <1>2
  <2>1. PICK f : PropsFrom(f, m + 1, b)
    BY <1>2, <2>0
  <2>2. f = [i \in (m + 1)..n |-> propStep(f, b, i)]
    BY <2>1 DEF PropsFrom
  <2> HIDE DEF m
  <2> DEFINE g == [i \in m..n |-> IF i = m THEN propStep(f, b, m) ELSE f[i]]
  <2>3. \A j \in (m + 1)..n : f[j] = g[j]
    BY <1>0, <2>0
  <2>4. ASSUME NEW i \in m..n PROVE g[i] = propStep(g, b, i)
    <3>1. i \in 1..n /\ \A j \in (i + 1)..n : j \in (m + 1)..n
      BY <1>0, <2>0
    <3>2. \A j \in (i + 1)..n : f[j] = g[j]
      BY <2>3, <3>1
    <3>3. propStep(f, b, i) = propStep(g, b, i)
      <4> HIDE DEF g
      <4> QED BY <3>1, <3>2, PropStepAgree
    <3>4. g[i] = propStep(f, b, i)
      <4>1. CASE i = m
        BY <4>1
      <4>2. CASE i # m
        <5>1. i \in (m + 1)..n
          BY <1>0, <2>0, <4>2
        <5>2. f[i] = propStep(f, b, i)
          <6> HIDE DEF g, n
          <6> QED BY <2>2, <5>1, Zenon
        <5> QED BY <4>2, <5>2
      <4> QED BY <4>1, <4>2
    <3> QED BY <3>3, <3>4
  <2>5. g = [i \in m..n |-> g[i]]
    OBVIOUS
  <2> HIDE DEF g
  <2>6. g = [i \in m..n |-> propStep(g, b, i)]
    BY <2>4, <2>5, Zenon
  <2>7. PropsFrom(g, m, b)
    BY <2>6 DEF PropsFrom
  <2> QED BY <2>0, <2>7
<1>3. Nat \subseteq T
  <2> HIDE DEF Is
  <2> QED BY <1>1, <1>2, Induct
<1>4. Is(n)
  BY <1>0, <1>3
<1>5. n <= n /\ n - n + 1 = 1
  BY <1>0
<1> QED BY <1>4, <1>5

\* readProps by what it does at each position.
LEMMA PropsAre ==
    ASSUME NEW b \in Seq(Byte)
    PROVE  \E f : /\ readProps(b) = f[1]
                  /\ \A i \in 1..(Len(b) + 1) : f[i] = propStep(f, b, i)
<1> DEFINE f == CHOOSE f : PropsFrom(f, 1, b)
<1>1. PropsFrom(f, 1, b)
  BY PropsExist, Zenon
<1>2. readProps(b) = f[1]
  BY ReadPropsIs
<1> HIDE DEF f
<1>3. \A i \in 1..(Len(b) + 1) : f[i] = propStep(f, b, i)
  BY <1>1, Zenon DEF PropsFrom
<1> QED BY <1>2, <1>3

\* Properties that were read
PropsRead(q) == [ok |-> TRUE, props |-> q]

\* No bytes, no properties.
LEMMA ReadNoProps == readProps(<<>>) = PropsRead(noProps)
<1> DEFINE b == <<>>
<1>1. b \in Seq(Byte) /\ Len(b) = 0
  BY EmptySeq
<1> HIDE DEF b
<1>2. PICK f : /\ readProps(b) = f[1]
               /\ \A i \in 1..(Len(b) + 1) : f[i] = propStep(f, b, i)
  BY <1>1, PropsAre
<1>3. 1 \in 1..(Len(b) + 1) /\ 1 > Len(b)
  BY <1>1
<1>4. propStep(f, b, 1) = PropsRead(noProps)
  BY <1>3 DEF propStep, PropsRead
<1> QED BY <1>2, <1>3, <1>4 DEF b

\* The properties and what follows them, as writeV5 puts them
Raw(q, r) == [ok |-> TRUE, props |-> q, next |-> r]

\* getRawProps finds the property bytes and what follows them.
LEMMA RawPropsBack ==
    ASSUME NEW x \in Seq(Byte), Len(x) < varIntLimit, NEW q, readProps(x) = PropsRead(q), NEW r \in Seq(Byte)
    PROVE  getRawProps(varIntBytes(Len(x)) \o (x \o r)) = Raw(q, r)
<1> DEFINE n == Len(x)
           a == varIntBytes(n)
           k == varIntLen(n)
           d == a \o (x \o r)
<1>1. n \in Nat /\ n < varIntLimit
  BY LenProperties
<1>2. a \in Seq(Byte) /\ Len(a) = k /\ k \in 1..4
  BY <1>1, VarIntBytesType
<1> HIDE DEF n, k
<1>3. /\ SubSeq(d, Len(a) + 1, Len(a) + Len(x)) = x
      /\ SubSeq(d, (Len(a) + Len(x)) + 1, Len(d)) = r
      /\ Len(d) = Len(a) + Len(x) + Len(r)
  <2>1. a \in Seq(Byte)
    BY <1>2
  <2> HIDE DEF a
  <2> QED BY <2>1, Parts, SMTT(30)
<1>4. d \in Seq(Byte) /\ \A i \in 1..k : d[i] = a[i]
  <2> DEFINE c == x \o r
  <2>1. c \in Seq(Byte)
    BY Joined
  <2> HIDE DEF a, c
  <2>2. a \o c \in Seq(Byte) /\ \A i \in 1..Len(a) : (a \o c)[i] = a[i]
    BY <1>2, <2>1, Joined, FirstPart
  <2> QED BY <1>2, <2>2 DEF c
<1> HIDE DEF d
<1>5. Len(r) \in Nat
  BY LenProperties
<1>6. Len(d) >= k
  BY <1>1, <1>2, <1>3, <1>5 DEF n
<1>7. getRemainLength(d) = [length |-> n, byteCount |-> k]
  BY <1>1, <1>4, <1>6, LengthReadBack DEF k
<1>8. getRemainLength(d).length = n /\ getRemainLength(d).byteCount = k
  BY <1>7
<1>9. getRawProps(d) = propsAndRest(d, k, k + n)
  BY <1>8, Zenon DEF getRawProps
<1>10. SubSeq(d, k + 1, k + n) = x /\ SubSeq(d, (k + n) + 1, Len(d)) = r /\ ~(k + n > Len(d))
  <2>1. SubSeq(d, k + 1, k + n) = x /\ SubSeq(d, (k + n) + 1, Len(d)) = r
    BY <1>2, <1>3, Zenon DEF n
  <2>2. Len(d) = k + n + Len(r)
    BY <1>2, <1>3 DEF n
  <2>3. ~(k + n > Len(d))
    BY <1>1, <1>2, <1>5, <2>2
  <2> QED BY <2>1, <2>3
<1>11. readProps(x).ok = TRUE /\ readProps(x).props = q
  <2>1. PropsRead(q).ok = TRUE /\ PropsRead(q).props = q
    BY Zenon DEF PropsRead
  <2> QED BY <2>1, Zenon
<1>12. propsAndRest(d, k, k + n) = Raw(q, r)
  BY <1>10, <1>11, Zenon DEF propsAndRest, Raw
<1> QED BY <1>9, <1>12 DEF d, a, n

\* A zero: no properties.
LEMMA RawNone ==
    ASSUME NEW r \in Seq(Byte)
    PROVE  getRawProps(<<0>> \o r) = Raw(noProps, r)
<1> DEFINE x == <<>>
<1>1. x \in Seq(Byte) /\ Len(x) = 0 /\ readProps(x) = PropsRead(noProps)
  BY EmptySeq, ReadNoProps
<1>2. Len(x) < varIntLimit
  BY <1>1 DEF varIntLimit
<1>3. x \o r = r
  BY ConcatEmptySeq
<1> HIDE DEF x
<1>4. getRawProps(varIntBytes(Len(x)) \o (x \o r)) = Raw(noProps, r)
  BY <1>1, <1>2, RawPropsBack
<1> QED BY <1>1, <1>3, <1>4, VarIntZero, Zenon

\* Nothing at all: no properties either.
LEMMA RawEmpty == getRawProps(<<>>) = Raw(noProps, <<>>)
<1> DEFINE d == <<>>
<1>1. d \in Seq(Byte) /\ Len(d) = 0
  BY EmptySeq
<1>e. SubSeq(d, 0 + 1, 0 + 0) = d /\ SubSeq(d, (0 + 0) + 1, Len(d)) = d
  <2>1. SubSeq(d, 1, 0) = <<>>
    OBVIOUS
  <2> QED BY <1>1, <2>1
<1> HIDE DEF d
<1>2. getRemainLength(d) = [length |-> 0, byteCount |-> 0]
  <2>1. lastByte(d) > Len(d)
    BY <1>1, LastByteRange
  <2> QED BY <2>1 DEF getRemainLength, lengthUpTo
<1>3. getRemainLength(d).length = 0 /\ getRemainLength(d).byteCount = 0
  BY <1>2
<1>4. getRawProps(d) = propsAndRest(d, 0, 0 + 0)
  BY <1>3, Zenon DEF getRawProps
<1>5. readProps(d).ok = TRUE /\ readProps(d).props = noProps
  <2>1. PropsRead(noProps).ok = TRUE /\ PropsRead(noProps).props = noProps
    BY Zenon DEF PropsRead
  <2> QED BY <2>1, ReadNoProps, Zenon DEF d
<1>6. ~(0 + 0 > Len(d))
  BY <1>1
<1>7. propsAndRest(d, 0, 0 + 0) = Raw(noProps, d)
  BY <1>e, <1>5, <1>6, Zenon DEF propsAndRest, Raw
<1> QED BY <1>4, <1>7 DEF d

\* A setProps method sets nothing if nothing was read.
LEMMA SetNoProps == ASSUME NEW keys PROVE setProps(keys, noProps) = noProps
<1> DEFINE S == {k \in DOMAIN noProps : k \in keys.read}
<1>1. setProps(keys, noProps) = [k \in S |-> noProps[k]]
  BY DEF setProps, RestrictDomain, Restrict
<1>2. S = {}
  BY NoKeys
<1> QED BY <1>1, <1>2 DEF noProps

\* A length of four bytes stays below the limit.
LEMMA LengthLimit ==
    ASSUME NEW d \in Seq(Byte)
    PROVE  getRemainLength(d).length < varIntLimit
<1> DEFINE k == lastByte(d)
<1>1. k \in 1..4
  BY LastByteRange
<1>2. Len(d) \in Nat /\ \A i \in 1..Len(d) : d[i] \in Byte
  BY LenProperties, ElementOfSeq
<1> HIDE DEF k
<1>3. CASE k > Len(d)
  BY <1>3 DEF getRemainLength, lengthUpTo, varIntLimit, k
<1>4. CASE ~(k > Len(d))
  <2> DEFINE part(i) == IF i <= k THEN (d[i] % 128) * weight[i] ELSE 0
  <2>1. getRemainLength(d).length = part(1) + part(2) + part(3) + part(4)
    BY <1>4 DEF getRemainLength, lengthUpTo, k
  <2>2. weight[1] = 1 /\ weight[2] = 128 /\ weight[3] = 16384 /\ weight[4] = 2097152
    BY DEF weight
  <2>3. ASSUME NEW i \in 1..4 PROVE part(i) \in Nat /\ part(i) <= 127 * weight[i]
    <3> DEFINE y == weight[i]
    <3>0. y \in {1, 128, 16384, 2097152}
      BY <2>2, <2>3
    <3>1. CASE i <= k
      <4> DEFINE x == d[i]
      <4>1. x \in Byte
        BY <1>1, <1>2, <1>4, <3>1
      <4>3. part(i) = (x % 128) * y
        BY <3>1
      <4> HIDE DEF x, y, part
      <4>4. x % 128 \in 0..127
        BY <4>1 DEF Byte
      <4>5. part(i) \in Nat /\ part(i) <= 127 * y
        <5> DEFINE z == x % 128
        <5>1. z \in 0..127 /\ part(i) = z * y
          BY <4>3, <4>4
        <5> HIDE DEF z
        <5>2. CASE y = 1
          BY <5>1, <5>2
        <5>3. CASE y = 128
          BY <5>1, <5>3
        <5>4. CASE y = 16384
          BY <5>1, <5>4
        <5>5. CASE y = 2097152
          BY <5>1, <5>5
        <5> QED BY <3>0, <5>2, <5>3, <5>4, <5>5
      <4> QED BY <4>5 DEF y
    <3>2. CASE ~(i <= k)
      <4>1. part(i) = 0
        BY <3>2
      <4> HIDE DEF part, y
      <4>2. y \in Nat
        BY <3>0
      <4>3. 127 * y \in Nat
        BY <4>2
      <4>4. part(i) \in Nat /\ part(i) <= 127 * y
        BY <4>1, <4>3
      <4> QED BY <4>4 DEF y
    <3> QED BY <3>1, <3>2
  <2>4. /\ part(1) \in Nat /\ part(2) \in Nat /\ part(3) \in Nat /\ part(4) \in Nat
        /\ part(1) <= 127 /\ part(2) <= 127 * 128 /\ part(3) <= 127 * 16384 /\ part(4) <= 127 * 2097152
    BY <2>2, <2>3
  <2> HIDE DEF part
  <2> QED BY <2>1, <2>4 DEF varIntLimit
<1> QED BY <1>3, <1>4

\* The loop of getRawProps at a property whose value is as long as it says
LEMMA PropStepBack ==
    ASSUME NEW a \in Seq(Byte), NEW k \in Byte, NEW v \in Seq(Byte), NEW r \in Seq(Byte), NEW f,
           propLen(<<k>> \o (v \o r)) = Len(v)
    PROVE  propStep(f, a \o (<<k>> \o (v \o r)), Len(a) + 1) = inFront(k, v, f[(Len(a) + Len(v)) + 2])
<1> DEFINE x == <<k>>
           c == v \o r
           t == x \o c
           b == a \o t
           i == Len(a) + 1
           n == Len(v)
<1>0. Len(a) \in Nat /\ n \in Nat /\ Len(r) \in Nat
  BY LenProperties
<1>1. x \in Seq(Byte) /\ Len(x) = 1 /\ x[1] = k
  BY OneByte
<1>2. c \in Seq(Byte) /\ Len(c) = n + Len(r)
  BY Joined
<1>3. t \in Seq(Byte) /\ Len(t) = 1 + (n + Len(r)) /\ t[1] = k
  <2> HIDE DEF x, c, n
  <2>1. t \in Seq(Byte) /\ Len(t) = Len(x) + Len(c)
    BY <1>1, <1>2, Joined
  <2>2. Len(x) >= 1
    BY <1>1
  <2>3. t[1] = x[1]
    BY <1>1, <1>2, <2>2, FirstOf, Zenon
  <2> QED BY <1>1, <1>2, <2>1, <2>3
<1>4. Len(b) = Len(a) + (1 + (n + Len(r)))
  <2> HIDE DEF t, n
  <2>1. Len(a \o t) = Len(a) + Len(t)
    BY <1>3, Joined, Zenon
  <2> QED BY <1>3, <2>1
<1>5. SubSeq(b, i, Len(b)) = t
  <2>1. t \in Seq(Byte)
    BY <1>3
  <2> HIDE DEF t
  <2> QED BY <2>1, FromAfter DEF from
<1>6. valueLen(b, i) = n
  BY <1>5, Zenon DEF valueLen
<1>7. b[i] = k
  <2>0. 1 \in 1..Len(t)
    BY <1>0, <1>3
  <2>1. t \in Seq(Byte)
    BY <1>3
  <2> HIDE DEF t
  <2>2. (a \o t)[Len(a) + 1] = t[1]
    BY <1>0, <2>0, <2>1
  <2> QED BY <1>3, <2>2
<1>8. SubSeq(b, i + 1, i + n) = v
  <2> DEFINE e == a \o x
  <2>1. e \in Seq(Byte) /\ Len(e) = Len(a) + 1
    <3> HIDE DEF x
    <3>1. Len(a \o x) = Len(a) + Len(x) /\ a \o x \in Seq(Byte)
      BY <1>1, Joined
    <3> QED BY <1>1, <3>1
  <2>2. b = e \o c
    <3>1. x \in Seq(Byte) /\ c \in Seq(Byte)
      BY <1>1, <1>2
    <3> HIDE DEF x, c
    <3>2. (a \o x) \o c = a \o (x \o c)
      BY <3>1, CatAssoc, Zenon DEF cat
    <3> QED BY <3>2
  <2> HIDE DEF e, b
  <2>3. SubSeq(e \o (v \o r), Len(e) + 1, Len(e) + Len(v)) = v
    BY <2>1, Parts
  <2> QED BY <2>1, <2>2, <2>3
<1> HIDE DEF b, i, n
<1>9. i \in Nat /\ i = Len(a) + 1
  BY <1>0 DEF i
<1>10. ~(i > Len(b)) /\ ~(n = badLen \/ i + n > Len(b))
  BY <1>0, <1>4, <1>9 DEF badLen
<1>11. propStep(f, b, i) = inFront(k, v, f[i + 1 + n])
  BY <1>6, <1>7, <1>8, <1>10, Zenon DEF propStep
<1>12. i + 1 + n = (Len(a) + n) + 2
  BY <1>0, <1>9
<1> QED BY <1>11, <1>12 DEF b, i, n

\* SubID is read as long as it was written.
LEMMA SubIDLen ==
    ASSUME NEW m \in Nat, m < varIntLimit, NEW r \in Seq(Byte)
    PROVE  propLen(<<propKeySubID>> \o (varIntBytes(m) \o r)) = Len(varIntBytes(m))
<1> DEFINE a == varIntBytes(m)
           k == varIntLen(m)
           c == a \o r
           x == <<propKeySubID>>
           b == x \o c
<1>1. a \in Seq(Byte) /\ Len(a) = k /\ k \in 1..4
  BY VarIntBytesType
<1>2. c \in Seq(Byte) /\ Len(c) = k + Len(r) /\ \A i \in 1..k : c[i] = a[i]
  <2> HIDE DEF a, k
  <2>1. c \in Seq(Byte) /\ Len(c) = Len(a) + Len(r) /\ \A i \in 1..Len(a) : c[i] = a[i]
    BY <1>1, Joined, FirstPart
  <2> QED BY <1>1, <2>1
<1>3. Len(c) >= k
  <2>1. Len(r) \in Nat
    BY LenProperties
  <2> HIDE DEF c, k
  <2> QED BY <1>1, <1>2, <2>1
<1>4. getRemainLength(c) = [length |-> m, byteCount |-> k]
  <2> HIDE DEF c
  <2> QED BY <1>2, <1>3, LengthReadBack
<1>5. propKeySubID \in Byte
  BY DEF propKeySubID, Byte
<1>6. b[1] = propKeySubID /\ Tail(b) = c
  <2> DEFINE key == propKeySubID
  <2> HIDE DEF c, key
  <2>1. (<<key>> \o c)[1] = key /\ Tail(<<key>> \o c) = c
    BY <1>2
  <2> QED BY <2>1 DEF key
<1>7. getRemainLength(Tail(b)).byteCount = k
  <2>1. getRemainLength(c).byteCount = k
    <3> HIDE DEF c, k
    <3> QED BY <1>4
  <2>2. Tail(b) = c
    BY <1>6, Zenon
  <2> HIDE DEF b, c, k
  <2> QED BY <2>1, <2>2, Zenon
<1>8. /\ b[1] = 11 /\ b[1] \notin oneByteKeys /\ b[1] \notin twoByteKeys /\ b[1] \notin fourByteKeys
      /\ b[1] \notin prefixedKeys /\ b[1] = propKeySubID /\ b[1] # propKeyUserProps
  <2> DEFINE key == b[1]
  <2>1. key = 11
    BY <1>6 DEF propKeySubID
  <2> HIDE DEF key
  <2>2. /\ key \notin oneByteKeys /\ key \notin twoByteKeys /\ key \notin fourByteKeys
        /\ key \notin prefixedKeys /\ key = propKeySubID /\ key # propKeyUserProps
    BY <2>1 DEF oneByteKeys, twoByteKeys, fourByteKeys, prefixedKeys, propKeySubID, propKeyUserProps
  <2> QED BY <2>1, <2>2 DEF key
<1> HIDE DEF b
<1>9. propLen(b) = getRemainLength(Tail(b)).byteCount
  BY <1>8 DEF propLen
<1> QED BY <1>1, <1>7, <1>9 DEF b

oneProp(k, v) == [j \in {k} |-> v]
twoProps(k, v, l, u) == [j \in {k, l} |-> IF j = k THEN v ELSE u]

\* A property in front of none, and in front of another
LEMMA InFrontOf ==
    ASSUME NEW k, NEW v, NEW l, NEW u, k # l
    PROVE  /\ inFront(k, v, PropsRead(noProps)) = PropsRead(oneProp(k, v))
           /\ inFront(k, v, PropsRead(oneProp(l, u))) = PropsRead(twoProps(k, v, l, u))
<1>0. ASSUME NEW q PROVE PropsRead(q).ok = TRUE /\ PropsRead(q).props = q
  BY Zenon DEF PropsRead
<1>1. DOMAIN noProps = {}
  BY NoKeys
<1>2. inFront(k, v, PropsRead(noProps)) = PropsRead(oneProp(k, v))
  <2> DEFINE b == PropsRead(noProps)
             q == [j \in DOMAIN b.props \cup {k} |-> IF j = k THEN v ELSE b.props[j]]
  <2>1. b.ok = TRUE /\ b.props = noProps
    BY <1>0
  <2> HIDE DEF b
  <2>2. k \notin DOMAIN b.props /\ DOMAIN b.props \cup {k} = {k}
    BY <1>1, <2>1
  <2>3. inFront(k, v, b) = [ok |-> b.ok, props |-> q]
    BY <2>2 DEF inFront
  <2>4. q = oneProp(k, v)
    BY <2>2 DEF oneProp
  <2> HIDE DEF q
  <2> QED BY <2>1, <2>3, <2>4 DEF PropsRead, b
<1>3. inFront(k, v, PropsRead(oneProp(l, u))) = PropsRead(twoProps(k, v, l, u))
  <2> DEFINE b == PropsRead(oneProp(l, u))
             q == [j \in DOMAIN b.props \cup {k} |-> IF j = k THEN v ELSE b.props[j]]
  <2>1. b.ok = TRUE /\ b.props = oneProp(l, u)
    BY <1>0
  <2> HIDE DEF b
  <2>2. k \notin DOMAIN b.props /\ DOMAIN b.props \cup {k} = {k, l} /\ b.props[l] = u
    BY <2>1 DEF oneProp
  <2>3. inFront(k, v, b) = [ok |-> b.ok, props |-> q]
    BY <2>2 DEF inFront
  <2>4. q = twoProps(k, v, l, u)
    BY <2>2 DEF twoProps
  <2> HIDE DEF q
  <2> QED BY <2>1, <2>3, <2>4 DEF PropsRead, b
<1> QED BY <1>2, <1>3

\* A property in front of the bytes r, as long as it says
prop(k, v, r) == <<k>> \o (v \o r)
Fills(k, v, r) == propLen(prop(k, v, r)) = Len(v)

\* A property is bytes.
LEMMA PropType ==
    ASSUME NEW k \in Byte, NEW v \in Seq(Byte), NEW r \in Seq(Byte)
    PROVE  prop(k, v, r) \in Seq(Byte) /\ Len(prop(k, v, r)) = 1 + Len(v) + Len(r)
<1> DEFINE x == <<k>>
           c == v \o r
<1>0. Len(v) \in Nat /\ Len(r) \in Nat
  BY LenProperties
<1>1. x \in Seq(Byte) /\ Len(x) = 1
  BY OneByte
<1>2. c \in Seq(Byte) /\ Len(c) = Len(v) + Len(r)
  BY Joined
<1>3. prop(k, v, r) = x \o c
  BY DEF prop
<1> HIDE DEF x, c
<1>4. x \o c \in Seq(Byte) /\ Len(x \o c) = Len(x) + Len(c)
  BY <1>1, <1>2, Joined
<1> QED BY <1>0, <1>1, <1>2, <1>3, <1>4

\* The bytes behind a property follow it.
LEMMA PropSplit ==
    ASSUME NEW k \in Byte, NEW v \in Seq(Byte), NEW r \in Seq(Byte)
    PROVE  prop(k, v, r) = cat(prop(k, v, <<>>), r)
<1> DEFINE x == <<k>>
<1>1. x \in Seq(Byte)
  BY OneByte
<1>2. v \o <<>> = v
  BY ConcatEmptySeq
<1>3. prop(k, v, r) = x \o (v \o r) /\ prop(k, v, <<>>) = x \o v
  BY <1>2, Zenon DEF prop
<1> HIDE DEF x
<1>4. (x \o v) \o r = x \o (v \o r)
  BY <1>1, ConcatAssociative
<1> QED BY <1>3, <1>4, Zenon DEF cat

\* The loop at such a property
LEMMA PropStepIs ==
    ASSUME NEW a \in Seq(Byte), NEW k \in Byte, NEW v \in Seq(Byte), NEW r \in Seq(Byte), NEW f,
           Fills(k, v, r)
    PROVE  propStep(f, cat(a, prop(k, v, r)), Len(a) + 1) = inFront(k, v, f[(Len(a) + Len(v)) + 2])
<1>1. propLen(<<k>> \o (v \o r)) = Len(v)
  BY Zenon DEF Fills, prop
<1>2. propStep(f, a \o (<<k>> \o (v \o r)), Len(a) + 1) = inFront(k, v, f[(Len(a) + Len(v)) + 2])
  BY <1>1, PropStepBack
<1> QED BY <1>2, Zenon DEF cat, prop

\* The same with names for the two positions.
LEMMA PropStepAt ==
    ASSUME NEW a \in Seq(Byte), NEW k \in Byte, NEW v \in Seq(Byte), NEW r \in Seq(Byte), NEW f,
           Fills(k, v, r), NEW i, i = Len(a) + 1, NEW j, j = (Len(a) + Len(v)) + 2
    PROVE  propStep(f, cat(a, prop(k, v, r)), i) = inFront(k, v, f[j])
BY PropStepIs

\* One property, alone
LEMMA ReadOneProp ==
    ASSUME NEW k \in Byte, NEW v \in Seq(Byte), Fills(k, v, <<>>)
    PROVE  readProps(prop(k, v, <<>>)) = PropsRead(oneProp(k, v))
<1> DEFINE e == <<>>
           b == prop(k, v, e)
           i == 1
           j == Len(v) + 2
<1>0. Fills(k, v, e)
  OBVIOUS
<1>1. e \in Seq(Byte) /\ Len(e) = 0
  BY EmptySeq
<1>2. Len(v) \in Nat
  BY LenProperties
<1>c. ASSUME NEW z \in Seq(Byte) PROVE cat(e, z) = z
  BY ConcatEmptySeq DEF cat
<1> HIDE DEF e
<1>3. b \in Seq(Byte) /\ Len(b) = 1 + Len(v) + Len(e)
  BY <1>1, PropType
<1>4. cat(e, b) = b
  BY <1>3, <1>c
<1> HIDE DEF b
<1>5. Len(b) = 1 + Len(v)
  BY <1>1, <1>2, <1>3
<1>6. PICK f : /\ readProps(b) = f[1]
               /\ \A m \in 1..(Len(b) + 1) : f[m] = propStep(f, b, m)
  BY <1>3, PropsAre
<1>7. 1 \in 1..(Len(b) + 1) /\ j \in 1..(Len(b) + 1) /\ j > Len(b)
  BY <1>2, <1>5
<1>8. f[j] = PropsRead(noProps)
  <2>1. f[j] = propStep(f, b, j)
    BY <1>6, <1>7
  <2> HIDE DEF j
  <2> QED BY <1>7, <2>1 DEF propStep, PropsRead
<1>9. i = Len(e) + 1 /\ j = (Len(e) + Len(v)) + 2
  BY <1>1, <1>2
<1> HIDE DEF i, j
<1>10. propStep(f, cat(e, prop(k, v, e)), i) = inFront(k, v, f[j])
  <2>1. e \in Seq(Byte)
    BY <1>1
  <2> QED BY <1>0, <1>9, <2>1, PropStepAt
<1>11. PICK l : l # k
  <2>1. 256 # k
    BY DEF Byte
  <2> QED BY <2>1
<1>12. inFront(k, v, PropsRead(noProps)) = PropsRead(oneProp(k, v))
  BY <1>11, InFrontOf
<1>13. f[1] = propStep(f, b, 1)
  BY <1>6, <1>7
<1> QED BY <1>4, <1>6, <1>8, <1>10, <1>12, <1>13, Zenon DEF b, e, i

\* Two properties, one behind the other
LEMMA ReadTwoProps ==
    ASSUME NEW k \in Byte, NEW v \in Seq(Byte), NEW l \in Byte, NEW u \in Seq(Byte), k # l,
           Fills(k, v, prop(l, u, <<>>)), Fills(l, u, <<>>)
    PROVE  readProps(prop(k, v, prop(l, u, <<>>))) = PropsRead(twoProps(k, v, l, u))
<1> DEFINE e == <<>>
           r == prop(l, u, e)
           a == prop(k, v, e)
           b == prop(k, v, r)
           h == 1
           i == Len(v) + 2
           j == Len(b) + 1
<1>0. Fills(k, v, r) /\ Fills(l, u, e)
  OBVIOUS
<1>1. e \in Seq(Byte) /\ Len(e) = 0
  BY EmptySeq
<1>2. Len(v) \in Nat /\ Len(u) \in Nat
  BY LenProperties
<1>c. ASSUME NEW z \in Seq(Byte) PROVE cat(e, z) = z
  BY ConcatEmptySeq DEF cat
<1>s. ASSUME NEW z \in Seq(Byte) PROVE prop(k, v, z) = cat(a, z)
  BY <1>s, PropSplit
<1> HIDE DEF e
<1>3. a \in Seq(Byte) /\ Len(a) = 1 + Len(v) + Len(e) /\ r \in Seq(Byte) /\ Len(r) = 1 + Len(u) + Len(e)
  BY <1>1, PropType
<1> HIDE DEF r, a
<1>4. b \in Seq(Byte) /\ Len(b) = 1 + Len(v) + Len(r)
  BY <1>3, PropType
<1>5. cat(e, b) = b /\ b = cat(a, r)
  BY <1>3, <1>4, <1>c, <1>s
<1> HIDE DEF b
<1>6. PICK f : /\ readProps(b) = f[1]
               /\ \A m \in 1..(Len(b) + 1) : f[m] = propStep(f, b, m)
  BY <1>4, PropsAre
<1>7. Len(r) = 1 + Len(u) /\ Len(b) = Len(v) + Len(u) + 2 /\ Len(a) = 1 + Len(v)
  BY <1>1, <1>2, <1>3, <1>4
<1>8. 1 \in 1..(Len(b) + 1) /\ i \in 1..(Len(b) + 1) /\ j \in 1..(Len(b) + 1) /\ j > Len(b)
  BY <1>2, <1>7
<1>9. f[1] = propStep(f, b, 1) /\ f[i] = propStep(f, b, i) /\ f[j] = propStep(f, b, j)
  BY <1>6, <1>8
<1>10. /\ h = Len(e) + 1 /\ i = (Len(e) + Len(v)) + 2
       /\ i = Len(a) + 1 /\ j = (Len(a) + Len(u)) + 2
  BY <1>1, <1>2, <1>7
<1> HIDE DEF h, i, j
<1>11. f[j] = PropsRead(noProps)
  BY <1>8, <1>9 DEF propStep, PropsRead
<1>12. propStep(f, cat(a, prop(l, u, e)), i) = inFront(l, u, f[j])
  <2>1. e \in Seq(Byte) /\ a \in Seq(Byte)
    BY <1>1, <1>3, Zenon
  <2>2. Fills(l, u, e)
    BY <1>0, Zenon
  <2>3. i = Len(a) + 1 /\ j = (Len(a) + Len(u)) + 2
    BY <1>10, Zenon
  <2>4. propStep(f, cat(a, prop(l, u, e)), Len(a) + 1) = inFront(l, u, f[(Len(a) + Len(u)) + 2])
    BY <2>1, <2>2, PropStepIs
  <2> QED BY <2>3, <2>4, Zenon
<1>13. propStep(f, cat(e, prop(k, v, r)), h) = inFront(k, v, f[i])
  <2>1. e \in Seq(Byte) /\ r \in Seq(Byte)
    BY <1>1, <1>3, Zenon
  <2>2. Fills(k, v, r)
    BY <1>0, Zenon
  <2>3. h = Len(e) + 1 /\ i = (Len(e) + Len(v)) + 2
    BY <1>10, Zenon
  <2>4. propStep(f, cat(e, prop(k, v, r)), Len(e) + 1) = inFront(k, v, f[(Len(e) + Len(v)) + 2])
    BY <2>1, <2>2, PropStepIs
  <2> QED BY <2>3, <2>4, Zenon
<1>14. inFront(l, u, PropsRead(noProps)) = PropsRead(oneProp(l, u))
  BY InFrontOf
<1>15. inFront(k, v, PropsRead(oneProp(l, u))) = PropsRead(twoProps(k, v, l, u))
  BY InFrontOf
<1>16. f[i] = PropsRead(oneProp(l, u))
  BY <1>5, <1>9, <1>11, <1>12, <1>14, Zenon DEF r
<1>17. f[1] = inFront(k, v, f[i])
  BY <1>5, <1>9, <1>13, Zenon DEF b, h
<1> QED BY <1>6, <1>15, <1>16, <1>17, Zenon DEF b, r, e

\* The properties of a SUBSCRIBE, field by field
LEMMA SubscribePropsIs ==
    ASSUME NEW x, \A k \in DOMAIN x : x[k] \in Seq(Byte)
    PROVE  LET a == IF propKeySubID \in DOMAIN x THEN prop(propKeySubID, x[propKeySubID], <<>>) ELSE <<>>
               b == IF propKeyUserProps \in DOMAIN x THEN prop(propKeyUserProps, x[propKeyUserProps], <<>>) ELSE <<>>
           IN  subscribeProps(x) = cat(a, b)
<1> DEFINE keyed(k) == IF k \in DOMAIN x THEN <<k>> \o x[k] ELSE <<>>
           named(k) == IF k \in DOMAIN x THEN prop(k, x[k], <<>>) ELSE <<>>
<1>1. ASSUME NEW k PROVE keyed(k) = named(k)
  <2>1. CASE k \in DOMAIN x
    <3>1. x[k] \o <<>> = x[k]
      <4> DEFINE y == x[k]
      <4>1. y \in Seq(Byte)
        BY <2>1
      <4> HIDE DEF y
      <4>2. y \o <<>> = y
        BY <4>1, ConcatEmptySeq
      <4> QED BY <4>2 DEF y
    <3> QED BY <2>1, <3>1, Zenon DEF prop
  <2>2. CASE k \notin DOMAIN x
    BY <2>2
  <2> QED BY <2>1, <2>2
<1>2. subscribeProps(x) = keyed(propKeySubID) \o keyed(propKeyUserProps)
  BY DEF subscribeProps
<1>3. keyed(propKeySubID) = named(propKeySubID) /\ keyed(propKeyUserProps) = named(propKeyUserProps)
  BY <1>1
<1>4. subscribeProps(x) = cat(named(propKeySubID), named(propKeyUserProps))
  BY <1>2, <1>3, Zenon DEF cat
<1> QED BY <1>4, Zenon

\* SubID is as long as it says, whatever follows.
LEMMA SubIDFills ==
    ASSUME NEW x, SubscribePropsOf(x), propKeySubID \in DOMAIN x, NEW r \in Seq(Byte)
    PROVE  Fills(propKeySubID, x[propKeySubID], r)
<1> DEFINE v == x[propKeySubID]
           m == getRemainLength(v).length
<1>1. v \in Seq(Byte) /\ v = varIntBytes(m)
  BY DEF SubscribePropsOf
<1>2. m \in Nat /\ m < varIntLimit
  <2>1. v \in Seq(Byte)
    BY <1>1
  <2> HIDE DEF v
  <2> QED BY <2>1, LengthNat, LengthLimit
<1> HIDE DEF m
<1>3. propLen(<<propKeySubID>> \o (varIntBytes(m) \o r)) = Len(varIntBytes(m))
  BY <1>2, SubIDLen
<1> QED BY <1>1, <1>3, Zenon DEF Fills, prop, v

\* UserProps is as long as it says if it holds a single pair: this is the
\* condition of agreedV5.
LEMMA UserPropsFill ==
    ASSUME NEW p \in Packets, p.type = "SUBSCRIBE", agreedV5(p), propKeyUserProps \in DOMAIN p.props
    PROVE  Fills(propKeyUserProps, p.props[propKeyUserProps], <<>>)
<1> DEFINE v == p.props[propKeyUserProps]
<1>1. propLen(<<propKeyUserProps>> \o v) = Len(v)
  BY DEF agreedV5
<1>2. v \in Seq(Byte)
  BY SubscribeFields DEF SubscribePropsOf
<1> HIDE DEF v
<1>3. v \o <<>> = v
  BY <1>2, ConcatEmptySeq
<1>4. Fills(propKeyUserProps, v, <<>>)
  BY <1>1, <1>3, Zenon DEF Fills, prop
<1> QED BY <1>4, Zenon DEF v

\* The properties of a SUBSCRIBE are read as they were written.
LEMMA SubscribePropsRead ==
    ASSUME NEW p \in Packets, p.type = "SUBSCRIBE", agreedV5(p)
    PROVE  /\ readProps(subscribeProps(p.props)) = PropsRead(p.props)
           /\ setProps(SubscribeProps, p.props) = p.props
<1> DEFINE x == p.props
           s == propKeySubID
           t == propKeyUserProps
           id == x[s]
           us == x[t]
           e == <<>>
<1>1. SubscribePropsOf(x)
  BY SubscribeFields
<1>2. /\ x = [k \in DOMAIN x |-> x[k]] /\ \A k \in DOMAIN x : x[k] \in Seq(Byte)
      /\ DOMAIN x \subseteq {s, t}
  BY <1>1 DEF SubscribePropsOf, SubscribeProps, propKeySubID, propKeyUserProps
<1>3. s \in Byte /\ t \in Byte /\ s # t
  BY DEF propKeySubID, propKeyUserProps, Byte
<1>4. e \in Seq(Byte)
  BY EmptySeq
<1>5. ASSUME NEW r \in Seq(Byte), s \in DOMAIN x PROVE Fills(s, id, r)
  BY <1>1, <1>5, SubIDFills
<1>6. t \in DOMAIN x => Fills(t, us, e)
  BY UserPropsFill
<1> DEFINE a == IF s \in DOMAIN x THEN prop(s, id, e) ELSE e
           b == IF t \in DOMAIN x THEN prop(t, us, e) ELSE e
<1>7. subscribeProps(x) = cat(a, b)
  BY <1>2, SubscribePropsIs
<1>8. cat(e, e) = e
  BY CatEmpty, EmptySeq
<1>9. ASSUME NEW z \in Seq(Byte) PROVE cat(e, z) = z /\ cat(z, e) = z
  BY <1>9, ConcatEmptySeq DEF cat
<1>10. readProps(e) = PropsRead(noProps)
  BY ReadNoProps
<1>11. setProps(SubscribeProps, x) = x
  <2>1. setProps(SubscribeProps, x) = [k \in {y \in DOMAIN x : y \in SubscribeProps.read} |-> x[k]]
    BY DEF setProps, RestrictDomain, Restrict
  <2>2. SubscribeProps.read = {s, t}
    BY DEF SubscribeProps, propKeySubID, propKeyUserProps
  <2>3. {y \in DOMAIN x : y \in SubscribeProps.read} = DOMAIN x
    BY <1>2, <2>2
  <2> QED BY <1>2, <2>1, <2>3
<1>t. \A r \in Seq(Byte) : /\ s \in DOMAIN x => prop(s, id, r) \in Seq(Byte) /\ prop(s, id, r) = cat(prop(s, id, e), r)
                           /\ t \in DOMAIN x => prop(t, us, r) \in Seq(Byte)
  BY <1>2, <1>3, PropType, PropSplit
<1>o. /\ s \in DOMAIN x /\ Fills(s, id, e) => readProps(prop(s, id, e)) = PropsRead(oneProp(s, id))
      /\ t \in DOMAIN x /\ Fills(t, us, e) => readProps(prop(t, us, e)) = PropsRead(oneProp(t, us))
  BY <1>2, <1>3, ReadOneProp
<1>w. /\ s \in DOMAIN x /\ t \in DOMAIN x /\ Fills(s, id, prop(t, us, e)) /\ Fills(t, us, e)
            => readProps(prop(s, id, prop(t, us, e))) = PropsRead(twoProps(s, id, t, us))
  BY <1>2, <1>3, ReadTwoProps
<1> HIDE DEF e, s, t, x
<1>12. CASE s \in DOMAIN x /\ t \in DOMAIN x
  <2> DEFINE r == prop(t, us, e)
  <2>1. a = prop(s, id, e) /\ b = r
    BY <1>12
  <2>2. r \in Seq(Byte)
    BY <1>4, <1>12, <1>t
  <2>3. cat(a, b) = prop(s, id, r)
    BY <1>12, <1>t, <2>1, <2>2, Zenon
  <2>4. Fills(s, id, r) /\ Fills(t, us, e)
    BY <1>5, <1>6, <1>12, <2>2
  <2>5. twoProps(s, id, t, us) = x
    <3>1. DOMAIN x = {s, t}
      BY <1>2, <1>12
    <3> QED BY <1>2, <3>1 DEF twoProps
  <2> QED BY <1>7, <1>11, <1>12, <1>w, <2>3, <2>4, <2>5, Zenon DEF x
<1>13. CASE s \in DOMAIN x /\ t \notin DOMAIN x
  <2>1. a = prop(s, id, e) /\ b = e
    BY <1>13
  <2>2. prop(s, id, e) \in Seq(Byte)
    BY <1>4, <1>13, <1>t
  <2>3. cat(a, b) = prop(s, id, e)
    BY <1>9, <2>1, <2>2, Zenon
  <2>4. Fills(s, id, e)
    BY <1>4, <1>5, <1>13
  <2>5. oneProp(s, id) = x
    <3>1. DOMAIN x = {s}
      BY <1>2, <1>13
    <3> QED BY <1>2, <3>1 DEF oneProp
  <2> QED BY <1>7, <1>11, <1>13, <1>o, <2>3, <2>4, <2>5, Zenon DEF x
<1>14. CASE s \notin DOMAIN x /\ t \in DOMAIN x
  <2>1. a = e /\ b = prop(t, us, e)
    BY <1>14
  <2>2. prop(t, us, e) \in Seq(Byte)
    BY <1>4, <1>14, <1>t
  <2>3. cat(a, b) = prop(t, us, e)
    BY <1>9, <2>1, <2>2, Zenon
  <2>4. Fills(t, us, e)
    BY <1>6, <1>14
  <2>5. oneProp(t, us) = x
    <3>1. DOMAIN x = {t}
      BY <1>2, <1>14
    <3> QED BY <1>2, <3>1 DEF oneProp
  <2> QED BY <1>7, <1>11, <1>14, <1>o, <2>3, <2>4, <2>5, Zenon DEF x
<1>15. CASE s \notin DOMAIN x /\ t \notin DOMAIN x
  <2>1. a = e /\ b = e
    BY <1>15
  <2>2. x = noProps
    <3>1. DOMAIN x = {}
      BY <1>2, <1>15
    <3> QED BY <1>2, <3>1, NoKeys
  <2> QED BY <1>7, <1>8, <1>10, <1>11, <2>1, <2>2, Zenon DEF x
<1> QED BY <1>12, <1>13, <1>14, <1>15

-----------------------------------------------------------------------------
(* MQTT 5: Decode undoes WriteTo *)

\* decodeV5Packet, type by type.
LEMMA DecodeV5Is ==
    ASSUME NEW h, NEW d
    PROVE  /\ decodeV5Packet("CONNECT", h, d) = decodeV5Conn(getBinaryData(d))
           /\ decodeV5Packet("CONNACK", h, d) = decodeV5ConnAck(d)
           /\ \A type \in AckTypes : \E keys : decodeV5Packet(type, h, d) = decodeV5PubAck(type, keys, d)
           /\ decodeV5Packet("SUBSCRIBE", h, d) = decodeV5Sub("SUBSCRIBE", getUint16(d), getRawProps(from(d, 3)))
           /\ decodeV5Packet("SUBACK", h, d) = decodeV5Sub("SUBACK", getUint16(d), getRawProps(from(d, 3)))
           /\ decodeV5Packet("UNSUBSCRIBE", h, d) = decodeV5Sub("UNSUBSCRIBE", getUint16(d), getRawProps(from(d, 3)))
           /\ decodeV5Packet("UNSUBACK", h, d) = decodeV5Sub("UNSUBACK", getUint16(d), getRawProps(from(d, 3)))
           /\ decodeV5Packet("AUTH", h, d) = decodeV5Code("AUTH", AuthProps, d)
<1>1. ASSUME NEW type \in AckTypes PROVE \E keys : decodeV5Packet(type, h, d) = decodeV5PubAck(type, keys, d)
  <2>1. /\ decodeV5Packet("PUBACK", h, d) = decodeV5PubAck("PUBACK", PubAckProps, d)
        /\ decodeV5Packet("PUBREC", h, d) = decodeV5PubAck("PUBREC", PubRecvProps, d)
        /\ decodeV5Packet("PUBREL", h, d) = decodeV5PubAck("PUBREL", PubRelProps, d)
        /\ decodeV5Packet("PUBCOMP", h, d) = decodeV5PubAck("PUBCOMP", PubCompProps, d)
    BY DEF decodeV5Packet
  <2> QED BY <2>1, Zenon DEF AckTypes
<1>2. /\ decodeV5Packet("CONNECT", h, d) = decodeV5Conn(getBinaryData(d))
      /\ decodeV5Packet("CONNACK", h, d) = decodeV5ConnAck(d)
      /\ decodeV5Packet("SUBSCRIBE", h, d) = decodeV5Sub("SUBSCRIBE", getUint16(d), getRawProps(from(d, 3)))
      /\ decodeV5Packet("SUBACK", h, d) = decodeV5Sub("SUBACK", getUint16(d), getRawProps(from(d, 3)))
      /\ decodeV5Packet("UNSUBSCRIBE", h, d) = decodeV5Sub("UNSUBSCRIBE", getUint16(d), getRawProps(from(d, 3)))
      /\ decodeV5Packet("UNSUBACK", h, d) = decodeV5Sub("UNSUBACK", getUint16(d), getRawProps(from(d, 3)))
      /\ decodeV5Packet("AUTH", h, d) = decodeV5Code("AUTH", AuthProps, d)
  BY DEF decodeV5Packet
<1> QED BY <1>1, <1>2

\* What a packet should be to the reader of MQTT 5, if the two halves agree on it
receivedV5(p) == IF p.type = "SUBSCRIBE" THEN p ELSE received311(p)

Back5(p) ==
    (IF Len(body(V5, p)) = 0 THEN decodeEmpty(V5, header(p))
     ELSE IF Len(body(V5, p)) < 2 THEN bad
     ELSE decodeV5Packet(p.type, header(p), body(V5, p))) = ok(receivedV5(p))

\* The fields of what getRawProps returns.
LEMMA RawFields ==
    ASSUME NEW q, NEW r
    PROVE  Raw(q, r).ok = TRUE /\ Raw(q, r).props = q /\ Raw(q, r).next = r
BY Zenon DEF Raw

\* Nothing read, nothing set
LEMMA WithNoProps ==
    ASSUME NEW pkt, NEW keys, NEW r
    PROVE  withProps(pkt, keys, Raw(noProps, r)) = ok([pkt EXCEPT !.props = noProps])
<1>1. Raw(noProps, r).ok = TRUE /\ Raw(noProps, r).props = noProps
  BY RawFields
<1>2. setProps(keys, noProps) = noProps
  BY SetNoProps
<1>3. withProps(pkt, keys, Raw(noProps, r)) = ok([pkt EXCEPT !.props = setProps(keys, noProps)])
  BY <1>1, Zenon DEF withProps
<1> QED BY <1>2, <1>3, Zenon

\* Pings need no body in MQTT 5 either.
LEMMA PingBack5 ==
    ASSUME NEW p \in Packets, p.type \in {"PINGREQ", "PINGRESP"}
    PROVE  Back5(p)
<1>1. p \in [type : {"PINGREQ", "PINGRESP"}]
  BY PingFields
<1>2. body(V5, p) = <<>> /\ Len(body(V5, p)) = 0
  BY BodyIs
<1>3. typeOf(header(p)) = p.type
  BY HeaderOf
<1>4. decodeEmpty(V5, header(p)) = ok([type |-> p.type])
  BY <1>3 DEF decodeEmpty
<1>5. receivedV5(p) = p
  BY Received311Is DEF receivedV5
<1>6. p = [type |-> p.type]
  BY <1>1
<1> QED BY <1>2, <1>4, <1>5, <1>6, Zenon DEF Back5

\* A body of two bytes or more
LEMMA LongBack ==
    ASSUME NEW p \in Packets, Len(body(V5, p)) \in Nat, Len(body(V5, p)) >= 2,
           decodeV5Packet(p.type, header(p), body(V5, p)) = ok(receivedV5(p))
    PROVE  Back5(p)
<1>1. Len(body(V5, p)) # 0 /\ ~(Len(body(V5, p)) < 2)
  OBVIOUS
<1> QED BY <1>1, Zenon DEF Back5

\* A zero for the length of the properties
LEMMA ZeroByte == <<0>> \in Seq(Byte) /\ Len(<<0>>) = 1 /\ <<0>>[1] = 0 /\ <<0>> \o <<>> = <<0>>
<1>1. 0 \in Byte
  BY DEF Byte
<1> QED BY <1>1

\* A zero at the end: no properties, and nothing follows.
LEMMA NoneBehind == getRawProps(<<0>>) = Raw(noProps, <<>>)
<1>1. getRawProps(<<0>> \o <<>>) = Raw(noProps, <<>>)
  BY RawNone, EmptySeq
<1> QED BY <1>1, ZeroByte, Zenon

\* A CONNACK of MQTT 5 loses its properties, and nothing else.
LEMMA ConnAckBack5 ==
    ASSUME NEW p \in Packets, p.type = "CONNACK"
    PROVE  Back5(p)
<1> DEFINE x == boolToByte(p.present)
           y == p.code
           d == <<x, y>> \o <<0>>
<1>1. p \in [type : {"CONNACK"}, present : BOOLEAN, code : Byte, props : PropertySets]
  BY ConnAckFields
<1>2. body(V5, p) = d
  BY SmallBodies, ZeroByte, Zenon
<1>3. x \in Byte /\ y \in Byte
  BY <1>1 DEF boolToByte, Byte
<1>4. d[1] = x /\ d[2] = y /\ from(d, 3) = <<0>> /\ Len(d) = 3
  <2> HIDE DEF x, y
  <2> DEFINE z == <<0>>
  <2>1. z \in Seq(Byte) /\ Len(z) = 1
    BY ZeroByte
  <2>3. z \in Seq(Byte)
    BY <2>1
  <2> HIDE DEF z
  <2>2. /\ (<<x, y>> \o z)[1] = x /\ (<<x, y>> \o z)[2] = y
        /\ from(<<x, y>> \o z, 3) = z /\ Len(<<x, y>> \o z) = 2 + Len(z)
    BY <1>3, <2>3, AfterTwo
  <2> QED BY <2>1, <2>2 DEF z
<1> HIDE DEF d
<1>5. bit(x, 1) = p.present
  BY <1>1, BoolBit
<1>6. received311(p) = [type |-> "CONNACK", present |-> p.present, code |-> p.code, props |-> noProps]
  <2>1. received311(p) = [p EXCEPT !.props = noProps]
    BY Received311Is
  <2> QED BY <1>1, <2>1
<1>7. decodeV5ConnAck(d) = ok(received311(p))
  <2> DEFINE q == [type |-> "CONNACK", present |-> p.present, code |-> p.code, props |-> noProps]
  <2>1. decodeV5ConnAck(d) = withProps(q, ConnAckProps, Raw(noProps, <<>>))
    BY <1>4, <1>5, NoneBehind, Zenon DEF decodeV5ConnAck
  <2>2. withProps(q, ConnAckProps, Raw(noProps, <<>>)) = ok([q EXCEPT !.props = noProps])
    BY WithNoProps
  <2>3. [q EXCEPT !.props = noProps] = q
    <3> DEFINE b == p.present
               c == p.code
               n == noProps
    <3> HIDE DEF b, c, n
    <3>1. [[type |-> "CONNACK", present |-> b, code |-> c, props |-> n] EXCEPT !.props = n]
             = [type |-> "CONNACK", present |-> b, code |-> c, props |-> n]
      OBVIOUS
    <3> QED BY <3>1 DEF b, c, n
  <2> QED BY <1>6, <2>1, <2>2, <2>3, Zenon
<1>8. decodeV5Packet(p.type, header(p), body(V5, p)) = ok(received311(p))
  <2>1. decodeV5Packet(p.type, header(p), d) = decodeV5ConnAck(d)
    BY DecodeV5Is, Zenon
  <2> QED BY <1>2, <1>7, <2>1, Zenon
<1>9. receivedV5(p) = received311(p)
  BY DEF receivedV5
<1>10. Len(body(V5, p)) \in Nat /\ Len(body(V5, p)) >= 2
  BY <1>2, <1>4
<1> QED BY <1>8, <1>9, <1>10, LongBack

\* An identifier and a zero
LEMMA IdAndZero ==
    ASSUME NEW n \in Uint16
    PROVE  LET d == putUint16(n) \o <<0>>
           IN  /\ getUint16(d) = n /\ from(d, 3) = <<0>> /\ Len(d) = 3
               /\ d[3] = 0 /\ from(d, 4) = <<>>
<1> DEFINE z == <<0>>
           a == putUint16(n)
           d == a \o z
<1>1. z \in Seq(Byte) /\ Len(z) = 1 /\ z[1] = 0
  BY ZeroByte
<1>2. z \in Seq(Byte)
  BY <1>1
<1>3. a \in Seq(Byte) /\ Len(a) = 2
  BY PutUint16
<1> HIDE DEF z
<1>4. getUint16(d) = n /\ from(d, 3) = z /\ Len(d) = 2 + Len(z)
  BY <1>2, IdBack
<1> HIDE DEF a
<1>5. d \in Seq(Byte) /\ d[Len(a) + 1] = z[1]
  <2>1. a \in Seq(Byte)
    BY <1>3
  <2>2. d \in Seq(Byte)
    BY <1>2, <2>1, Joined
  <2>3. Len(a) \in Nat /\ 1 \in 1..Len(z)
    BY <1>1, <1>3
  <2>4. (a \o z)[Len(a) + 1] = z[1]
    BY <1>2, <2>1, <2>3
  <2> QED BY <2>2, <2>4
<1> HIDE DEF d
<1>6. Len(d) = 3 /\ d[3] = 0
  BY <1>1, <1>3, <1>4, <1>5
<1>7. from(d, 4) = <<>>
  <2> DEFINE e == <<>>
  <2>1. e \in Seq(Byte)
    BY EmptySeq
  <2>2. d \o e = d
    BY <1>5, ConcatEmptySeq
  <2> HIDE DEF e
  <2>3. d \in Seq(Byte)
    BY <1>5
  <2>4. from(d \o e, Len(d) + 1) = e
    BY <2>1, <2>3, FromAfter
  <2>5. Len(d) + 1 = 4
    BY <1>6
  <2> QED BY <2>2, <2>4, <2>5 DEF e
<1> QED BY <1>4, <1>6, <1>7 DEF d, a, z

\* An acknowledgement with code 0: the zero that stands for no properties is read as the code.
LEMMA AckBack5 ==
    ASSUME NEW p \in Packets, p.type \in AckTypes, p.code = 0
    PROVE  Back5(p)
<1> DEFINE n == p.packetID
           t == p.type
           d == putUint16(n) \o <<0>>
           q == [type |-> t, packetID |-> n, code |-> 0, props |-> noProps]
<1>1. p \in [type : AckTypes, packetID : Uint16, code : Byte, props : PropertySets]
  BY AckFields
<1>2. body(V5, p) = d
  BY SmallBodies, ZeroByte, Zenon
<1>3. n \in Uint16
  BY <1>1
<1>4. getUint16(d) = n /\ Len(d) = 3 /\ d[3] = 0 /\ from(d, 4) = <<>>
  <2> HIDE DEF n
  <2> QED BY <1>3, IdAndZero
<1> HIDE DEF d
<1>5. received311(p) = q
  <2>1. received311(p) = [p EXCEPT !.code = 0, !.props = noProps]
    BY Received311Is
  <2>2. p = [type |-> t, packetID |-> n, code |-> 0, props |-> p.props]
    BY <1>1
  <2> DEFINE x == p.props
             y == noProps
             z == 0
  <2> HIDE DEF t, n, x, y, z
  <2>3. [p EXCEPT !.code = z, !.props = y] = [[p EXCEPT !.code = z] EXCEPT !.props = y]
    BY SMT
  <2>4. [[type |-> t, packetID |-> n, code |-> z, props |-> x] EXCEPT !.code = z]
           = [type |-> t, packetID |-> n, code |-> z, props |-> x]
    OBVIOUS
  <2>5. [[type |-> t, packetID |-> n, code |-> z, props |-> x] EXCEPT !.props = y]
           = [type |-> t, packetID |-> n, code |-> z, props |-> y]
    OBVIOUS
  <2>6. [p EXCEPT !.code = z] = [type |-> t, packetID |-> n, code |-> z, props |-> x]
    BY <2>2, <2>4, Zenon DEF x, z
  <2> QED BY <2>1, <2>3, <2>5, <2>6, Zenon DEF y, z
<1>6. ASSUME NEW keys PROVE decodeV5PubAck(t, keys, d) = ok(q)
  <2>1. decodeV5PubAck(t, keys, d) = withProps(q, keys, Raw(noProps, <<>>))
    <3>1. ~(Len(d) < 3)
      BY <1>4
    <3> QED BY <1>4, <3>1, RawEmpty, Zenon DEF decodeV5PubAck
  <2>2. withProps(q, keys, Raw(noProps, <<>>)) = ok([q EXCEPT !.props = noProps])
    BY WithNoProps
  <2>3. [q EXCEPT !.props = noProps] = q
    <3> DEFINE y == noProps
               z == 0
    <3> HIDE DEF t, n, y, z
    <3>1. [[type |-> t, packetID |-> n, code |-> z, props |-> y] EXCEPT !.props = y]
             = [type |-> t, packetID |-> n, code |-> z, props |-> y]
      OBVIOUS
    <3> QED BY <3>1 DEF y, z
  <2> QED BY <2>1, <2>2, <2>3, Zenon
<1>7. decodeV5Packet(t, header(p), body(V5, p)) = ok(received311(p))
  <2>1. PICK keys : decodeV5Packet(t, header(p), d) = decodeV5PubAck(t, keys, d)
    BY DecodeV5Is
  <2> QED BY <1>2, <1>5, <1>6, <2>1, Zenon
<1>8. receivedV5(p) = received311(p)
  BY DEF receivedV5, AckTypes
<1>9. Len(body(V5, p)) \in Nat /\ Len(body(V5, p)) >= 2
  BY <1>2, <1>4
<1> QED BY <1>7, <1>8, <1>9, LongBack

\* A SUBACK keeps its identifier and its codes.
LEMMA SubAckBack5 ==
    ASSUME NEW p \in Packets, p.type = "SUBACK"
    PROVE  Back5(p)
<1> DEFINE n == p.packetID
           c == p.codes
           r == <<0>> \o c
           d == putUint16(n) \o r
           q == [type |-> "SUBACK", packetID |-> n, codes |-> c, props |-> noProps]
<1>1. p \in [type : {"SUBACK"}, packetID : Uint16, codes : Seq(Byte), props : PropertySets]
  BY SubAckFields
<1>2. body(V5, p) = d
  BY SmallBodies
<1>3. n \in Uint16 /\ c \in Seq(Byte)
  BY <1>1
<1>4. getRawProps(r) = Raw(noProps, c)
  <2> HIDE DEF c
  <2> QED BY <1>3, RawNone
<1>5. r \in Seq(Byte) /\ Len(r) \in Nat
  <2> DEFINE z == <<0>>
  <2>1. z \in Seq(Byte)
    BY ZeroByte
  <2> HIDE DEF z, c
  <2>2. z \o c \in Seq(Byte)
    BY <1>3, <2>1, Joined
  <2> QED BY <2>2, LenProperties DEF z
<1> HIDE DEF r
<1>6. getUint16(d) = n /\ from(d, 3) = r /\ Len(d) = 2 + Len(r)
  <2>1. r \in Seq(Byte)
    BY <1>5
  <2> HIDE DEF n
  <2> QED BY <1>3, <2>1, IdBack
<1> HIDE DEF d
<1>7. received311(p) = q
  <2>1. received311(p) = [p EXCEPT !.props = noProps]
    BY Received311Is
  <2> QED BY <1>1, <2>1
<1>8. decodeV5Sub("SUBACK", n, Raw(noProps, c)) = ok(q)
  <2>1. Raw(noProps, c).ok = TRUE /\ Raw(noProps, c).next = c
    BY RawFields, Zenon
  <2> DEFINE raw == Raw(noProps, c)
  <2>2. raw.ok = TRUE /\ raw.next = c
    BY <2>1
  <2> HIDE DEF raw, n, c
  <2>3. decodeV5Sub("SUBACK", n, raw) =
          withProps([type |-> "SUBACK", packetID |-> n, codes |-> raw.next, props |-> noProps], SubAckProps, raw)
    BY <2>2 DEF decodeV5Sub
  <2>4. withProps(q, SubAckProps, Raw(noProps, c)) = ok([q EXCEPT !.props = noProps])
    BY WithNoProps
  <2>5. [q EXCEPT !.props = noProps] = q
    <3> DEFINE y == noProps
    <3> HIDE DEF y
    <3>1. [[type |-> "SUBACK", packetID |-> n, codes |-> c, props |-> y] EXCEPT !.props = y]
             = [type |-> "SUBACK", packetID |-> n, codes |-> c, props |-> y]
      OBVIOUS
    <3> QED BY <3>1 DEF y
  <2> QED BY <2>2, <2>3, <2>4, <2>5, Zenon DEF raw
<1>9. decodeV5Packet(p.type, header(p), body(V5, p)) = ok(received311(p))
  <2>1. decodeV5Packet(p.type, header(p), d) = decodeV5Sub("SUBACK", getUint16(d), getRawProps(from(d, 3)))
    BY DecodeV5Is, Zenon
  <2> QED BY <1>2, <1>4, <1>6, <1>7, <1>8, <2>1, Zenon
<1>10. receivedV5(p) = received311(p)
  BY DEF receivedV5
<1>11. Len(body(V5, p)) \in Nat /\ Len(body(V5, p)) >= 2
  BY <1>2, <1>5, <1>6
<1> QED BY <1>9, <1>10, <1>11, LongBack

\* An UNSUBACK keeps its identifier.
LEMMA UnsubAckBack5 ==
    ASSUME NEW p \in Packets, p.type = "UNSUBACK"
    PROVE  Back5(p)
<1> DEFINE n == p.packetID
           d == putUint16(n) \o <<0>>
           q == [type |-> "UNSUBACK", packetID |-> n, props |-> noProps]
<1>1. p \in [type : {"UNSUBACK"}, packetID : Uint16, props : PropertySets]
  BY UnsubAckFields
<1>2. body(V5, p) = d
  BY SmallBodies, ZeroByte, Zenon
<1>3. n \in Uint16
  BY <1>1
<1>4. getUint16(d) = n /\ Len(d) = 3 /\ from(d, 3) = <<0>>
  <2> HIDE DEF n
  <2> QED BY <1>3, IdAndZero
<1> HIDE DEF d
<1>5. received311(p) = q
  <2>1. received311(p) = [p EXCEPT !.props = noProps]
    BY Received311Is
  <2> QED BY <1>1, <2>1
<1>6. decodeV5Sub("UNSUBACK", n, Raw(noProps, <<>>)) = ok(q)
  <2> DEFINE raw == Raw(noProps, <<>>)
  <2>1. raw.ok = TRUE
    BY RawFields, Zenon
  <2> HIDE DEF raw, n
  <2>2. decodeV5Sub("UNSUBACK", n, raw) = withProps(q, UnsubAckProps, raw)
    BY <2>1 DEF decodeV5Sub
  <2>3. withProps(q, UnsubAckProps, Raw(noProps, <<>>)) = ok([q EXCEPT !.props = noProps])
    BY WithNoProps
  <2>4. [q EXCEPT !.props = noProps] = q
    <3> DEFINE y == noProps
    <3> HIDE DEF y
    <3>1. [[type |-> "UNSUBACK", packetID |-> n, props |-> y] EXCEPT !.props = y]
             = [type |-> "UNSUBACK", packetID |-> n, props |-> y]
      OBVIOUS
    <3> QED BY <3>1 DEF y
  <2> QED BY <2>2, <2>3, <2>4, Zenon DEF raw
<1>7. decodeV5Packet(p.type, header(p), body(V5, p)) = ok(received311(p))
  <2>1. decodeV5Packet(p.type, header(p), d) = decodeV5Sub("UNSUBACK", getUint16(d), getRawProps(from(d, 3)))
    BY DecodeV5Is, Zenon
  <2> QED BY <1>2, <1>4, <1>5, <1>6, <2>1, NoneBehind, Zenon
<1>8. receivedV5(p) = received311(p)
  BY DEF receivedV5
<1>9. Len(body(V5, p)) \in Nat /\ Len(body(V5, p)) >= 2
  BY <1>2, <1>4
<1> QED BY <1>7, <1>8, <1>9, LongBack

\* An UNSUBSCRIBE keeps its identifier and its topic names.
LEMMA UnsubBack5 ==
    ASSUME NEW p \in Packets, p.type = "UNSUBSCRIBE"
    PROVE  Back5(p)
<1> DEFINE n == p.packetID
           l == listBytes(unsubItems(p))
           r == <<0>> \o l
           d == putUint16(n) \o r
<1>1. n \in Uint16 /\ l \in Seq(Byte) /\ body(V5, p) = d
  BY UnsubBody, ListBytes
<1>2. n \in Uint16 /\ l \in Seq(Byte)
  BY <1>1
<1>3. getRawProps(r) = Raw(noProps, l)
  <2> HIDE DEF l
  <2> QED BY <1>2, RawNone
<1>4. r \in Seq(Byte) /\ Len(r) \in Nat
  <2> DEFINE z == <<0>>
  <2>1. z \in Seq(Byte)
    BY ZeroByte
  <2> HIDE DEF z, l
  <2>2. z \o l \in Seq(Byte)
    BY <1>2, <2>1, Joined
  <2> QED BY <2>2, LenProperties DEF z
<1> HIDE DEF r
<1>5. getUint16(d) = n /\ from(d, 3) = r /\ Len(d) = 2 + Len(r)
  <2>1. r \in Seq(Byte)
    BY <1>4
  <2> HIDE DEF n, l
  <2> QED BY <1>2, <2>1, IdBack
<1> HIDE DEF d, l
<1>6. decodeV5Sub("UNSUBSCRIBE", n, Raw(noProps, l)) = unsubscribe(n, readNames(l, 0), noProps)
  <2> DEFINE raw == Raw(noProps, l)
  <2>1. raw.ok = TRUE /\ raw.next = l /\ raw.props = noProps
    BY RawFields, Zenon
  <2> HIDE DEF raw, n
  <2>2. decodeV5Sub("UNSUBSCRIBE", n, raw) = unsubscribe(n, readNames(raw.next, 0), setProps(UnsubProps, raw.props))
    BY <2>1 DEF decodeV5Sub
  <2> QED BY <2>1, <2>2, SetNoProps, Zenon DEF raw
<1>7. received311(p) = [type |-> "UNSUBSCRIBE", packetID |-> n, props |-> noProps, topicNames |-> p.topicNames]
  <2>1. received311(p) = [p EXCEPT !.props = noProps]
    BY Received311Is
  <2> QED BY <2>1, UnsubFields
<1>8. decodeV5Packet(p.type, header(p), body(V5, p)) = ok(received311(p))
  <2>1. decodeV5Packet(p.type, header(p), d) = decodeV5Sub("UNSUBSCRIBE", getUint16(d), getRawProps(from(d, 3)))
    BY DecodeV5Is, Zenon
  <2>2. decodeV5Packet(p.type, header(p), d) = unsubscribe(n, readNames(l, 0), noProps)
    BY <1>3, <1>5, <1>6, <2>1, Zenon
  <2> QED BY <1>1, <1>7, <2>2, UnsubRead, Zenon DEF l
<1>9. receivedV5(p) = received311(p)
  BY DEF receivedV5
<1>10. Len(body(V5, p)) \in Nat /\ Len(body(V5, p)) >= 2
  BY <1>1, <1>4, <1>5
<1> QED BY <1>8, <1>9, <1>10, LongBack

\* An AUTH keeps its code.
LEMMA AuthBack5 ==
    ASSUME NEW p \in Packets, p.type = "AUTH"
    PROVE  Back5(p)
<1> DEFINE c == p.code
           d == <<c>> \o <<0>>
           q == [type |-> "AUTH", code |-> c, props |-> noProps]
<1>1. p \in [type : {"DISCONNECT", "AUTH"}, code : Byte, props : PropertySets]
  BY CodeFields
<1>2. body(V5, p) = d
  BY SmallBodies, ZeroByte, Zenon
<1>3. c \in Byte
  BY <1>1
<1>4. d[1] = c /\ from(d, 2) = <<0>> /\ Len(d) = 2
  <2> DEFINE z == <<0>>
             a == <<c>>
  <2>1. z \in Seq(Byte) /\ Len(z) = 1
    BY ZeroByte
  <2>2. a \in Seq(Byte) /\ Len(a) = 1 /\ a[1] = c
    BY <1>3, OneByte
  <2>3. a \in Seq(Byte) /\ z \in Seq(Byte)
    BY <2>1, <2>2
  <2> HIDE DEF a, z
  <2>4. from(a \o z, Len(a) + 1) = z
    BY <2>3, FromAfter
  <2>5. Len(a \o z) = Len(a) + Len(z)
    BY <2>3, Joined
  <2>6. Len(a) >= 1
    BY <2>2
  <2>7. (a \o z)[1] = a[1]
    BY <2>3, <2>6, FirstOf
  <2>8. Len(a) + 1 = 2 /\ Len(a) + Len(z) = 2
    BY <2>1, <2>2
  <2> QED BY <2>2, <2>4, <2>5, <2>7, <2>8, Zenon DEF a, z
<1> HIDE DEF d
<1>5. received311(p) = q
  <2>1. received311(p) = [p EXCEPT !.props = noProps]
    BY Received311Is
  <2> QED BY <1>1, <2>1
<1>6. decodeV5Code("AUTH", AuthProps, d) = ok(q)
  <2>1. decodeV5Code("AUTH", AuthProps, d) = withProps(q, AuthProps, Raw(noProps, <<>>))
    BY <1>4, NoneBehind, Zenon DEF decodeV5Code
  <2>2. withProps(q, AuthProps, Raw(noProps, <<>>)) = ok([q EXCEPT !.props = noProps])
    BY WithNoProps
  <2>3. [q EXCEPT !.props = noProps] = q
    <3> DEFINE y == noProps
    <3> HIDE DEF y, c
    <3>1. [[type |-> "AUTH", code |-> c, props |-> y] EXCEPT !.props = y] = [type |-> "AUTH", code |-> c, props |-> y]
      OBVIOUS
    <3> QED BY <3>1 DEF y
  <2> QED BY <2>1, <2>2, <2>3, Zenon
<1>7. decodeV5Packet(p.type, header(p), body(V5, p)) = ok(received311(p))
  <2>1. decodeV5Packet(p.type, header(p), d) = decodeV5Code("AUTH", AuthProps, d)
    BY DecodeV5Is, Zenon
  <2> QED BY <1>2, <1>5, <1>6, <2>1, Zenon
<1>8. receivedV5(p) = received311(p)
  BY DEF receivedV5
<1>9. Len(body(V5, p)) \in Nat /\ Len(body(V5, p)) >= 2
  BY <1>2, <1>4
<1> QED BY <1>7, <1>8, <1>9, LongBack

\* A CONNECT without a will keeps all but its properties.
LEMMA ConnectBack5 ==
    ASSUME NEW p \in Packets, p.type = "CONNECT", ~p.isWill
    PROVE  Back5(p)
<1> DEFINE c == connBytes(p)
           d == <<0>> \o c
           h == connHeader(V5, p)
           n == h \o d
<1>1. /\ h \in Seq(Byte) /\ Len(h) = 4 /\ mqtt \in Seq(Byte) /\ Len(mqtt) = 4
      /\ body(V5, p) = encodeBytesWithLen(mqtt) \o n
  <2>1. V5 \in {V311, V5}
    OBVIOUS
  <2> QED BY <2>1, ConnectBody, ConnBytes
<1>2. c \in Seq(Byte)
  BY ConnBytes
<1>3. d \in Seq(Byte) /\ Len(d) = 1 + Len(c)
  <2> DEFINE z == <<0>>
  <2>1. z \in Seq(Byte) /\ Len(z) = 1
    BY ZeroByte
  <2>2. z \in Seq(Byte)
    BY <2>1
  <2> HIDE DEF z, c
  <2>3. z \o c \in Seq(Byte) /\ Len(z \o c) = Len(z) + Len(c)
    BY <1>2, <2>2, Joined
  <2> QED BY <2>1, <2>3 DEF z
<1>4. getRawProps(d) = Raw(noProps, c)
  <2> HIDE DEF c
  <2> QED BY <1>2, RawNone
<1>5. n \in Seq(Byte)
  <2>1. h \in Seq(Byte) /\ d \in Seq(Byte)
    BY <1>1, <1>3
  <2> HIDE DEF h, d
  <2> QED BY <2>1, Joined
<1>6. getBinaryData(body(V5, p)) = [ok |-> TRUE, data |-> mqtt, next |-> n]
  <2>1. Len(mqtt) \in Uint16
    BY <1>1 DEF Uint16, maxUint16
  <2>2. mqtt \in Seq(Byte) /\ n \in Seq(Byte)
    BY <1>1, <1>5
  <2> HIDE DEF n
  <2>3. getBinaryData(encodeBytesWithLen(mqtt) \o n) = [ok |-> TRUE, data |-> mqtt, next |-> n]
    BY <2>1, <2>2, ReadBack
  <2> QED BY <1>1, <2>3
<1>7. /\ n[1] = V5 /\ n[2] = connFlags(p)
      /\ getUint16(from(n, 3)) = p.keepalive /\ from(n, 5) = d
      /\ Len(n) = 4 + Len(d)
  <2>1. V5 \in {V311, V5}
    OBVIOUS
  <2>2. d \in Seq(Byte)
    BY <1>3
  <2> HIDE DEF d
  <2> QED BY <2>1, <2>2, ConnNext
<1>8. ~(Len(n) < 5)
  <2>1. Len(c) \in Nat
    BY <1>2, LenProperties
  <2> HIDE DEF c, d, n
  <2> QED BY <1>3, <1>7, <2>1
<1> HIDE DEF c, d, n
<1>9. decodeV5Conn([ok |-> TRUE, data |-> mqtt, next |-> n])
        = v5Conn(connFlags(p), p.keepalive, Raw(noProps, c))
  <2> DEFINE b == [ok |-> TRUE, data |-> mqtt, next |-> n]
  <2>1. b.ok = TRUE /\ b.next = n
    BY Zenon
  <2> HIDE DEF b
  <2>2. decodeV5Conn(b) = v5Conn(n[2], getUint16(from(n, 3)), getRawProps(from(n, 5)))
    BY <1>7, <1>8, <2>1 DEF decodeV5Conn
  <2> QED BY <1>4, <1>7, <2>2, Zenon DEF b
<1>10. v5Conn(connFlags(p), p.keepalive, Raw(noProps, c))
         = conn(connFlags(p), p.keepalive, noProps, connFields(connFlags(p), c))
  <2>1. Raw(noProps, c).ok = TRUE /\ Raw(noProps, c).props = noProps /\ Raw(noProps, c).next = c
    BY RawFields
  <2> QED BY <2>1, SetNoProps, Zenon DEF v5Conn
<1>11. decodeV5Packet(p.type, header(p), body(V5, p)) = ok(received311(p))
  <2>1. decodeV5Packet(p.type, header(p), body(V5, p)) = decodeV5Conn(getBinaryData(body(V5, p)))
    BY DecodeV5Is, Zenon
  <2> QED BY <1>6, <1>9, <1>10, <2>1, ConnFieldsBack, ConnBack, Zenon DEF c
<1>12. receivedV5(p) = received311(p)
  BY DEF receivedV5
<1>13. Len(body(V5, p)) \in Nat /\ Len(body(V5, p)) >= 2
  <2> DEFINE e == encodeBytesWithLen(mqtt)
  <2>1. e \in Seq(Byte) /\ Len(e) = 2 + Len(mqtt)
    BY <1>1, EncodeBytes
  <2>2. e \in Seq(Byte)
    BY <2>1
  <2> HIDE DEF e
  <2>3. Len(e \o n) = Len(e) + Len(n) /\ Len(n) \in Nat
    BY <1>5, <2>2, Joined, LenProperties
  <2>4. Len(body(V5, p)) = Len(e) + Len(n)
    BY <1>1, <2>3 DEF e
  <2> QED BY <1>1, <2>1, <2>3, <2>4
<1> QED BY <1>11, <1>12, <1>13, LongBack

\* A SUBSCRIBE is read as it was written, its properties included.
LEMMA SubscribeBack5 ==
    ASSUME NEW p \in Packets, p.type = "SUBSCRIBE", agreedV5(p), ~tooLarge(body(V5, p))
    PROVE  Back5(p)
<1> DEFINE n == p.packetID
           l == listBytes(subItems(p))
           x == subscribeProps(p.props)
           a == varIntBytes(Len(x))
           r == a \o (x \o l)
           i == putUint16(n)
           d == i \o r
<1>1. n \in Uint16 /\ l \in Seq(Byte) /\ x \in Seq(Byte) /\ body(V5, p) = writeV5(i, x, l)
  BY SubscribeBody, ListBytes, SubscribePropsType
<1>2. i \in Seq(Byte) /\ Len(i) = 2
  BY <1>1, PutUint16
<1>3. body(V5, p) = d
  <2>1. i \in Seq(Byte) /\ x \in Seq(Byte) /\ l \in Seq(Byte)
    BY <1>1, <1>2
  <2> HIDE DEF i, x, l
  <2>2. writeV5(i, x, l) = i \o (varIntBytes(Len(x)) \o (x \o l))
    BY <2>1, WritePropsType
  <2> QED BY <1>1, <2>2
<1>4. Len(x) \in Nat /\ Len(l) \in Nat
  BY <1>1, LenProperties
<1>5. a \in Seq(Byte) /\ Len(a) \in Nat
  <2>1. a \in Seq(Byte)
    <3> HIDE DEF x
    <3> QED BY <1>4, VarIntBytesType
  <2> HIDE DEF a
  <2> QED BY <2>1, LenProperties
<1>6. r \in Seq(Byte) /\ Len(r) = Len(a) + (Len(x) + Len(l))
  <2> DEFINE y == x \o l
  <2>1. y \in Seq(Byte) /\ Len(y) = Len(x) + Len(l)
    <3>1. x \in Seq(Byte) /\ l \in Seq(Byte)
      BY <1>1
    <3> HIDE DEF x, l
    <3> QED BY <3>1, Joined
  <2>2. y \in Seq(Byte) /\ a \in Seq(Byte)
    BY <1>5, <2>1
  <2> HIDE DEF a, y
  <2>3. a \o y \in Seq(Byte) /\ Len(a \o y) = Len(a) + Len(y)
    BY <2>2, Joined
  <2> QED BY <2>1, <2>3 DEF y
<1> HIDE DEF r
<1>7. getUint16(d) = n /\ from(d, 3) = r /\ Len(d) = 2 + Len(r)
  <2>1. n \in Uint16 /\ r \in Seq(Byte)
    BY <1>1, <1>6
  <2> HIDE DEF n
  <2> QED BY <2>1, IdBack
<1> HIDE DEF d
<1>8. Len(x) < varIntLimit
  <2>1. Len(d) <= maxMsgSize
    <3>1. ~(Len(d) > maxMsgSize)
      BY <1>3 DEF tooLarge
    <3>2. Len(d) \in Nat
      <4> HIDE DEF a, x, l
      <4> QED BY <1>4, <1>5, <1>6, <1>7
    <3> QED BY <3>1, <3>2, maxMsgSizeAssumption
  <2> HIDE DEF a, x, l
  <2> QED BY <1>4, <1>5, <1>6, <1>7, <2>1, maxMsgSizeAssumption DEF varIntLimit
<1>9. readProps(x) = PropsRead(p.props) /\ setProps(SubscribeProps, p.props) = p.props
  BY SubscribePropsRead
<1>10. getRawProps(r) = Raw(p.props, l)
  <2> DEFINE q == p.props
  <2>1. x \in Seq(Byte) /\ l \in Seq(Byte) /\ readProps(x) = PropsRead(q)
    BY <1>1, <1>9
  <2> HIDE DEF x, l, q
  <2>2. getRawProps(varIntBytes(Len(x)) \o (x \o l)) = Raw(q, l)
    BY <1>8, <2>1, RawPropsBack
  <2> QED BY <2>2 DEF r, q
<1> HIDE DEF x, l
<1>11. decodeV5Sub("SUBSCRIBE", n, Raw(p.props, l)) = subscribe(n, readNames(l, 1), p.props)
  <2> DEFINE raw == Raw(p.props, l)
  <2>1. raw.ok = TRUE /\ raw.next = l /\ raw.props = p.props
    BY RawFields, Zenon
  <2> HIDE DEF raw, n
  <2>2. decodeV5Sub("SUBSCRIBE", n, raw) = subscribe(n, readNames(raw.next, 1), setProps(SubscribeProps, raw.props))
    BY <2>1 DEF decodeV5Sub
  <2> QED BY <1>9, <2>1, <2>2, Zenon DEF raw
<1>12. receivedV5(p) = [type |-> "SUBSCRIBE", packetID |-> n, props |-> p.props, topics |-> p.topics]
  BY SubscribeFields DEF receivedV5
<1>13. decodeV5Packet(p.type, header(p), body(V5, p)) = ok(receivedV5(p))
  <2>1. decodeV5Packet(p.type, header(p), d) = decodeV5Sub("SUBSCRIBE", getUint16(d), getRawProps(from(d, 3)))
    BY DecodeV5Is, Zenon
  <2>2. decodeV5Packet(p.type, header(p), d) = subscribe(n, readNames(l, 1), p.props)
    BY <1>7, <1>10, <1>11, <2>1, Zenon
  <2> QED BY <1>3, <1>12, <2>2, SubscribeRead, Zenon DEF l
<1>14. Len(body(V5, p)) \in Nat /\ Len(body(V5, p)) >= 2
  <2> HIDE DEF a
  <2> QED BY <1>3, <1>4, <1>5, <1>6, <1>7
<1> QED BY <1>13, <1>14, LongBack

\* The packets on which the halves agree
LEMMA AgreedBack ==
    ASSUME NEW p \in Packets, agreedV5(p), ~tooLarge(body(V5, p))
    PROVE  Back5(p)
<1>1. \/ p.type = "CONNACK" \/ p.type = "SUBACK" \/ p.type = "UNSUBSCRIBE" \/ p.type = "UNSUBACK"
      \/ p.type \in {"PINGREQ", "PINGRESP"} \/ p.type = "AUTH"
      \/ p.type = "CONNECT" /\ ~p.isWill
      \/ p.type \in AckTypes /\ p.code = 0
      \/ p.type = "SUBSCRIBE"
  BY DEF agreedV5, AckTypes
<1> QED BY <1>1, ConnectBack5, ConnAckBack5, AckBack5, SubscribeBack5, SubAckBack5, UnsubBack5, UnsubAckBack5,
           PingBack5, AuthBack5

\* Before the first Decode there is no packet to agree on.
LEMMA NothingAgreed == ASSUME last = nothing PROVE ~agreedV5(last.of)
<1>1. last.of.type = "none"
  BY DEF nothing
<1> QED BY <1>1 DEF agreedV5

\* Only Decode changes the last result, and while the connection is open it has a whole packet.
LEMMA V5Step == Sync /\ RoundTripV5 /\ [Next]_vars => RoundTripV5'
<1> SUFFICES ASSUME Sync, RoundTripV5, [Next]_vars, version' = V5, open', agreedV5(last'.of)
             PROVE  /\ last'.ok
                    /\ last'.pkt = IF last'.of.type = "SUBSCRIBE" THEN last'.of ELSE received311(last'.of)
  BY DEF RoundTripV5
<1>0. version' = version /\ open
  BY DEF Next, WriteTo, Cut, Decode, vars
<1>1. CASE last' = last
  BY <1>0, <1>1 DEF RoundTripV5
<1>2. CASE Decode
  <2> DEFINE p == Head(unread)
  <2>1. unread # <<>> /\ p \in Packets /\ ~tooLarge(body(version, p))
    BY <1>0, <1>2, DecodeOpen
  <2>2. PICK s \in Seq(Byte) : received(decoded(version, bytes(version, p) \o s), p)
    BY <1>0, <1>2, DecodeOpen
  <2> HIDE DEF p
  <2>3. V5 \in {V311, V5} /\ V5 # V311
    BY Versions45
  <2>4. decoded(V5, bytes(V5, p) \o s) =
           IF Len(body(V5, p)) = 0 THEN decodeEmpty(V5, header(p))
           ELSE IF Len(body(V5, p)) < 2 THEN bad
           ELSE IF V5 = V311 THEN decodeV311Packet(p.type, header(p), body(V5, p))
           ELSE decodeV5Packet(p.type, header(p), body(V5, p))
    BY <1>0, <2>1, <2>3, DecodedIs
  <2>5. last'.of = p
    BY <2>2 DEF received
  <2>6. Back5(p)
    BY <1>0, <2>1, <2>5, AgreedBack
  <2>7. decoded(V5, bytes(V5, p) \o s) = ok(receivedV5(p))
    <3> DEFINE n == Len(body(V5, p))
               e == decodeEmpty(V5, header(p))
               b == bad
               c == decodeV311Packet(p.type, header(p), body(V5, p))
               d == decodeV5Packet(p.type, header(p), body(V5, p))
               w == decoded(V5, bytes(V5, p) \o s)
               q == ok(receivedV5(p))
    <3>1. w = IF n = 0 THEN e ELSE IF n < 2 THEN b ELSE IF V5 = V311 THEN c ELSE d
      BY <2>4
    <3>2. (IF n = 0 THEN e ELSE IF n < 2 THEN b ELSE d) = q
      BY <2>6 DEF Back5
    <3> HIDE DEF n, e, b, c, d, w, q
    <3>3. w = q
      BY <2>3, <3>1, <3>2
    <3> QED BY <3>3 DEF w, q
  <2>8. received(ok(receivedV5(p)), p)
    BY <1>0, <2>2, <2>7, Zenon
  <2>9. last'.ok = TRUE /\ last'.pkt = receivedV5(p)
    BY <2>1, <2>8, ReceivedIs
  <2> QED BY <2>5, <2>9 DEF receivedV5
<1> QED BY <1>1, <1>2 DEF Next, WriteTo, Cut, vars

\* With MQTT 5, the packets on which the two halves of the codec agree are read as they were
\* written, for every packet, list and subscription identifier.
THEOREM RoundTripsV5 == Spec => []RoundTripV5
<1>1. Init => Sync /\ RoundTripV5
  <2>1. Init => RoundTripV5
    BY NothingAgreed DEF Init, RoundTripV5
  <2> QED BY <2>1, SyncStarts
<1>2. Sync /\ RoundTripV5 /\ [Next]_vars => (Sync /\ RoundTripV5)'
  BY SyncStep, V5Step
<1> QED BY <1>1, <1>2, PTL DEF Spec
=============================================================================
