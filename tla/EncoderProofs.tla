---------------------------- MODULE EncoderProofs ----------------------------
(***************************************************************************)
(* Proofs about Rtcm2Encoder, for every message, seed and line noise: the  *)
(* fields of a message are read back from its data words (BodyReadsBack),  *)
(* a word passes the receiver's parity check exactly if it is undisturbed  *)
(* and in step (WordPasses), and, with the inductive invariant EncInv,     *)
(* nothing wrong is decoded and nothing clean is lost.                     *)
(***************************************************************************)
EXTENDS Rtcm2Encoder, NumberProofs

-----------------------------------------------------------------------------
(* Fields of bits. *)

\* A shift by one more place halves.
LEMMA Shift ==
  ASSUME NEW v \in Int, NEW k \in Nat
  PROVE  v \div 2^k \in Int /\ v \div 2^(k + 1) = (v \div 2^k) \div 2
<1>1. 2^k \in Nat \ {0} /\ 2^(k + 1) = 2 * 2^k BY PowerPositive, PowerOfTwo
<1> DEFINE p == 2^k
<1>2. p \in Nat \ {0} /\ 2^(k + 1) = 2 * p BY <1>1
<1> HIDE DEF p
<1>3. v \div p \in Int BY <1>2, DivMod
<1>4. v \div (2 * p) = (v \div p) \div 2 BY <1>2, DivTwice
<1>5. v \div 2^(k + 1) = (v \div p) \div 2 BY <1>2, <1>4
<1> QED BY <1>3, <1>5 DEF p

\* A shift by no place changes nothing.
LEMMA ShiftByNone ==
  ASSUME NEW v \in Int
  PROVE  v \div 2^0 = v
BY PowerOfZero

\* Numbers that fit n bits, unsigned and as a negative number.
LEMMA ShiftedOut ==
  ASSUME NEW n \in Nat, NEW v \in Int
  PROVE  /\ v \in 0 .. 2^n - 1 => v \div 2^n = 0
         /\ v \in -(2^n) .. -1 => v \div 2^n = -1
<1> DEFINE p == 2^n
<1>1. p \in Nat \ {0} BY PowerPositive
<1> HIDE DEF p
<1>2. ASSUME v \in 0 .. p - 1 PROVE v \div p = 0
  <2>1. (p * 0 + v) \div p = 0 BY <1>1, <1>2, DivModUnique
  <2>2. p * 0 + v = v BY <1>1
  <2> QED BY <2>1, <2>2
<1>3. ASSUME v \in -p .. -1 PROVE v \div p = -1
  <2>1. v + p \in 0 .. p - 1 BY <1>1, <1>3
  <2>2. (p * (-1) + (v + p)) \div p = -1 BY <1>1, <2>1, DivModUnique
  <2>3. p * (-1) + (v + p) = v BY <1>1
  <2> QED BY <2>2, <2>3
<1> QED BY <1>2, <1>3 DEF p

\* A field of n bits is a sequence of n bits.
LEMMA BitsType ==
  ASSUME NEW v \in Int, NEW n \in Nat
  PROVE  /\ Bits(v, n) \in Seq(Bit) /\ Len(Bits(v, n)) = n
         /\ \A i \in 1 .. n : Bits(v, n)[i] = (v \div 2^(n - i)) % 2
<1>1. ASSUME NEW i \in 1 .. n PROVE (v \div 2^(n - i)) % 2 \in Bit
  <2>1. n - i \in Nat OBVIOUS
  <2>2. v \div 2^(n - i) \in Int BY <2>1, Shift
  <2>3. \A x \in Int : x % 2 \in Bit BY DEF Bit
  <2> QED BY <2>2, <2>3
<1>2. Bits(v, n) \in [1 .. n -> Bit] BY <1>1 DEF Bits
<1>3. Bits(v, n) \in Seq(Bit) /\ Len(Bits(v, n)) = n BY <1>2
<1> QED BY <1>3 DEF Bits

\* What Unsigned computes, said by any function that satisfies its equations.
LEMMA UnsignedIs ==
  ASSUME NEW n \in Nat, NEW bits \in [1 .. n -> Bit], NEW u,
         u = [k \in 0 .. n |-> u[k]], u[0] = 0,
         \A k \in 1 .. n : u[k] = 2 * u[k - 1] + bits[k]
  PROVE  Unsigned(bits) = u[n]
<1> DEFINE Eq(f) == f = [k \in 0 .. n |-> IF k = 0 THEN 0 ELSE 2 * f[k - 1] + bits[k]]
           f == CHOOSE g : Eq(g)
           T == {k \in Nat : k <= n => f[k] = u[k]}
<1>1. Len(bits) = n OBVIOUS
<1>2. Unsigned(bits) = f[n] BY <1>1, Zenon DEF Unsigned
<1>3. Eq(u)
  <2>1. ASSUME NEW k \in 0 .. n PROVE u[k] = IF k = 0 THEN 0 ELSE 2 * u[k - 1] + bits[k]
    <3>1. CASE k = 0 BY <3>1
    <3>2. CASE k # 0
      <4>1. k \in 1 .. n BY <3>2
      <4> QED BY Zenon, <3>2, <4>1
    <3> QED BY <3>1, <3>2
  <2> QED BY <2>1, Zenon
<1>4. Eq(f) BY <1>3, Zenon
<1> HIDE DEF f
<1>5. \A k \in 0 .. n : f[k] = IF k = 0 THEN 0 ELSE 2 * f[k - 1] + bits[k] BY <1>4
<1>6. 0 \in T BY <1>5
<1>7. ASSUME NEW k \in Nat, k \in T PROVE k + 1 \in T
  <2>1. SUFFICES ASSUME k + 1 <= n PROVE f[k + 1] = u[k + 1] OBVIOUS
  <2>2. k + 1 \in 1 .. n /\ (k + 1) - 1 = k /\ k <= n BY <2>1
  <2>3. f[k] = u[k] BY <1>7, <2>2
  <2>4. f[k + 1] = 2 * f[k] + bits[k + 1]
    <3>1. k + 1 \in 0 .. n /\ k + 1 # 0 BY <2>2
    <3>2. f[k + 1] = 2 * f[(k + 1) - 1] + bits[k + 1] BY Zenon, <1>5, <3>1
    <3> QED BY <2>2, <3>2
  <2>5. u[k + 1] = 2 * u[k] + bits[k + 1] BY <2>2
  <2> QED BY <2>3, <2>4, <2>5
<1> HIDE DEF T
<1>8. n \in T BY <1>6, <1>7, Induction
<1> QED BY <1>2, <1>8 DEF T

\* An unsigned field that fits is read back.
LEMMA UnsignedBits ==
  ASSUME NEW n \in Nat, NEW v \in 0 .. 2^n - 1
  PROVE  Unsigned(Bits(v, n)) = v
<1> DEFINE u == [k \in 0 .. n |-> v \div 2^(n - k)]
<1>1. v \in Int BY PowerPositive
<1>2. Bits(v, n) \in [1 .. n -> Bit]
  <2>1. Bits(v, n) \in Seq(Bit) /\ Len(Bits(v, n)) = n BY <1>1, BitsType
  <2> QED BY <2>1
<1>3. u = [k \in 0 .. n |-> u[k]] OBVIOUS
<1>4. u[0] = 0
  <2>1. u[0] = v \div 2^n OBVIOUS
  <2> QED BY <1>1, <2>1, ShiftedOut
<1>5. ASSUME NEW k \in 1 .. n PROVE u[k] = 2 * u[k - 1] + Bits(v, n)[k]
  <2> DEFINE m == n - k
             h == v \div 2^m
  <2>1. m \in Nat /\ n - (k - 1) = m + 1 /\ k \in 0 .. n /\ k - 1 \in 0 .. n OBVIOUS
  <2>2. u[k] = h /\ u[k - 1] = v \div 2^(m + 1) /\ Bits(v, n)[k] = h % 2 BY <1>1, <2>1, BitsType
  <2>3. h \in Int /\ v \div 2^(m + 1) = h \div 2 BY <1>1, <2>1, Shift
  <2> HIDE DEF h, u
  <2>4. h = 2 * (h \div 2) + (h % 2) BY <2>3
  <2> QED BY <2>2, <2>3, <2>4
<1>6. u[n] = v
  <2>1. n - n = 0 /\ n \in 0 .. n OBVIOUS
  <2> QED BY <1>1, <2>1, ShiftByNone
<1> HIDE DEF u
<1> QED BY <1>2, <1>3, <1>4, <1>5, <1>6, UnsignedIs

\* The bits behind the first are those of a field one shorter.
LEMMA BitsTail ==
  ASSUME NEW n \in Nat, NEW v \in Int, NEW i \in 1 .. n
  PROVE  Bits(v, n + 1)[i + 1] = Bits(v, n)[i]
<1>1. i + 1 \in 1 .. n + 1 /\ (n + 1) - (i + 1) = n - i /\ n + 1 \in Nat OBVIOUS
<1> QED BY <1>1 DEF Bits

\* The complement of a number has its bits inverted.
LEMMA BitsComplement ==
  ASSUME NEW n \in Nat, NEW v \in Int, NEW i \in 1 .. n
  PROVE  Bits(-1 - v, n)[i] = 1 - Bits(v, n)[i]
<1> DEFINE T == {k \in Nat : (-1 - v) \div 2^k = -1 - (v \div 2^k)}
<1>1. 0 \in T BY ShiftByNone
<1>2. ASSUME NEW k \in Nat, k \in T PROVE k + 1 \in T
  <2>1. PICK h \in Int : h = v \div 2^k BY Shift
  <2>2. (-1 - v) \div 2^k = -1 - h BY <1>2, <2>1
  <2>3. (-1 - v) \div 2^(k + 1) = (-1 - h) \div 2 /\ v \div 2^(k + 1) = h \div 2
    <3>1. (-1 - v) \div 2^(k + 1) = ((-1 - v) \div 2^k) \div 2 /\ v \div 2^(k + 1) = (v \div 2^k) \div 2
      <4>1. -1 - v \in Int OBVIOUS
      <4> QED BY Zenon, <4>1, Shift
    <3> QED BY Zenon, <2>1, <2>2, <3>1
  <2>4. (-1 - h) \div 2 = -1 - (h \div 2) OBVIOUS
  <2> QED BY <2>3, <2>4
<1>3. n - i \in Nat OBVIOUS
<1> HIDE DEF T
<1>4. n - i \in T BY <1>1, <1>2, <1>3, Induction
<1>5. PICK h \in Int : h = v \div 2^(n - i) BY <1>3, Shift
<1>6. (-1 - v) \div 2^(n - i) = -1 - h BY <1>4, <1>5 DEF T
<1>7. (-1 - h) % 2 = 1 - (h % 2) OBVIOUS
<1> QED BY <1>5, <1>6, <1>7 DEF Bits

\* A signed field that fits is read back.
LEMMA SignedBits ==
  ASSUME NEW n \in Nat, NEW v \in -(2^n) .. 2^n - 1
  PROVE  Signed(Bits(v, n + 1)) = v
<1> DEFINE b == Bits(v, n + 1)
           magnitude == [i \in 1 .. Len(b) - 1 |-> (b[i + 1] + b[1]) % 2]
<1>1. v \in Int /\ 2^n \in Nat \ {0} BY PowerPositive
<1>2. b \in Seq(Bit) /\ Len(b) = n + 1 BY <1>1, BitsType
<1>3. b[1] = (v \div 2^n) % 2
  <2>1. 1 \in 1 .. n + 1 /\ (n + 1) - 1 = n OBVIOUS
  <2> QED BY <2>1 DEF Bits
<1>4. \A i \in 1 .. n : b[i + 1] = Bits(v, n)[i] BY <1>1, BitsTail
<1>5. \A i \in 1 .. n : Bits(v, n)[i] \in Bit
  <2>1. Bits(v, n) \in Seq(Bit) /\ Len(Bits(v, n)) = n BY <1>1, BitsType
  <2> QED BY <2>1
<1>6. Signed(b) = IF b[1] = 0 THEN Unsigned(magnitude) ELSE -1 - Unsigned(magnitude) BY DEF Signed
<1> HIDE DEF b
<1>7. CASE v >= 0
  <2>1. v \in 0 .. 2^n - 1 BY <1>1, <1>7
  <2>2. v \div 2^n = 0 BY <1>1, <2>1, ShiftedOut
  <2>3. b[1] = 0 BY <1>3, <2>2
  <2>4. magnitude = Bits(v, n)
    <3>1. Len(b) - 1 = n BY <1>2
    <3>2. \A i \in 1 .. n : (b[i + 1] + b[1]) % 2 = Bits(v, n)[i] BY <1>4, <1>5, <2>3 DEF Bit
    <3>3. Bits(v, n) = [i \in 1 .. n |-> Bits(v, n)[i]] BY DEF Bits
    <3> QED BY <3>1, <3>2, <3>3
  <2> QED BY <1>6, <2>1, <2>3, <2>4, UnsignedBits DEF b
<1>8. CASE v < 0
  <2>1. v \in -(2^n) .. -1 /\ -1 - v \in 0 .. 2^n - 1 BY <1>1, <1>8
  <2>2. v \div 2^n = -1 BY <1>1, <2>1, ShiftedOut
  <2>3. b[1] = 1 BY <1>3, <2>2
  <2>4. magnitude = Bits(-1 - v, n)
    <3>1. Len(b) - 1 = n BY <1>2
    <3>2. ASSUME NEW i \in 1 .. n PROVE (b[i + 1] + b[1]) % 2 = Bits(-1 - v, n)[i]
      <4>1. b[i + 1] = Bits(v, n)[i] /\ Bits(v, n)[i] \in Bit BY <1>4, <1>5
      <4>2. Bits(-1 - v, n)[i] = 1 - Bits(v, n)[i] BY <1>1, BitsComplement
      <4> QED BY <2>3, <4>1, <4>2 DEF Bit
    <3>3. Bits(-1 - v, n) = [i \in 1 .. n |-> Bits(-1 - v, n)[i]] BY DEF Bits
    <3> QED BY <3>1, <3>2, <3>3
  <2>5. Unsigned(magnitude) = -1 - v BY <2>1, <2>4, UnsignedBits
  <2> QED BY <1>1, <1>6, <2>3, <2>5 DEF b
<1> QED BY <1>1, <1>7, <1>8

-----------------------------------------------------------------------------
(* The masks and the receiver's table. *)

\* What the sequence put together from two holds.
LEMMA ConcatFacts ==
  ASSUME NEW s \in Seq(Bit), NEW t \in Seq(Bit)
  PROVE  /\ s \o t \in Seq(Bit) /\ Len(s \o t) = Len(s) + Len(t)
         /\ \A i \in 1 .. Len(s) : (s \o t)[i] = s[i]
         /\ \A i \in Len(s) + 1 .. Len(s) + Len(t) : (s \o t)[i] = t[i - Len(s)]
OBVIOUS

\* A sequence of n bits is a function on 1 .. n, and the other way round.
LEMMA SeqIsFunction ==
  ASSUME NEW n \in Nat, NEW f
  PROVE  f \in Seq(Bit) /\ Len(f) = n <=> f \in [1 .. n -> Bit]
OBVIOUS

\* Two runs of bits of known length, put together.
Chained(s, n, t, m) ==
  /\ s \o t \in [1 .. n + m -> Bit]
  /\ \A i \in 1 .. n : (s \o t)[i] = s[i]
  /\ \A i \in 1 .. m : (s \o t)[n + i] = t[i]

\* They are there one behind the other.
LEMMA Concat ==
  ASSUME NEW n \in Nat, NEW m \in Nat, NEW s \in [1 .. n -> Bit], NEW t \in [1 .. m -> Bit]
  PROVE  Chained(s, n, t, m)
<1> DEFINE c == s \o t
<1>1. s \in Seq(Bit) /\ Len(s) = n /\ t \in Seq(Bit) /\ Len(t) = m BY SeqIsFunction
<1>2. /\ c \in Seq(Bit) /\ Len(c) = Len(s) + Len(t)
      /\ \A i \in 1 .. Len(s) : c[i] = s[i]
      /\ \A i \in Len(s) + 1 .. Len(s) + Len(t) : c[i] = t[i - Len(s)]
  BY Zenon, <1>1, ConcatFacts
<1> HIDE DEF c
<1>3. c \in [1 .. n + m -> Bit]
  <2>1. Len(c) = n + m /\ n + m \in Nat BY <1>1, <1>2
  <2> QED BY <1>2, <2>1, SeqIsFunction
<1>4. \A i \in 1 .. n : c[i] = s[i] BY <1>1, <1>2
<1>5. ASSUME NEW i \in 1 .. m PROVE c[n + i] = t[i]
  <2>1. n + i \in n + 1 .. n + m /\ (n + i) - n = i OBVIOUS
  <2>2. \A k \in n + 1 .. n + m : c[k] = t[k - n] BY <1>1, <1>2
  <2> QED BY <2>1, <2>2
<1> QED BY <1>3, <1>4, <1>5, Zenon DEF c, Chained

\* Inverting bits changes the parity of the ones by how many are inverted.
LEMMA OnesInverted ==
  ASSUME NEW S, IsFiniteSet(S), NEW N, NEW a, NEW b, \A i \in S : a[i] \in Bit,
         \A i \in S : b[i] = IF i \in N THEN 1 - a[i] ELSE a[i]
  PROVE  /\ Ones(a, S) \in Nat /\ Ones(b, S) \in Nat /\ Cardinality(S \cap N) \in Nat
         /\ Ones(b, S) % 2 = (Ones(a, S) + Cardinality(S \cap N)) % 2
<1> DEFINE A == {i \in S : a[i] = 1}
           B == {i \in S : b[i] = 1}
           M == S \cap N
<1>1. B = (A \ M) \cup (M \ A) /\ (A \ M) \cap (M \ A) = {} BY DEF Bit
<1>2. Ones(a, S) = Cardinality(A) /\ Ones(b, S) = Cardinality(B) BY DEF Ones
<1>3. IsFiniteSet(A) /\ IsFiniteSet(M) /\ IsFiniteSet(B)
  <2>1. A \in SUBSET S /\ M \in SUBSET S /\ B \in SUBSET S OBVIOUS
  <2> QED BY <2>1, FS_Subset
<1> HIDE DEF A, B, M
<1>4. /\ IsFiniteSet(A \ M) /\ Cardinality(A \ M) = Cardinality(A) - Cardinality(A \cap M)
      /\ IsFiniteSet(M \ A) /\ Cardinality(M \ A) = Cardinality(M) - Cardinality(M \cap A)
  BY <1>3, FS_Difference
<1>5. Cardinality(B) = Cardinality(A \ M) + Cardinality(M \ A) - Cardinality({})
  BY <1>1, <1>4, FS_Union
<1>6. A \cap M = M \cap A /\ IsFiniteSet(A \cap M) BY <1>3, FS_Intersection
<1>7. /\ Cardinality(A) \in Nat /\ Cardinality(M) \in Nat /\ Cardinality(B) \in Nat
      /\ Cardinality(A \cap M) \in Nat /\ Cardinality({}) = 0
  BY <1>3, <1>6, FS_CardinalityType, FS_EmptySet
<1>8. Cardinality(B) = Cardinality(A) + Cardinality(M) - 2 * Cardinality(A \cap M)
  <2>1. Cardinality(M \cap A) = Cardinality(A \cap M) BY <1>6
  <2>2. \A x, y, z, t, u, v \in Int : x = y - v /\ z = t - v /\ u = x + z - 0 => u = y + t - 2 * v OBVIOUS
  <2>3. Cardinality(A \ M) \in Int /\ Cardinality(M \ A) \in Int BY <1>4, FS_CardinalityType
  <2> QED BY <1>4, <1>5, <1>7, <2>1, <2>2, <2>3
<1>9. Cardinality(B) % 2 = (Cardinality(A) + Cardinality(M)) % 2
  BY <1>7, <1>8
<1> QED BY <1>2, <1>7, <1>9 DEF M

\* A mask is a set of some of the 24 data bits.
LEMMA MaskType ==
  ASSUME NEW j \in 1 .. 6
  PROVE  PARITY_MASKS[j] \in SUBSET (1 .. 24) /\ IsFiniteSet(PARITY_MASKS[j])
<1>1. PARITY_MASKS[j] \in SUBSET (1 .. 24)
  <2>1. CASE j = 1 BY <2>1 DEF PARITY_MASKS
  <2>2. CASE j = 2 BY <2>2 DEF PARITY_MASKS
  <2>3. CASE j = 3 BY <2>3 DEF PARITY_MASKS
  <2>4. CASE j = 4 BY <2>4 DEF PARITY_MASKS
  <2>5. CASE j = 5 BY <2>5 DEF PARITY_MASKS
  <2>6. CASE j = 6 BY <2>6 DEF PARITY_MASKS
  <2> QED BY <2>1, <2>2, <2>3, <2>4, <2>5, <2>6
<1>2. IsFiniteSet(1 .. 24)
  <2>1. 1 \in Int /\ 24 \in Int OBVIOUS
  <2> QED BY Zenon, <2>1, FS_Interval
<1> QED BY <1>1, <1>2, FS_Subset

\* The ones among the 16 bits of a number.
HalfOnes(v) == {i \in 1 .. 16 : Bits(v, 16)[i] = 1}

\* They are the places of the powers of two that the number is the sum of.
LEMMA HalfOnesIs ==
  ASSUME NEW v \in Int
  PROVE  HalfOnes(v) = {i \in 1 .. 16 :
           \/ i = 1 /\ (v \div 32768) % 2 = 1
           \/ i = 2 /\ (v \div 16384) % 2 = 1
           \/ i = 3 /\ (v \div 8192) % 2 = 1
           \/ i = 4 /\ (v \div 4096) % 2 = 1
           \/ i = 5 /\ (v \div 2048) % 2 = 1
           \/ i = 6 /\ (v \div 1024) % 2 = 1
           \/ i = 7 /\ (v \div 512) % 2 = 1
           \/ i = 8 /\ (v \div 256) % 2 = 1
           \/ i = 9 /\ (v \div 128) % 2 = 1
           \/ i = 10 /\ (v \div 64) % 2 = 1
           \/ i = 11 /\ (v \div 32) % 2 = 1
           \/ i = 12 /\ (v \div 16) % 2 = 1
           \/ i = 13 /\ (v \div 8) % 2 = 1
           \/ i = 14 /\ (v \div 4) % 2 = 1
           \/ i = 15 /\ (v \div 2) % 2 = 1
           \/ i = 16 /\ (v \div 1) % 2 = 1}
<1>1. ASSUME NEW i \in 1 .. 16
      PROVE  Bits(v, 16)[i] = 1 <=>
             \/ i = 1 /\ (v \div 32768) % 2 = 1
             \/ i = 2 /\ (v \div 16384) % 2 = 1
             \/ i = 3 /\ (v \div 8192) % 2 = 1
             \/ i = 4 /\ (v \div 4096) % 2 = 1
             \/ i = 5 /\ (v \div 2048) % 2 = 1
             \/ i = 6 /\ (v \div 1024) % 2 = 1
             \/ i = 7 /\ (v \div 512) % 2 = 1
             \/ i = 8 /\ (v \div 256) % 2 = 1
             \/ i = 9 /\ (v \div 128) % 2 = 1
             \/ i = 10 /\ (v \div 64) % 2 = 1
             \/ i = 11 /\ (v \div 32) % 2 = 1
             \/ i = 12 /\ (v \div 16) % 2 = 1
             \/ i = 13 /\ (v \div 8) % 2 = 1
             \/ i = 14 /\ (v \div 4) % 2 = 1
             \/ i = 15 /\ (v \div 2) % 2 = 1
             \/ i = 16 /\ (v \div 1) % 2 = 1
  <2>1. \A k \in 0 .. 15 : k = 16 - i => Bits(v, 16)[i] = (v \div 2^k) % 2 BY DEF Bits
  <2> QED BY <2>1, Powers
<1> QED BY <1>1 DEF HalfOnes

\* The ones of the twelve halves of the receiver's table.
LEMMA HammingOnes ==
  /\ HalfOnes(47903) = {1, 3, 4, 5, 7, 8, 12, 13, 14, 15, 16}
  /\ HalfOnes(13440) = {3, 4, 6, 9}
  /\ HalfOnes(23951) = {2, 4, 5, 6, 8, 9, 13, 14, 15, 16}
  /\ HalfOnes(39488) = {1, 4, 5, 7, 10}
  /\ HalfOnes(44743) = {1, 3, 5, 6, 7, 9, 10, 14, 15, 16}
  /\ HalfOnes(52480) = {1, 2, 5, 6, 8}
  /\ HalfOnes(22371) = {2, 4, 6, 7, 8, 10, 11, 15, 16}
  /\ HalfOnes(59008) = {1, 2, 3, 6, 7, 9}
  /\ HalfOnes(27569) = {2, 3, 5, 7, 8, 9, 11, 12, 16}
  /\ HalfOnes(62272) = {1, 2, 3, 4, 7, 8, 10}
  /\ HalfOnes(35706) = {1, 5, 7, 8, 10, 11, 12, 13, 15}
  /\ HalfOnes(35264) = {1, 5, 8, 9, 10}
<1>1. HalfOnes(47903) = {1, 3, 4, 5, 7, 8, 12, 13, 14, 15, 16} BY HalfOnesIs
<1>2. HalfOnes(13440) = {3, 4, 6, 9} BY HalfOnesIs
<1>3. HalfOnes(23951) = {2, 4, 5, 6, 8, 9, 13, 14, 15, 16} BY HalfOnesIs
<1>4. HalfOnes(39488) = {1, 4, 5, 7, 10} BY HalfOnesIs
<1>5. HalfOnes(44743) = {1, 3, 5, 6, 7, 9, 10, 14, 15, 16} BY HalfOnesIs
<1>6. HalfOnes(52480) = {1, 2, 5, 6, 8} BY HalfOnesIs
<1>7. HalfOnes(22371) = {2, 4, 6, 7, 8, 10, 11, 15, 16} BY HalfOnesIs
<1>8. HalfOnes(59008) = {1, 2, 3, 6, 7, 9} BY HalfOnesIs
<1>9. HalfOnes(27569) = {2, 3, 5, 7, 8, 9, 11, 12, 16} BY HalfOnesIs
<1>10. HalfOnes(62272) = {1, 2, 3, 4, 7, 8, 10} BY HalfOnesIs
<1>11. HalfOnes(35706) = {1, 5, 7, 8, 10, 11, 12, 13, 15} BY HalfOnesIs
<1>12. HalfOnes(35264) = {1, 5, 8, 9, 10} BY HalfOnesIs
<1> QED BY <1>1, <1>2, <1>3, <1>4, <1>5, <1>6, <1>7, <1>8, <1>9, <1>10, <1>11, <1>12

\* What a check covers, from the two halves of its row.
LEMMA CoveredHalves ==
  ASSUME NEW j \in 1 .. 6, NEW v \in Int, NEW w \in Int, HAMMING[j] = <<v, w>>
  PROVE  Covered(j) = HalfOnes(v) \cup {i + 16 : i \in HalfOnes(w)}
<1> DEFINE a == Bits(v, 16)
           b == Bits(w, 16)
           c == a \o b
<1>1. Covered(j) = {i \in 1 .. 32 : c[i] = 1}
  <2>1. HAMMING[j][1] = v /\ HAMMING[j][2] = w OBVIOUS
  <2> QED BY <2>1, Zenon DEF Covered
<1>2. a \in Seq(Bit) /\ Len(a) = 16 /\ b \in Seq(Bit) /\ Len(b) = 16 BY BitsType
<1>3. HalfOnes(v) = {i \in 1 .. 16 : a[i] = 1} /\ HalfOnes(w) = {i \in 1 .. 16 : b[i] = 1} BY DEF HalfOnes
<1> HIDE DEF a, b
<1>4. (\A i \in 1 .. 16 : c[i] = a[i]) /\ (\A i \in 17 .. 32 : c[i] = b[i - 16])
  <2>1. \A s, t \in Seq(Bit) :
          /\ \A i \in 1 .. Len(s) : (s \o t)[i] = s[i]
          /\ \A i \in Len(s) + 1 .. Len(s) + Len(t) : (s \o t)[i] = t[i - Len(s)]
    BY ConcatFacts
  <2>2. \A i \in 1 .. Len(a) : c[i] = a[i] BY Zenon, <1>2, <2>1
  <2>3. \A i \in Len(a) + 1 .. Len(a) + Len(b) : c[i] = b[i - Len(a)] BY Zenon, <1>2, <2>1
  <2> HIDE DEF c
  <2> QED BY <1>2, <2>2, <2>3
<1> HIDE DEF c
<1>5. ASSUME NEW i \in Covered(j) PROVE i \in HalfOnes(v) \cup {k + 16 : k \in HalfOnes(w)}
  <2>1. CASE i \in 1 .. 16 BY <1>1, <1>3, <1>4, <2>1
  <2>2. CASE i \in 17 .. 32
    <3>1. i - 16 \in 1 .. 16 /\ c[i] = b[i - 16] /\ i = (i - 16) + 16 BY <1>4, <2>2
    <3> QED BY <1>1, <1>3, <3>1
  <2> QED BY <1>1, <2>1, <2>2
<1>6. ASSUME NEW i \in HalfOnes(v) PROVE i \in Covered(j) BY <1>1, <1>3, <1>4
<1>7. ASSUME NEW k \in HalfOnes(w) PROVE k + 16 \in Covered(j)
  <2>1. k \in 1 .. 16 /\ b[k] = 1 BY <1>3
  <2>2. k + 16 \in 17 .. 32 /\ (k + 16) - 16 = k BY <2>1
  <2>3. c[k + 16] = b[(k + 16) - 16] BY <1>4, <2>2
  <2> QED BY <1>1, <2>1, <2>2, <2>3
<1> QED BY <1>5, <1>6, <1>7

\* The receiver's table covers the right bit of the word before and the data
\* bits that the encoder's masks name.
LEMMA CoveredIsMask ==
  ASSUME NEW j \in 1 .. 6
  PROVE  Covered(j) = {IF j \in SEED_IS_D29 THEN 1 ELSE 2} \cup {i + 2 : i \in PARITY_MASKS[j]}
<1>1. CASE j = 1
  <2>1. Covered(j) = HalfOnes(47903) \cup {i + 16 : i \in HalfOnes(13440)}
    BY <1>1, CoveredHalves DEF HAMMING
  <2> QED BY <1>1, <2>1, HammingOnes DEF PARITY_MASKS, SEED_IS_D29
<1>2. CASE j = 2
  <2>1. Covered(j) = HalfOnes(23951) \cup {i + 16 : i \in HalfOnes(39488)}
    BY <1>2, CoveredHalves DEF HAMMING
  <2> QED BY <1>2, <2>1, HammingOnes DEF PARITY_MASKS, SEED_IS_D29
<1>3. CASE j = 3
  <2>1. Covered(j) = HalfOnes(44743) \cup {i + 16 : i \in HalfOnes(52480)}
    BY <1>3, CoveredHalves DEF HAMMING
  <2> QED BY <1>3, <2>1, HammingOnes DEF PARITY_MASKS, SEED_IS_D29
<1>4. CASE j = 4
  <2>1. Covered(j) = HalfOnes(22371) \cup {i + 16 : i \in HalfOnes(59008)}
    BY <1>4, CoveredHalves DEF HAMMING
  <2> QED BY <1>4, <2>1, HammingOnes DEF PARITY_MASKS, SEED_IS_D29
<1>5. CASE j = 5
  <2>1. Covered(j) = HalfOnes(27569) \cup {i + 16 : i \in HalfOnes(62272)}
    BY <1>5, CoveredHalves DEF HAMMING
  <2> QED BY <1>5, <2>1, HammingOnes DEF PARITY_MASKS, SEED_IS_D29
<1>6. CASE j = 6
  <2>1. Covered(j) = HalfOnes(35706) \cup {i + 16 : i \in HalfOnes(35264)}
    BY <1>6, CoveredHalves DEF HAMMING
  <2> QED BY <1>6, <2>1, HammingOnes DEF PARITY_MASKS, SEED_IS_D29
<1> QED BY <1>1, <1>2, <1>3, <1>4, <1>5, <1>6

-----------------------------------------------------------------------------
(* The parity of a word. *)

\* A word as it arrives with noise on it, and what the receiver makes of it
\* behind two bits.
Arrived(b, noise) == [i \in 1 .. 30 |-> IF i \in noise THEN 1 - b[i] ELSE b[i]]
Taken(p29, p30, word) == Restored(<<p29, p30>> \o word)

\* The error of a bit of the seed.
Differ(x, y) == IF x = y THEN 0 ELSE 1

\* The word taken: the bits before it, the data bits with the inversion undone,
\* and the parity bits as they came.
TakenRight(p29, p30, word) ==
  LET w == Taken(p29, p30, word) IN
  /\ w \in [1 .. 32 -> Bit] /\ w[1] = p29 /\ w[2] = p30
  /\ \A i \in 1 .. 24 : w[i + 2] = IF p30 = word[i] THEN 0 ELSE 1
  /\ \A j \in 1 .. 6 : w[26 + j] = word[24 + j]

\* Any word is taken so.
LEMMA TakenFacts ==
  ASSUME NEW p29 \in Bit, NEW p30 \in Bit, NEW word \in [1 .. 30 -> Bit]
  PROVE  TakenRight(p29, p30, word)
<1> DEFINE g == <<p29, p30>> \o word
           w == Taken(p29, p30, word)
<1>1. <<p29, p30>> \in [1 .. 2 -> Bit] /\ 2 \in Nat /\ 30 \in Nat OBVIOUS
<1>2. /\ \A i \in 1 .. 2 : g[i] = <<p29, p30>>[i]
      /\ \A i \in 1 .. 30 : g[2 + i] = word[i]
  <2>1. Chained(<<p29, p30>>, 2, word, 30) BY <1>1, Concat
  <2> QED BY <2>1, Zenon DEF Chained
<1>3. w = [i \in 1 .. 32 |-> IF i \in 3 .. 26 /\ g[2] = 1 THEN 1 - g[i] ELSE g[i]]
  BY DEF Taken, Restored
<1> HIDE DEF g, w
<1>4. g[1] = p29 /\ g[2] = p30 /\ \A i \in 3 .. 32 : g[i] = word[i - 2]
  <2>1. g[1] = p29 /\ g[2] = p30 BY <1>2
  <2>2. ASSUME NEW i \in 3 .. 32 PROVE g[i] = word[i - 2]
    <3>1. i - 2 \in 1 .. 30 /\ 2 + (i - 2) = i OBVIOUS
    <3> QED BY <1>2, <3>1
  <2> QED BY <2>1, <2>2
<1>5. w[1] = p29 /\ w[2] = p30 BY <1>3, <1>4
<1>6. ASSUME NEW i \in 1 .. 24 PROVE w[i + 2] = IF p30 = word[i] THEN 0 ELSE 1
  <2>1. i + 2 \in 3 .. 26 /\ i + 2 \in 3 .. 32 /\ i + 2 \in 1 .. 32 /\ (i + 2) - 2 = i OBVIOUS
  <2>2. w[i + 2] = IF p30 = 1 THEN 1 - word[i] ELSE word[i] BY <1>3, <1>4, <2>1
  <2>3. p30 \in {0, 1} /\ word[i] \in {0, 1}
    <3>1. i \in 1 .. 30 OBVIOUS
    <3> QED BY <3>1 DEF Bit
  <2> QED BY <2>2, <2>3
<1>7. ASSUME NEW j \in 1 .. 6 PROVE w[26 + j] = word[24 + j]
  <2>1. 26 + j \in 3 .. 32 /\ 26 + j \in 1 .. 32 /\ 26 + j \notin 3 .. 26 /\ (26 + j) - 2 = 24 + j OBVIOUS
  <2> QED BY <1>3, <1>4, <2>1
<1>8. ASSUME NEW i \in 1 .. 32 PROVE w[i] \in Bit
  <2>1. g[i] \in Bit
    <3>1. CASE i \in {1, 2} BY <1>4, <3>1
    <3>2. CASE i \notin {1, 2}
      <4>1. i \in 3 .. 32 /\ i - 2 \in 1 .. 30 BY <3>2
      <4> QED BY <1>4, <4>1
    <3> QED BY <3>1, <3>2
  <2> QED BY <1>3, <2>1 DEF Bit
<1>9. w \in [1 .. 32 -> Bit]
  <2>1. w = [i \in 1 .. 32 |-> w[i]] BY <1>3
  <2> QED BY <1>8, <2>1
<1> QED BY <1>5, <1>6, <1>7, <1>9, Zenon DEF w, TakenRight

\* Each element of a sequence.
LEMMA ElementOf ==
  ASSUME NEW T, NEW s \in Seq(T), NEW i \in 1 .. Len(s)
  PROVE  s[i] \in T
OBVIOUS

\* A sequence with one more element.
LEMMA AppendedTo ==
  ASSUME NEW T, NEW s \in Seq(T), NEW x \in T
  PROVE  /\ Append(s, x) \in Seq(T) /\ Len(Append(s, x)) = Len(s) + 1
         /\ \A i \in 1 .. Len(s) : Append(s, x)[i] = s[i]
         /\ Append(s, x)[Len(s) + 1] = x
OBVIOUS

\* A sequence is what its elements are.
LEMMA Elements ==
  ASSUME NEW T, NEW s \in Seq(T)
  PROVE  s = [i \in 1 .. Len(s) |-> s[i]]
OBVIOUS

\* Each of a row of words.
LEMMA WordOf ==
  ASSUME NEW data \in Seq([1 .. 24 -> Bit]), NEW i \in 1 .. Len(data)
  PROVE  data[i] \in [1 .. 24 -> Bit]
<1> DEFINE T == [1 .. 24 -> Bit]
<1> SUFFICES data[i] \in T OBVIOUS
<1>1. data \in Seq(T) OBVIOUS
<1> HIDE DEF T
<1> QED BY <1>1, ElementOf

\* A word encoded: the data bits, inverted behind a D30 of 1, and the parity bits.
LEMMA EncodedWord ==
  ASSUME NEW data \in [1 .. 24 -> Bit], NEW s29 \in Bit, NEW s30 \in Bit
  PROVE  LET b == encode_word(data, s29, s30) IN
         /\ b \in [1 .. 30 -> Bit]
         /\ \A i \in 1 .. 24 : b[i] = IF data[i] = s30 THEN 0 ELSE 1
         /\ \A j \in 1 .. 6 :
              b[24 + j] = ((IF j \in SEED_IS_D29 THEN s29 ELSE s30) + Ones(data, PARITY_MASKS[j])) % 2
<1> DEFINE inv == [i \in 1 .. 24 |-> (data[i] + s30) % 2]
           par == parity_bits(data, s29, s30)
           b == encode_word(data, s29, s30)
           seed(j) == IF j \in SEED_IS_D29 THEN s29 ELSE s30
<1>1. \A j \in 1 .. 6 : par[j] = (seed(j) + Ones(data, PARITY_MASKS[j])) % 2 BY DEF parity_bits
<1>2. ASSUME NEW j \in 1 .. 6 PROVE par[j] \in Bit
  <2>1. Ones(data, PARITY_MASKS[j]) \in Nat
    <3>1. {i \in PARITY_MASKS[j] : data[i] = 1} \in SUBSET PARITY_MASKS[j] OBVIOUS
    <3> QED BY <3>1, MaskType, FS_Subset, FS_CardinalityType DEF Ones
  <2>2. seed(j) \in Nat BY DEF Bit
  <2> QED BY <1>1, <2>1, <2>2 DEF Bit
<1>3. par \in [1 .. 6 -> Bit]
  <2>1. par = [j \in 1 .. 6 |-> par[j]] BY DEF parity_bits
  <2> QED BY <1>2, <2>1
<1>4. inv \in [1 .. 24 -> Bit]
  <2>1. \A x, y \in Bit : (x + y) % 2 \in Bit BY DEF Bit
  <2> QED BY <2>1
<1>5. b = inv \o par BY DEF encode_word
<1>6. ASSUME NEW i \in 1 .. 24 PROVE inv[i] = IF data[i] = s30 THEN 0 ELSE 1
  <2>1. data[i] \in {0, 1} /\ s30 \in {0, 1} BY DEF Bit
  <2>2. inv[i] = (data[i] + s30) % 2 OBVIOUS
  <2> QED BY <2>1, <2>2
<1> HIDE DEF inv, par, b
<1>7. 24 + 6 = 30 /\ 24 \in Nat /\ 6 \in Nat OBVIOUS
<1>8. /\ inv \o par \in [1 .. 24 + 6 -> Bit]
      /\ \A i \in 1 .. 24 : (inv \o par)[i] = inv[i]
      /\ \A i \in 1 .. 6 : (inv \o par)[24 + i] = par[i]
  <2>1. Chained(inv, 24, par, 6) BY <1>3, <1>4, <1>7, Concat
  <2> QED BY <2>1, Zenon DEF Chained
<1>9. b \in [1 .. 30 -> Bit] BY <1>5, <1>7, <1>8
<1>10. \A i \in 1 .. 24 : b[i] = inv[i] BY <1>5, <1>8
<1>11. \A j \in 1 .. 6 : b[24 + j] = par[j] BY <1>5, <1>8
<1> QED BY <1>1, <1>6, <1>9, <1>10, <1>11 DEF b

\* What arrives are 30 bits.
LEMMA ArrivedFacts ==
  ASSUME NEW b \in [1 .. 30 -> Bit], NEW noise
  PROVE  Arrived(b, noise) \in [1 .. 30 -> Bit]
BY DEF Arrived, Bit

\* The ones of the receiver's word that a check covers: the bit of the word
\* before and the data bits of the mask.
LEMMA OnesCovered ==
  ASSUME NEW j \in 1 .. 6, NEW w \in [1 .. 32 -> Bit], NEW d, \A i \in 1 .. 24 : d[i] = w[i + 2]
  PROVE  Ones(w, Covered(j)) = (IF j \in SEED_IS_D29 THEN w[1] ELSE w[2]) + Ones(d, PARITY_MASKS[j])
<1> DEFINE M == PARITY_MASKS[j]
           k == IF j \in SEED_IS_D29 THEN 1 ELSE 2
           D == {i \in M : d[i] = 1}
           E == {i + 2 : i \in D}
           C == {i \in Covered(j) : w[i] = 1}
           K == IF w[k] = 1 THEN {k} ELSE {}
<1>1. M \in SUBSET (1 .. 24) /\ IsFiniteSet(M) BY MaskType
<1>2. Covered(j) = {k} \cup {i + 2 : i \in M} BY CoveredIsMask
<1>3. k \in {1, 2} OBVIOUS
<1> HIDE DEF M, k
<1>4. C = K \cup E
  <2>1. ASSUME NEW i \in C PROVE i \in K \cup E
    <3>1. CASE i = k BY <3>1
    <3>2. CASE i # k
      <4>1. PICK m \in M : i = m + 2 BY <1>2, <3>2
      <4>2. d[m] = 1 BY <1>1, <4>1
      <4> QED BY <4>1, <4>2
    <3> QED BY <3>1, <3>2
  <2>2. ASSUME NEW i \in K PROVE i \in C BY <1>2
  <2>3. ASSUME NEW i \in E PROVE i \in C
    <3>1. PICK m \in D : i = m + 2 OBVIOUS
    <3>2. m \in M /\ m \in 1 .. 24 /\ d[m] = 1 BY <1>1
    <3>3. w[m + 2] = 1 BY <3>2
    <3> QED BY <1>2, <3>1, <3>2, <3>3
  <2> HIDE DEF C, K, E
  <2> QED BY <2>1, <2>2, <2>3
<1>5. IsFiniteSet(D) /\ Cardinality(D) \in Nat
  <2>1. D \in SUBSET M OBVIOUS
  <2> QED BY <1>1, <2>1, FS_Subset, FS_CardinalityType
<1>6. IsFiniteSet(E) /\ Cardinality(E) = Cardinality(D)
  <2> DEFINE f == [i \in D |-> i + 2]
  <2>1. f \in Surjection(D, E) BY DEF Surjection
  <2>2. ASSUME NEW x \in D, NEW y \in D, f[x] = f[y] PROVE x = y
    <3>1. x \in Int /\ y \in Int /\ x + 2 = y + 2 BY <1>1, <2>2
    <3> QED BY <3>1
  <2>3. f \in [D -> E] OBVIOUS
  <2> HIDE DEF f, E, D
  <2>4. f \in Injection(D, E) BY <2>2, <2>3 DEF Injection, IsInjective
  <2> QED BY <1>5, <2>1, <2>4, FS_Surjection
<1>7. k \notin E
  <2>1. \A i \in D : i \in 1 .. 24 BY <1>1
  <2> QED BY <1>3, <2>1
<1>8. w[k] \in Bit
  <2>1. k \in 1 .. 32 BY <1>3
  <2> QED BY <2>1
<1> HIDE DEF C, D, E
<1>9. Cardinality(C) = w[k] + Cardinality(D)
  <2>1. CASE w[k] = 1
    <3>1. C = E \cup {k} BY <1>4, <2>1
    <3>2. Cardinality(E \cup {k}) = Cardinality(E) + 1
      <4> QED BY <1>6, <1>7, FS_AddElement
    <3> QED BY <1>5, <1>6, <2>1, <3>1, <3>2
  <2>2. CASE w[k] = 0
    <3>1. C = E BY <1>4, <2>2
    <3> QED BY <1>5, <1>6, <2>2, <3>1
  <2> QED BY <1>8, <2>1, <2>2 DEF Bit
<1>10. w[k] = IF j \in SEED_IS_D29 THEN w[1] ELSE w[2] BY DEF k
<1>11. Ones(w, Covered(j)) = Cardinality(C) /\ Ones(d, M) = Cardinality(D) BY DEF Ones, C, D
<1> QED BY <1>9, <1>10, <1>11 DEF M

\* The noise that a check covers: on the data bits of the mask and on the
\* parity bit itself.
LEMMA NoiseCovered ==
  ASSUME NEW j \in 1 .. 6, NEW noise
  PROVE  LET q == Cardinality(PARITY_MASKS[j] \cap noise) IN
         /\ q \in Nat /\ Cardinality(PARITY_MASKS[j]) \in Nat
         /\ Cardinality(noise \cap (PARITY_MASKS[j] \cup {24 + j})) = IF 24 + j \in noise THEN q + 1 ELSE q
         /\ Cardinality(PARITY_MASKS[j] \ noise) = Cardinality(PARITY_MASKS[j]) - q
<1> DEFINE M == PARITY_MASKS[j]
           Q == M \cap noise
           q == Cardinality(Q)
<1>1. M \in SUBSET (1 .. 24) /\ IsFiniteSet(M) BY MaskType
<1>2. 24 + j \notin M
  <2>1. 24 + j \notin 1 .. 24 OBVIOUS
  <2> QED BY <1>1, <2>1
<1> HIDE DEF M
<1>3. IsFiniteSet(Q) /\ q \in Nat /\ Cardinality(M) \in Nat /\ Cardinality(M \ noise) = Cardinality(M) - q
  BY <1>1, FS_Intersection, FS_CardinalityType, FS_Difference
<1>4. CASE 24 + j \in noise
  <2>1. noise \cap (M \cup {24 + j}) = Q \cup {24 + j} /\ 24 + j \notin Q BY <1>2, <1>4
  <2> HIDE DEF Q
  <2>2. Cardinality(Q \cup {24 + j}) = q + 1 BY <1>3, <2>1, FS_AddElement
  <2> QED BY <1>3, <1>4, <2>1, <2>2 DEF M, Q
<1>5. CASE 24 + j \notin noise
  <2>1. noise \cap (M \cup {24 + j}) = Q BY <1>5
  <2> QED BY <1>3, <1>5, <2>1 DEF M
<1> QED BY <1>4, <1>5

\* The receiver's check j of the word w.
Check(j, w) == Ones(w, Covered(j)) % 2 = w[26 + j]

\* Check j of a word that arrives holds exactly if Flaw says so.
CheckIsFlaw(j, data, s29, s30, p29, p30, noise) ==
  Check(j, Taken(p29, p30, Arrived(encode_word(data, s29, s30), noise)))
  <=> Flaw(j, noise, Differ(s29, p29), Differ(s30, p30)) = 0

\* What a check comes to does not depend on the data: a word fails it exactly
\* by its noise and by how the two bits before it differ.
LEMMA FlawOfWord ==
  ASSUME NEW data \in [1 .. 24 -> Bit], NEW s29 \in Bit, NEW s30 \in Bit, NEW p29 \in Bit, NEW p30 \in Bit,
         NEW noise, NEW j \in 1 .. 6
  PROVE  CheckIsFlaw(j, data, s29, s30, p29, p30, noise)
<1> DEFINE b == encode_word(data, s29, s30)
           word == Arrived(b, noise)
           w == Taken(p29, p30, word)
           M == PARITY_MASKS[j]
           e29 == Differ(s29, p29)
           e30 == Differ(s30, p30)
           d == [i \in 1 .. 24 |-> w[i + 2]]
           N == IF e30 = 1 THEN (1 .. 24) \ noise ELSE noise
           x == IF j \in SEED_IS_D29 THEN p29 ELSE p30
           y == IF j \in SEED_IS_D29 THEN s29 ELSE s30
           e == IF j \in SEED_IS_D29 THEN e29 ELSE e30
           q == Cardinality(M \cap noise)
           c == Cardinality(M \cap N)
           o == Ones(data, M)
           z == IF 24 + j \in noise THEN 1 ELSE 0
           mm == Cardinality(M)
<1>1. /\ b \in [1 .. 30 -> Bit]
      /\ \A i \in 1 .. 24 : b[i] = IF data[i] = s30 THEN 0 ELSE 1
      /\ b[24 + j] = (y + o) % 2
  <2>1. /\ b \in [1 .. 30 -> Bit]
        /\ \A i \in 1 .. 24 : b[i] = IF data[i] = s30 THEN 0 ELSE 1
        /\ \A k \in 1 .. 6 :
             b[24 + k] = ((IF k \in SEED_IS_D29 THEN s29 ELSE s30) + Ones(data, PARITY_MASKS[k])) % 2
    BY EncodedWord
  <2> HIDE DEF b
  <2>2. b[24 + j] = ((IF j \in SEED_IS_D29 THEN s29 ELSE s30) + Ones(data, PARITY_MASKS[j])) % 2
    BY <2>1
  <2> QED BY <2>1, <2>2, Zenon
<1>2. word \in [1 .. 30 -> Bit] /\ \A i \in 1 .. 30 : word[i] = IF i \in noise THEN 1 - b[i] ELSE b[i]
  <2> HIDE DEF b
  <2> QED BY <1>1, ArrivedFacts DEF Arrived
<1>3. /\ w \in [1 .. 32 -> Bit] /\ w[1] = p29 /\ w[2] = p30
      /\ \A i \in 1 .. 24 : w[i + 2] = IF p30 = word[i] THEN 0 ELSE 1
      /\ w[26 + j] = word[24 + j]
  <2> HIDE DEF word
  <2>1. /\ w \in [1 .. 32 -> Bit] /\ w[1] = p29 /\ w[2] = p30
        /\ \A i \in 1 .. 24 : w[i + 2] = IF p30 = word[i] THEN 0 ELSE 1
        /\ \A k \in 1 .. 6 : w[26 + k] = word[24 + k]
    <3>1. TakenRight(p29, p30, word) BY <1>2, TakenFacts
    <3> QED BY <3>1, Zenon DEF TakenRight
  <2> HIDE DEF w
  <2>2. w[26 + j] = word[24 + j] BY <2>1
  <2> QED BY <2>1, <2>2, Zenon
<1> HIDE DEF b, word, w
<1>4. ASSUME NEW i \in 1 .. 24 PROVE data[i] \in Bit /\ d[i] = IF i \in N THEN 1 - data[i] ELSE data[i]
  <2>1. i \in 1 .. 30 /\ data[i] \in {0, 1} BY DEF Bit
  <2>2. b[i] = (IF data[i] = s30 THEN 0 ELSE 1) /\ word[i] = IF i \in noise THEN 1 - b[i] ELSE b[i]
    BY <1>1, <1>2, <2>1
  <2>3. d[i] = IF p30 = word[i] THEN 0 ELSE 1 BY <1>3
  <2>4. s30 \in {0, 1} /\ p30 \in {0, 1} BY DEF Bit
  <2>5. i \in N <=> (IF s30 = p30 THEN i \in noise ELSE i \notin noise) BY DEF Differ
  <2> QED BY <2>1, <2>2, <2>3, <2>4, <2>5 DEF Bit
<1>5. M \in SUBSET (1 .. 24) /\ IsFiniteSet(M) BY MaskType
<1>6. o \in Nat /\ c \in Nat /\ Ones(d, M) \in Nat /\ Ones(d, M) % 2 = (o + c) % 2
  <2>1. \A i \in M : data[i] \in Bit BY <1>4, <1>5
  <2>2. \A i \in M : d[i] = IF i \in N THEN 1 - data[i] ELSE data[i] BY <1>4, <1>5
  <2> HIDE DEF d, M, N
  <2> QED BY <1>5, <2>1, <2>2, OnesInverted
<1>7. /\ q \in Nat /\ mm \in Nat
      /\ Cardinality(noise \cap (M \cup {24 + j})) = q + z
      /\ Cardinality(M \ noise) = mm - q
  <2>1. /\ q \in Nat /\ mm \in Nat
        /\ Cardinality(noise \cap (M \cup {24 + j})) = IF 24 + j \in noise THEN q + 1 ELSE q
        /\ Cardinality(M \ noise) = mm - q
    BY NoiseCovered, Zenon
  <2> HIDE DEF q, mm, M
  <2> QED BY <2>1
<1>8. c = IF e30 = 1 THEN mm - q ELSE q
  <2>1. CASE e30 = 1
    <3>1. M \cap N = M \ noise BY <1>5, <2>1
    <3> HIDE DEF N
    <3> QED BY <1>7, <2>1, <3>1
  <2>2. CASE e30 # 1 BY <2>2
  <2> QED BY <2>1, <2>2
<1>9. Ones(w, Covered(j)) = x + Ones(d, M)
  <2>1. \A i \in 1 .. 24 : d[i] = w[i + 2] OBVIOUS
  <2> HIDE DEF d
  <2> QED BY <1>3, <2>1, OnesCovered
<1>10. w[26 + j] = IF z = 1 THEN 1 - ((y + o) % 2) ELSE (y + o) % 2
  <2>1. 24 + j \in 1 .. 30 OBVIOUS
  <2> QED BY <1>1, <1>2, <1>3, <2>1
<1>11. Flaw(j, noise, e29, e30) = (e + e30 * mm + (q + z)) % 2 BY <1>7 DEF Flaw
<1>12. /\ x \in {0, 1} /\ y \in {0, 1} /\ e = (IF y = x THEN 0 ELSE 1) /\ e30 \in {0, 1} /\ z \in {0, 1}
  BY DEF Differ, Bit
<1>13. e30 * mm = IF e30 = 1 THEN mm ELSE 0 BY <1>7, <1>12
<1> DEFINE n == Ones(d, M)
           r == e30
           wj == w[26 + j]
           all == Ones(w, Covered(j))
           fl == Flaw(j, noise, e29, e30)
           rm == e30 * mm
<1>14. /\ n % 2 = (o + c) % 2 /\ c = (IF r = 1 THEN mm - q ELSE q) /\ all = x + n
       /\ wj = (IF z = 1 THEN 1 - ((y + o) % 2) ELSE (y + o) % 2)
       /\ fl = (e + rm + (q + z)) % 2 /\ rm = (IF r = 1 THEN mm ELSE 0)
       /\ x \in {0, 1} /\ y \in {0, 1} /\ e = (IF y = x THEN 0 ELSE 1) /\ r \in {0, 1} /\ z \in {0, 1}
       /\ n \in Nat /\ o \in Nat /\ c \in Nat /\ q \in Nat /\ mm \in Nat
  BY <1>6, <1>7, <1>8, <1>9, <1>10, <1>11, <1>12, <1>13
<1> HIDE DEF n, r, wj, all, fl, rm, x, y, e, q, c, o, z, mm
<1>15. all % 2 = wj <=> fl = 0 BY <1>14
<1> QED BY <1>15 DEF all, wj, fl, w, word, b, Check, CheckIsFlaw

\* Two more elements make a set larger by two.
LEMMA TwoMore ==
  ASSUME NEW S, NEW a, NEW b, IsFiniteSet(S), a \notin S, b \notin S, a # b
  PROVE  IsFiniteSet(S \cup {a, b}) /\ Cardinality(S \cup {a, b}) = (Cardinality(S) + 1) + 1
<1>1. IsFiniteSet(S \cup {a}) /\ Cardinality(S \cup {a}) = Cardinality(S) + 1 BY FS_AddElement
<1>2. b \notin S \cup {a} OBVIOUS
<1>3. /\ IsFiniteSet((S \cup {a}) \cup {b})
      /\ Cardinality((S \cup {a}) \cup {b}) = Cardinality(S \cup {a}) + 1
  BY <1>1, <1>2, FS_AddElement
<1>4. (S \cup {a}) \cup {b} = S \cup {a, b} OBVIOUS
<1> QED BY <1>1, <1>3, <1>4

\* The second check is over fourteen bits.
LEMMA Fourteen == Cardinality(PARITY_MASKS[2]) = 14
<1> DEFINE S2 == {2, 3}
           S4 == {2, 3, 4, 6}
           S6 == {2, 3, 4, 6, 7, 11}
           S8 == {2, 3, 4, 6, 7, 11, 12, 13}
           S10 == {2, 3, 4, 6, 7, 11, 12, 13, 14, 15}
           S12 == {2, 3, 4, 6, 7, 11, 12, 13, 14, 15, 18, 19}
           S14 == {2, 3, 4, 6, 7, 11, 12, 13, 14, 15, 18, 19, 21, 24}
<1>1. IsFiniteSet(S2) /\ Cardinality(S2) = 2
  <2>1. IsFiniteSet({2}) /\ Cardinality({2}) = 1 BY FS_Singleton
  <2>2. 3 \notin {2} /\ {2} \cup {3} = S2 OBVIOUS
  <2> QED BY <2>1, <2>2, FS_AddElement
<1>2. IsFiniteSet(S4) /\ Cardinality(S4) = 4
  <2>1. S2 \cup {4, 6} = S4 /\ 4 \notin S2 /\ 6 \notin S2 /\ 4 # 6 OBVIOUS
  <2> HIDE DEF S2, S4
  <2>2. IsFiniteSet(S2 \cup {4, 6}) /\ Cardinality(S2 \cup {4, 6}) = (Cardinality(S2) + 1) + 1
    BY Zenon, <1>1, <2>1, TwoMore
  <2> QED BY <1>1, <2>1, <2>2
<1>3. IsFiniteSet(S6) /\ Cardinality(S6) = 6
  <2>1. S4 \cup {7, 11} = S6 /\ 7 \notin S4 /\ 11 \notin S4 /\ 7 # 11 OBVIOUS
  <2> HIDE DEF S4, S6
  <2>2. IsFiniteSet(S4 \cup {7, 11}) /\ Cardinality(S4 \cup {7, 11}) = (Cardinality(S4) + 1) + 1
    BY Zenon, <1>2, <2>1, TwoMore
  <2> QED BY <1>2, <2>1, <2>2
<1>4. IsFiniteSet(S8) /\ Cardinality(S8) = 8
  <2>1. S6 \cup {12, 13} = S8 /\ 12 \notin S6 /\ 13 \notin S6 /\ 12 # 13 OBVIOUS
  <2> HIDE DEF S6, S8
  <2>2. IsFiniteSet(S6 \cup {12, 13}) /\ Cardinality(S6 \cup {12, 13}) = (Cardinality(S6) + 1) + 1
    BY Zenon, <1>3, <2>1, TwoMore
  <2> QED BY <1>3, <2>1, <2>2
<1>5. IsFiniteSet(S10) /\ Cardinality(S10) = 10
  <2>1. S8 \cup {14, 15} = S10 /\ 14 \notin S8 /\ 15 \notin S8 /\ 14 # 15 OBVIOUS
  <2> HIDE DEF S8, S10
  <2>2. IsFiniteSet(S8 \cup {14, 15}) /\ Cardinality(S8 \cup {14, 15}) = (Cardinality(S8) + 1) + 1
    BY Zenon, <1>4, <2>1, TwoMore
  <2> QED BY <1>4, <2>1, <2>2
<1>6. IsFiniteSet(S12) /\ Cardinality(S12) = 12
  <2>1. S10 \cup {18, 19} = S12 /\ 18 \notin S10 /\ 19 \notin S10 /\ 18 # 19 OBVIOUS
  <2> HIDE DEF S10, S12
  <2>2. IsFiniteSet(S10 \cup {18, 19}) /\ Cardinality(S10 \cup {18, 19}) = (Cardinality(S10) + 1) + 1
    BY Zenon, <1>5, <2>1, TwoMore
  <2> QED BY <1>5, <2>1, <2>2
<1>7. IsFiniteSet(S14) /\ Cardinality(S14) = 14
  <2>1. S12 \cup {21, 24} = S14 /\ 21 \notin S12 /\ 24 \notin S12 /\ 21 # 24 OBVIOUS
  <2> HIDE DEF S12, S14
  <2>2. IsFiniteSet(S12 \cup {21, 24}) /\ Cardinality(S12 \cup {21, 24}) = (Cardinality(S12) + 1) + 1
    BY Zenon, <1>6, <2>1, TwoMore
  <2> QED BY <1>6, <2>1, <2>2
<1> QED BY <1>7 DEF PARITY_MASKS

\* Without noise and behind the same two bits every check holds; without noise
\* and behind other bits one of the first two fails.
LEMMA FlawWithoutNoise ==
  /\ \A j \in 1 .. 6 : Flaw(j, {}, 0, 0) = 0
  /\ \A e29, e30 \in Bit : e29 + e30 # 0 => \E j \in 1 .. 6 : Flaw(j, {}, e29, e30) = 1
<1>1. \A S : Cardinality({} \cap S) = 0
  <2>1. ASSUME NEW S PROVE {} \cap S = {} OBVIOUS
  <2> QED BY <2>1, FS_EmptySet
<1>2. ASSUME NEW j \in 1 .. 6 PROVE Flaw(j, {}, 0, 0) = 0
  <2>1. Cardinality(PARITY_MASKS[j]) \in Nat BY MaskType, FS_CardinalityType
  <2> QED BY <1>1, <2>1 DEF Flaw
<1>3. ASSUME NEW e29 \in Bit, NEW e30 \in Bit, e29 + e30 # 0 PROVE \E j \in 1 .. 6 : Flaw(j, {}, e29, e30) = 1
  <2>1. 1 \in SEED_IS_D29 /\ 2 \notin SEED_IS_D29 BY DEF SEED_IS_D29
  <2>2. Flaw(1, {}, e29, e30) = (e29 + e30 * Cardinality(PARITY_MASKS[1]) + 0) % 2 BY <1>1, <2>1 DEF Flaw
  <2>3. Flaw(2, {}, e29, e30) = (e30 + e30 * 14 + 0) % 2 BY <1>1, <2>1, Fourteen DEF Flaw
  <2>4. CASE e29 = 1 /\ e30 = 0
    <3>1. Cardinality(PARITY_MASKS[1]) \in Nat BY MaskType, FS_CardinalityType
    <3>2. Flaw(1, {}, e29, e30) = 1 BY <2>2, <2>4, <3>1
    <3> QED BY <3>2
  <2>5. CASE e30 = 1
    <3>1. Flaw(2, {}, e29, e30) = 1 BY <2>3, <2>5
    <3> QED BY <3>1
  <2> QED BY <1>3, <2>4, <2>5 DEF Bit
<1> QED BY <1>2, <1>3

\* What the receiver makes of a word behind the bits p29 and p30.
WordRead(data, s29, s30, p29, p30, noise) ==
  LET w == Taken(p29, p30, Arrived(encode_word(data, s29, s30), noise)) IN
  /\ ParityHolds(w) <=> noise = {} /\ s29 = p29 /\ s30 = p30
  /\ ParityHolds(w) => \A i \in 1 .. 24 : w[i + 2] = data[i]

\* A word passes the receiver's parity check exactly if no noise is on it and
\* the receiver holds the two bits it was encoded behind, and then it gives the
\* data back.
LEMMA WordPasses ==
  ASSUME NEW data \in [1 .. 24 -> Bit], NEW s29 \in Bit, NEW s30 \in Bit, NEW p29 \in Bit, NEW p30 \in Bit,
         NEW noise \in Noise, noise = {} \/ (s29 = p29 /\ s30 = p30) \/ MaxHits > 1
  PROVE  WordRead(data, s29, s30, p29, p30, noise)
<1> DEFINE b == encode_word(data, s29, s30)
           word == Arrived(b, noise)
           w == Taken(p29, p30, word)
           e29 == Differ(s29, p29)
           e30 == Differ(s30, p30)
           same == s29 = p29 /\ s30 = p30
<1>1. ParityHolds(w) <=> \A j \in 1 .. 6 : Flaw(j, noise, e29, e30) = 0
  <2>1. ASSUME NEW j \in 1 .. 6
        PROVE  Ones(w, Covered(j)) % 2 = w[26 + j] <=> Flaw(j, noise, e29, e30) = 0
    <3>1. CheckIsFlaw(j, data, s29, s30, p29, p30, noise) BY FlawOfWord
    <3> QED BY <3>1, Zenon DEF Check, CheckIsFlaw
  <2> HIDE DEF w, e29, e30
  <2> QED BY <2>1, Zenon DEF ParityHolds
<1>2. e29 \in Bit /\ e30 \in Bit /\ (same <=> e29 = 0 /\ e30 = 0) /\ (same <=> e29 + e30 = 0)
  BY DEF Differ, Bit
<1> HIDE DEF e29, e30
<1>3. noise = {} /\ same => \A j \in 1 .. 6 : Flaw(j, noise, e29, e30) = 0 BY <1>2, FlawWithoutNoise
<1>4. ASSUME ~(noise = {} /\ same) PROVE \E j \in 1 .. 6 : Flaw(j, noise, e29, e30) # 0
  <2>1. CASE noise = {} BY <1>2, <1>4, <2>1, FlawWithoutNoise
  <2>2. CASE noise # {}
    <3>1. noise \in Noise \ {{}} /\ (e29 + e30 = 0 \/ MaxHits > 1) BY <1>2, <2>2
    <3>2. e29 \in {0, 1} /\ e30 \in {0, 1} BY <1>2 DEF Bit
    <3> QED BY <3>1, <3>2, NoiseAssumption
  <2> QED BY <2>1, <2>2
<1>5. ParityHolds(w) <=> noise = {} /\ same
  <2> HIDE DEF w, same
  <2> QED BY <1>1, <1>3, <1>4
<1>6. ASSUME noise = {}, same PROVE \A i \in 1 .. 24 : w[i + 2] = data[i]
  <2>1. /\ b \in [1 .. 30 -> Bit]
        /\ \A i \in 1 .. 24 : b[i] = IF data[i] = s30 THEN 0 ELSE 1
        /\ \A k \in 1 .. 6 :
             b[24 + k] = ((IF k \in SEED_IS_D29 THEN s29 ELSE s30) + Ones(data, PARITY_MASKS[k])) % 2
    BY EncodedWord
  <2> HIDE DEF b
  <2>2. word \in [1 .. 30 -> Bit] /\ \A i \in 1 .. 30 : word[i] = b[i] BY <1>6, <2>1, ArrivedFacts DEF Arrived
  <2> HIDE DEF word
  <2>3. \A i \in 1 .. 24 : w[i + 2] = IF p30 = word[i] THEN 0 ELSE 1
    <3>1. TakenRight(p29, p30, word) BY <2>2, TakenFacts
    <3> QED BY <3>1, Zenon DEF TakenRight
  <2> HIDE DEF w
  <2>4. ASSUME NEW i \in 1 .. 24 PROVE w[i + 2] = data[i]
    <3>1. word[i] = b[i] /\ b[i] = (IF data[i] = s30 THEN 0 ELSE 1) /\ w[i + 2] = IF p30 = word[i] THEN 0 ELSE 1
      BY <2>1, <2>2, <2>3
    <3>2. data[i] \in Bit /\ s30 = p30 BY <1>6
    <3> QED BY <3>1, <3>2 DEF Bit
  <2> QED BY <2>4
<1> QED BY <1>5, <1>6, Zenon DEF WordRead

-----------------------------------------------------------------------------
(* The bytes of a word, and the seeds of a message. *)

\* Six bits a byte: the receiver finds every bit of the word again.
BitsOf(bytes) == [i \in 1 .. 30 |-> bytes[(i - 1) \div 6 + 1][8 - ((i - 1) % 6)]]

\* The five bytes of a word, and the bits the receiver finds in them.
LEMMA BytesBack ==
  ASSUME NEW b \in [1 .. 30 -> Bit]
  PROVE  /\ word30_to_bytes(b) \in [1 .. 5 -> [1 .. 8 -> Bit]]
         /\ BitsOf(word30_to_bytes(b)) = b
<1> DEFINE y == word30_to_bytes(b)
<1>1. \A g \in 1 .. 5 : y[g] = [i \in 1 .. 8 |-> IF i <= 2 THEN i - 1 ELSE b[6 * g + 3 - i]]
  BY DEF word30_to_bytes
<1>2. ASSUME NEW g \in 1 .. 5 PROVE y[g] \in [1 .. 8 -> Bit]
  <2>1. ASSUME NEW i \in 1 .. 8 PROVE (IF i <= 2 THEN i - 1 ELSE b[6 * g + 3 - i]) \in Bit
    <3>1. CASE i <= 2
      <4>1. i = 1 \/ i = 2 BY <3>1
      <4> QED BY <4>1 DEF Bit
    <3>2. CASE i > 2
      <4>1. 6 * g + 3 - i \in 1 .. 30 BY <3>2
      <4>2. b[6 * g + 3 - i] \in Bit BY <4>1
      <4>3. ~ (i <= 2) BY <3>2
      <4> QED BY <4>2, <4>3
    <3> QED BY <3>1, <3>2
  <2> QED BY <1>1, <2>1
<1>3. y = [g \in 1 .. 5 |-> y[g]] BY DEF word30_to_bytes
<1>4. ASSUME NEW i \in 1 .. 30 PROVE y[(i - 1) \div 6 + 1][8 - ((i - 1) % 6)] = b[i]
  <2>1. PICK q \in 0 .. 4, r \in 0 .. 5 : i - 1 = 6 * q + r /\ (i - 1) \div 6 = q /\ (i - 1) % 6 = r OBVIOUS
  <2>2. q + 1 \in 1 .. 5 /\ 8 - r \in 1 .. 8 /\ ~ (8 - r <= 2) /\ 6 * (q + 1) + 3 - (8 - r) = i BY <2>1
  <2>3. y[q + 1][8 - r] = b[6 * (q + 1) + 3 - (8 - r)] BY <1>1, <2>2
  <2> QED BY <2>1, <2>2, <2>3
<1> HIDE DEF y
<1>5. BitsOf(y) = [i \in 1 .. 30 |-> b[i]] BY <1>4 DEF BitsOf
<1> QED BY <1>2, <1>3, <1>5 DEF y

\* The bits a word leaves behind for the next.
Left(data, s) == <<encode_word(data, s[1], s[2])[29], encode_word(data, s[1], s[2])[30]>>

\* They are bits.
LEMMA LeftType ==
  ASSUME NEW data \in [1 .. 24 -> Bit], NEW s \in Bit \X Bit
  PROVE  Left(data, s) \in Bit \X Bit
<1>1. PICK s29 \in Bit, s30 \in Bit : s[1] = s29 /\ s[2] = s30 OBVIOUS
<1>2. encode_word(data, s29, s30) \in [1 .. 30 -> Bit] BY EncodedWord
<1> QED BY <1>1, <1>2 DEF Left

\* The seeds of a message: each is what the word before it leaves.
IsSeeds(data, s, seed) ==
  /\ seed \in [0 .. Len(data) -> Bit \X Bit]
  /\ seed[0] = s
  /\ \A k \in 1 .. Len(data) : seed[k] = Left(data[k], seed[k - 1])

\* Seeds is that function.
LEMMA SeedsExist ==
  ASSUME NEW data \in Seq([1 .. 24 -> Bit]), NEW s29 \in Bit, NEW s30 \in Bit
  PROVE  IsSeeds(data, <<s29, s30>>, Seeds(data, s29, s30))
<1> DEFINE n == Len(data)
           s0 == <<s29, s30>>
           Eq(f, m) == f = [k \in 0 .. m |-> IF k = 0 THEN s0 ELSE Left(data[k], f[k - 1])]
           T == {m \in Nat : m <= n => \E f : Eq(f, m)}
           F == CHOOSE f : Eq(f, n)
<1>1. n \in Nat /\ s0 \in Bit \X Bit OBVIOUS
<1>2. Seeds(data, s29, s30) = F BY Zenon DEF Seeds, Left
<1>3. 0 \in T
  <2> DEFINE f == [k \in 0 .. 0 |-> s0]
  <2>1. Eq(f, 0)
    <3>1. \A k \in 0 .. 0 : k = 0 OBVIOUS
    <3> QED BY <3>1
  <2> HIDE DEF f, Eq
  <2> QED BY <2>1
<1>4. ASSUME NEW m \in Nat, m \in T PROVE m + 1 \in T
  <2>1. SUFFICES ASSUME m + 1 <= n PROVE \E f : Eq(f, m + 1) OBVIOUS
  <2>2. PICK g : Eq(g, m)
    <3>1. m <= n BY <1>1, <2>1
    <3> QED BY <1>4, <3>1, Zenon
  <2> DEFINE f == [k \in 0 .. m + 1 |-> IF k = m + 1 THEN Left(data[m + 1], g[m]) ELSE g[k]]
             rhs == [k \in 0 .. m + 1 |-> IF k = 0 THEN s0 ELSE Left(data[k], f[k - 1])]
  <2>3. ASSUME NEW k \in 0 .. m + 1 PROVE f[k] = IF k = 0 THEN s0 ELSE Left(data[k], f[k - 1])
    <3>1. CASE k = m + 1
      <4>1. f[k] = Left(data[k], g[m]) /\ k # 0 BY <3>1
      <4>2. f[k - 1] = g[m]
        <5>1. k - 1 = m /\ m \in 0 .. m + 1 /\ m # m + 1 BY <3>1
        <5> QED BY <5>1
      <4> HIDE DEF f
      <4> QED BY <4>1, <4>2
    <3>2. CASE k # m + 1
      <4>1. k \in 0 .. m /\ f[k] = g[k] BY <3>2
      <4>2. g[k] = IF k = 0 THEN s0 ELSE Left(data[k], g[k - 1]) BY Zenon, <2>2, <4>1
      <4>3. k # 0 => f[k - 1] = g[k - 1]
        <5>1. k # 0 => k - 1 \in 0 .. m + 1 /\ k - 1 # m + 1 OBVIOUS
        <5> QED BY <5>1
      <4> HIDE DEF f
      <4> QED BY <4>1, <4>2, <4>3
    <3> QED BY <3>1, <3>2
  <2>4. f = [k \in 0 .. m + 1 |-> f[k]] OBVIOUS
  <2>5. Eq(f, m + 1)
    <3> HIDE DEF f
    <3> QED BY <2>3, <2>4
  <2> HIDE DEF f, Eq
  <2> QED BY <2>5
<1>5. \E f : Eq(f, n)
  <2> HIDE DEF T
  <2>1. n \in T BY <1>1, <1>3, <1>4, Induction
  <2> QED BY <2>1 DEF T
<1>6. Eq(F, n) BY <1>5
<1> HIDE DEF F
<1>7. F[0] = s0 /\ \A k \in 1 .. n : F[k] = Left(data[k], F[k - 1])
  <2>1. 0 \in 0 .. n /\ \A k \in 1 .. n : k \in 0 .. n /\ k # 0 BY <1>1
  <2>2. \A k \in 0 .. n : F[k] = IF k = 0 THEN s0 ELSE Left(data[k], F[k - 1]) BY <1>6, Zenon
  <2> HIDE DEF n, s0, Eq
  <2> QED BY <2>1, <2>2, Zenon
<1>8. F \in [0 .. n -> Bit \X Bit]
  <2>1. \A k \in 1 .. n : data[k] \in [1 .. 24 -> Bit] BY WordOf, Zenon
  <2> DEFINE U == {k \in Nat : k <= n => F[k] \in Bit \X Bit}
  <2>2. 0 \in U BY <1>1, <1>7
  <2>3. ASSUME NEW k \in Nat, k \in U PROVE k + 1 \in U
    <3>1. SUFFICES ASSUME k + 1 <= n PROVE F[k + 1] \in Bit \X Bit OBVIOUS
    <3>2. k + 1 \in 1 .. n /\ (k + 1) - 1 = k /\ F[k] \in Bit \X Bit BY <2>3, <3>1
    <3>3. data[k + 1] \in [1 .. 24 -> Bit] BY <2>1, <3>2, Zenon
    <3>4. F[k + 1] = Left(data[k + 1], F[k]) BY <1>7, <3>2
    <3> QED BY <3>2, <3>3, <3>4, LeftType
  <2> HIDE DEF U
  <2>4. \A k \in Nat : k \in U BY <2>2, <2>3, Induction
  <2>5. ASSUME NEW k \in 0 .. n PROVE F[k] \in Bit \X Bit
    <3>1. k \in Nat /\ k <= n BY <1>1
    <3> QED BY <2>4, <3>1, Zenon DEF U
  <2>6. F = [k \in 0 .. n |-> F[k]] BY <1>6
  <2> QED BY <2>5, <2>6
<1> QED BY <1>2, <1>7, <1>8 DEF IsSeeds

-----------------------------------------------------------------------------
(* Fields of a header, of a record and of joined words. *)

\* A field of n bits as a function.
LEMMA BitsFunction ==
  ASSUME NEW v \in Int, NEW n \in Nat
  PROVE  Bits(v, n) \in [1 .. n -> Bit]
<1>1. Bits(v, n) \in Seq(Bit) /\ Len(Bits(v, n)) = n BY BitsType
<1> QED BY <1>1, SeqIsFunction

\* n bits from behind the bit `at'.
Field(s, at, n) == [i \in 1 .. n |-> s[at + i]]

\* Appending m bits to n bits gives a field of those m and keeps all others.
Appends(s, n, t, m) ==
  /\ s \o t \in [1 .. n + m -> Bit]
  /\ Field(s \o t, n, m) = t
  /\ \A at, w \in Nat : at + w <= n => Field(s \o t, at, w) = Field(s, at, w)

\* So it does.
LEMMA FieldKept ==
  ASSUME NEW n \in Nat, NEW m \in Nat, NEW s \in [1 .. n -> Bit], NEW t \in [1 .. m -> Bit]
  PROVE  Appends(s, n, t, m)
<1> DEFINE c == s \o t
<1>1. /\ c \in [1 .. n + m -> Bit]
      /\ \A i \in 1 .. n : c[i] = s[i]
      /\ \A i \in 1 .. m : c[n + i] = t[i]
  BY Concat, Zenon DEF Chained
<1> HIDE DEF c
<1>2. Field(c, n, m) = t
  <2>1. t = [i \in 1 .. m |-> t[i]] OBVIOUS
  <2> QED BY <1>1, <2>1 DEF Field
<1>3. ASSUME NEW at \in Nat, NEW w \in Nat, at + w <= n PROVE Field(c, at, w) = Field(s, at, w)
  <2>1. ASSUME NEW i \in 1 .. w PROVE c[at + i] = s[at + i]
    <3>1. at + i \in 1 .. n BY <1>3
    <3> QED BY <1>1, <3>1
  <2> QED BY <2>1 DEF Field
<1> QED BY <1>1, <1>2, <1>3 DEF c, Appends

\* The fields of the header, and that the preamble starts it.
HeaderFields(h, type, m, n) ==
  /\ h \in [1 .. 48 -> Bit]
  /\ Field(h, 0, 8) = PREAMBLE
  /\ Field(h, 8, 6) = Bits(type, 6)
  /\ Field(h, 14, 10) = Bits(m.station_id, 10)
  /\ Field(h, 24, 13) = Bits(m.zcount, 13)
  /\ Field(h, 37, 3) = Bits(m.seq, 3)
  /\ Field(h, 40, 5) = Bits(n, 5)
  /\ Field(h, 45, 3) = Bits(m.health, 3)

\* The header holds its values.
LEMMA HeaderHasFields ==
  ASSUME NEW m, m.station_id \in Int, m.zcount \in Int, m.seq \in Int, m.health \in Int,
         NEW type \in Int, NEW n \in Int
  PROVE  HeaderFields(Header(type, m, n), type, m, n)
<1> DEFINE h0 == PREAMBLE
           t1 == Bits(type, 6)
           h1 == h0 \o t1
           t2 == Bits(m.station_id, 10)
           h2 == h1 \o t2
           t3 == Bits(m.zcount, 13)
           h3 == h2 \o t3
           t4 == Bits(m.seq, 3)
           h4 == h3 \o t4
           t5 == Bits(n, 5)
           h5 == h4 \o t5
           t6 == Bits(m.health, 3)
           h6 == h5 \o t6
<1>1. Header(type, m, n) = h6 BY DEF Header
<1>2. /\ t1 \in [1 .. 6 -> Bit] /\ t2 \in [1 .. 10 -> Bit] /\ t3 \in [1 .. 13 -> Bit]
      /\ t4 \in [1 .. 3 -> Bit] /\ t5 \in [1 .. 5 -> Bit] /\ t6 \in [1 .. 3 -> Bit]
  BY BitsFunction
<1>3. h0 \in [1 .. 8 -> Bit] /\ Field(h0, 0, 8) = PREAMBLE
  <2>1. h0 \in [1 .. 8 -> Bit] BY DEF PREAMBLE, Bit
  <2>2. h0 = [i \in 1 .. 8 |-> h0[i]] BY <2>1
  <2>3. \A i \in 1 .. 8 : 0 + i = i OBVIOUS
  <2> HIDE DEF h0
  <2>4. Field(h0, 0, 8) = [i \in 1 .. 8 |-> h0[i]] BY <2>3 DEF Field
  <2> QED BY <2>1, <2>2, <2>4 DEF h0
<1> HIDE DEF t1, t2, t3, t4, t5, t6, h0
<1>4. Appends(h0, 8, t1, 6) BY <1>2, <1>3, FieldKept
<1>5. h1 \in [1 .. 14 -> Bit]
  <2>1. 8 + 6 = 14 OBVIOUS
  <2> QED BY <1>4, <2>1 DEF Appends
<1> HIDE DEF h1
<1>6. Appends(h1, 14, t2, 10) BY <1>2, <1>5, FieldKept
<1>7. h2 \in [1 .. 24 -> Bit]
  <2>1. 14 + 10 = 24 OBVIOUS
  <2> QED BY <1>6, <2>1 DEF Appends
<1> HIDE DEF h2
<1>8. Appends(h2, 24, t3, 13) BY <1>2, <1>7, FieldKept
<1>9. h3 \in [1 .. 37 -> Bit]
  <2>1. 24 + 13 = 37 OBVIOUS
  <2> QED BY <1>8, <2>1 DEF Appends
<1> HIDE DEF h3
<1>10. Appends(h3, 37, t4, 3) BY <1>2, <1>9, FieldKept
<1>11. h4 \in [1 .. 40 -> Bit]
  <2>1. 37 + 3 = 40 OBVIOUS
  <2> QED BY <1>10, <2>1 DEF Appends
<1> HIDE DEF h4
<1>12. Appends(h4, 40, t5, 5) BY <1>2, <1>11, FieldKept
<1>13. h5 \in [1 .. 45 -> Bit]
  <2>1. 40 + 5 = 45 OBVIOUS
  <2> QED BY <1>12, <2>1 DEF Appends
<1> HIDE DEF h5
<1>14. Appends(h5, 45, t6, 3) BY <1>2, <1>13, FieldKept
<1>15. h6 \in [1 .. 48 -> Bit]
  <2>1. 45 + 3 = 48 OBVIOUS
  <2> QED BY <1>14, <2>1 DEF Appends
<1> HIDE DEF h6
<1>16. /\ Field(h1, 8, 6) = t1 /\ Field(h2, 14, 10) = t2 /\ Field(h3, 24, 13) = t3
       /\ Field(h4, 37, 3) = t4 /\ Field(h5, 40, 5) = t5 /\ Field(h6, 45, 3) = t6
  BY <1>4, <1>6, <1>8, <1>10, <1>12, <1>14 DEF Appends, h1, h2, h3, h4, h5, h6
<1>17. /\ \A at, w \in Nat : at + w <= 45 => Field(h6, at, w) = Field(h5, at, w)
       /\ \A at, w \in Nat : at + w <= 40 => Field(h5, at, w) = Field(h4, at, w)
       /\ \A at, w \in Nat : at + w <= 37 => Field(h4, at, w) = Field(h3, at, w)
       /\ \A at, w \in Nat : at + w <= 24 => Field(h3, at, w) = Field(h2, at, w)
       /\ \A at, w \in Nat : at + w <= 14 => Field(h2, at, w) = Field(h1, at, w)
       /\ \A at, w \in Nat : at + w <= 8 => Field(h1, at, w) = Field(h0, at, w)
  BY <1>4, <1>6, <1>8, <1>10, <1>12, <1>14 DEF Appends, h1, h2, h3, h4, h5, h6
<1>18. /\ Field(h6, 0, 8) = PREAMBLE /\ Field(h6, 8, 6) = t1 /\ Field(h6, 14, 10) = t2 /\ Field(h6, 24, 13) = t3
       /\ Field(h6, 37, 3) = t4 /\ Field(h6, 40, 5) = t5 /\ Field(h6, 45, 3) = t6
  BY <1>3, <1>16, <1>17
<1> QED BY <1>1, <1>15, <1>18 DEF HeaderFields, t1, t2, t3, t4, t5, t6

\* The fields of a record.
RecordFields(r, c) ==
  LET e == encode_prc_rrc(c.prc, c.rrc) IN
  /\ r \in [1 .. 40 -> Bit]
  /\ Field(r, 0, 1) = Bits(e.scale, 1)
  /\ Field(r, 1, 2) = Bits(c.udre, 2)
  /\ Field(r, 3, 5) = Bits(c.prn % 32, 5)
  /\ Field(r, 8, 16) = Bits(e.prc, 16)
  /\ Field(r, 24, 8) = Bits(e.rrc, 8)
  /\ Field(r, 32, 8) = Bits(c.iod, 8)

\* A record holds its values.
LEMMA RecordHasFields ==
  ASSUME NEW c \in Correction, encode_prc_rrc(c.prc, c.rrc).scale \in Int,
         encode_prc_rrc(c.prc, c.rrc).prc \in Int, encode_prc_rrc(c.prc, c.rrc).rrc \in Int
  PROVE  RecordFields(Record(c), c)
<1> DEFINE e == encode_prc_rrc(c.prc, c.rrc)
           h0 == Bits(e.scale, 1)
           t1 == Bits(c.udre, 2)
           h1 == h0 \o t1
           t2 == Bits(c.prn % 32, 5)
           h2 == h1 \o t2
           t3 == Bits(e.prc, 16)
           h3 == h2 \o t3
           t4 == Bits(e.rrc, 8)
           h4 == h3 \o t4
           t5 == Bits(c.iod, 8)
           h5 == h4 \o t5
<1>1. Record(c) = h5 BY DEF Record
<1>2. /\ h0 \in [1 .. 1 -> Bit]
      /\ t1 \in [1 .. 2 -> Bit] /\ t2 \in [1 .. 5 -> Bit] /\ t3 \in [1 .. 16 -> Bit]
      /\ t4 \in [1 .. 8 -> Bit] /\ t5 \in [1 .. 8 -> Bit]
  <2>1. c.udre \in Int /\ c.prn % 32 \in Int /\ c.iod \in Int BY DEF Correction
  <2> QED BY <2>1, BitsFunction
<1>3. Field(h0, 0, 1) = Bits(e.scale, 1)
  <2>1. h0 = [i \in 1 .. 1 |-> h0[i]] BY <1>2
  <2>2. \A i \in 1 .. 1 : 0 + i = i OBVIOUS
  <2> HIDE DEF h0
  <2>3. Field(h0, 0, 1) = [i \in 1 .. 1 |-> h0[i]] BY <2>2 DEF Field
  <2> QED BY <2>1, <2>3 DEF h0
<1> HIDE DEF e, h0, t1, t2, t3, t4, t5
<1>4. Appends(h0, 1, t1, 2) BY <1>2, FieldKept
<1>5. h1 \in [1 .. 3 -> Bit]
  <2>1. 1 + 2 = 3 OBVIOUS
  <2> QED BY <1>4, <2>1 DEF Appends
<1> HIDE DEF h1
<1>6. Appends(h1, 3, t2, 5) BY <1>2, <1>5, FieldKept
<1>7. h2 \in [1 .. 8 -> Bit]
  <2>1. 3 + 5 = 8 OBVIOUS
  <2> QED BY <1>6, <2>1 DEF Appends
<1> HIDE DEF h2
<1>8. Appends(h2, 8, t3, 16) BY <1>2, <1>7, FieldKept
<1>9. h3 \in [1 .. 24 -> Bit]
  <2>1. 8 + 16 = 24 OBVIOUS
  <2> QED BY <1>8, <2>1 DEF Appends
<1> HIDE DEF h3
<1>10. Appends(h3, 24, t4, 8) BY <1>2, <1>9, FieldKept
<1>11. h4 \in [1 .. 32 -> Bit]
  <2>1. 24 + 8 = 32 OBVIOUS
  <2> QED BY <1>10, <2>1 DEF Appends
<1> HIDE DEF h4
<1>12. Appends(h4, 32, t5, 8) BY <1>2, <1>11, FieldKept
<1>13. h5 \in [1 .. 40 -> Bit]
  <2>1. 32 + 8 = 40 OBVIOUS
  <2> QED BY <1>12, <2>1 DEF Appends
<1> HIDE DEF h5
<1>14. /\ Field(h1, 1, 2) = t1 /\ Field(h2, 3, 5) = t2 /\ Field(h3, 8, 16) = t3
       /\ Field(h4, 24, 8) = t4 /\ Field(h5, 32, 8) = t5
  BY <1>4, <1>6, <1>8, <1>10, <1>12 DEF Appends, h1, h2, h3, h4, h5
<1>15. /\ \A at, w \in Nat : at + w <= 32 => Field(h5, at, w) = Field(h4, at, w)
       /\ \A at, w \in Nat : at + w <= 24 => Field(h4, at, w) = Field(h3, at, w)
       /\ \A at, w \in Nat : at + w <= 8 => Field(h3, at, w) = Field(h2, at, w)
       /\ \A at, w \in Nat : at + w <= 3 => Field(h2, at, w) = Field(h1, at, w)
       /\ \A at, w \in Nat : at + w <= 1 => Field(h1, at, w) = Field(h0, at, w)
  BY <1>4, <1>6, <1>8, <1>10, <1>12 DEF Appends, h1, h2, h3, h4, h5
<1>16. /\ Field(h5, 0, 1) = Bits(e.scale, 1) /\ Field(h5, 1, 2) = t1 /\ Field(h5, 3, 5) = t2
       /\ Field(h5, 8, 16) = t3 /\ Field(h5, 24, 8) = t4 /\ Field(h5, 32, 8) = t5
  BY <1>3, <1>14, <1>15
<1> QED BY <1>1, <1>13, <1>16 DEF RecordFields, t1, t2, t3, t4, t5, e

\* A sequence of n blocks of width bits.
Blocks(b, n, width) == b = [k \in 1 .. n |-> b[k]] /\ \A k \in 1 .. n : b[k] \in [1 .. width -> Bit]

\* The blocks are fields of s, one behind the other.
Joins(s, b, n, width) ==
  /\ s \in [1 .. width * n -> Bit]
  /\ \A k \in 1 .. n : Field(s, width * (k - 1), width) = b[k]

\* Joined, each block is a field.
LEMMA JoinedBlocks ==
  ASSUME NEW width \in {24, 32, 40}, NEW n \in Nat, NEW b, Blocks(b, n, width), Len(b) = n
  PROVE  Joins(Joined(b, width), b, n, width)
<1> DEFINE s == Joined(b, width)
           N == width * n
<1>1. N \in Nat OBVIOUS
<1>2. s = [i \in 1 .. N |-> b[(i - 1) \div width + 1][((i - 1) % width) + 1]] BY DEF Joined
<1>3. ASSUME NEW i \in 1 .. N
      PROVE  (i - 1) \div width + 1 \in 1 .. n /\ ((i - 1) % width) + 1 \in 1 .. width
  <2>1. CASE width = 24 BY <2>1
  <2>2. CASE width = 32 BY <2>2
  <2>3. CASE width = 40 BY <2>3
  <2> QED BY <2>1, <2>2, <2>3
<1>4. ASSUME NEW k \in 1 .. n, NEW i \in 1 .. width
      PROVE  /\ width * (k - 1) + i \in 1 .. N
             /\ ((width * (k - 1) + i) - 1) \div width + 1 = k
             /\ (((width * (k - 1) + i) - 1) % width) + 1 = i
  <2>1. CASE width = 24 BY <2>1
  <2>2. CASE width = 32 BY <2>2
  <2>3. CASE width = 40 BY <2>3
  <2> QED BY <2>1, <2>2, <2>3
<1>5. \A k \in 1 .. n : \A i \in 1 .. width : b[k][i] \in Bit BY DEF Blocks
<1>6. s \in [1 .. N -> Bit] BY <1>2, <1>3, <1>5
<1>7. ASSUME NEW k \in 1 .. n PROVE Field(s, width * (k - 1), width) = b[k]
  <2>1. ASSUME NEW i \in 1 .. width PROVE s[width * (k - 1) + i] = b[k][i]
    <3> DEFINE p == width * (k - 1) + i
    <3>1. p \in 1 .. N /\ (p - 1) \div width + 1 = k /\ ((p - 1) % width) + 1 = i BY <1>4
    <3> HIDE DEF p, N, s
    <3>2. s[p] = b[(p - 1) \div width + 1][((p - 1) % width) + 1] BY <1>2, <3>1
    <3>3. s[p] = b[k][i] BY <3>1, <3>2
    <3> QED BY <3>3 DEF p
  <2>2. b[k] = [i \in 1 .. width |-> b[k][i]] BY DEF Blocks
  <2> HIDE DEF s
  <2> QED BY <2>1, <2>2 DEF Field
<1> QED BY <1>6, <1>7 DEF Joins

\* The words of bits l, and what joining them gives.
Words(data, bits, l, n) ==
  /\ data \in Seq([1 .. 24 -> Bit]) /\ Len(data) = n
  /\ \A k \in 1 .. n : \A i \in 1 .. 24 : 24 * (k - 1) + i <= l => data[k][i] = bits[24 * (k - 1) + i]
  /\ Joined(data, 24) \in [1 .. 24 * n -> Bit]
  /\ \A at, w \in Nat : at + w <= l => Field(Joined(data, 24), at, w) = Field(bits, at, w)

\* In words of 24 and joined again, the bits are the same, with zeros behind them.
LEMMA JoinedWords ==
  ASSUME NEW n \in Nat, NEW l \in Nat, NEW bits \in [1 .. l -> Bit], l <= 24 * n
  PROVE  Words(DataWords(bits, n), bits, l, n)
<1> DEFINE data == DataWords(bits, n)
           s == Joined(data, 24)
<1>1. Len(bits) = l OBVIOUS
<1>2. data = [k \in 1 .. n |-> [i \in 1 .. 24 |-> IF 24 * (k - 1) + i <= l THEN bits[24 * (k - 1) + i] ELSE 0]]
  BY <1>1, Zenon DEF DataWords
<1>3. ASSUME NEW k \in 1 .. n, NEW i \in 1 .. 24
      PROVE  (IF 24 * (k - 1) + i <= l THEN bits[24 * (k - 1) + i] ELSE 0) \in Bit
  <2>1. 24 * (k - 1) + i <= l => 24 * (k - 1) + i \in 1 .. l OBVIOUS
  <2> QED BY <2>1 DEF Bit
<1>4. data \in [1 .. n -> [1 .. 24 -> Bit]] BY <1>2, <1>3
<1>5. data \in Seq([1 .. 24 -> Bit]) /\ Len(data) = n
  <2> HIDE DEF data
  <2> QED BY <1>4
<1>6. ASSUME NEW k \in 1 .. n, NEW i \in 1 .. 24, 24 * (k - 1) + i <= l
      PROVE  data[k][i] = bits[24 * (k - 1) + i]
  <2> HIDE DEF data
  <2>1. data[k][i] = IF 24 * (k - 1) + i <= l THEN bits[24 * (k - 1) + i] ELSE 0 BY <1>2
  <2> QED BY <1>6, <2>1
<1> HIDE DEF data
<1>7. Blocks(data, n, 24) /\ 24 \in {24, 32, 40} BY <1>4 DEF Blocks
<1>8. s \in [1 .. 24 * n -> Bit] /\ \A k \in 1 .. n : Field(s, 24 * (k - 1), 24) = data[k]
  <2>1. Joins(s, data, n, 24) BY <1>5, <1>7, JoinedBlocks
  <2> QED BY <2>1 DEF Joins
<1> HIDE DEF s
<1>9. ASSUME NEW p \in 1 .. l PROVE s[p] = bits[p]
  <2>1. PICK k \in 1 .. n, i \in 1 .. 24 : p = 24 * (k - 1) + i
    <3>1. (p - 1) \div 24 + 1 \in 1 .. n /\ ((p - 1) % 24) + 1 \in 1 .. 24
          /\ p = 24 * (((p - 1) \div 24 + 1) - 1) + (((p - 1) % 24) + 1)
      OBVIOUS
    <3> QED BY <3>1
  <2>2. Field(s, 24 * (k - 1), 24)[i] = s[24 * (k - 1) + i] BY DEF Field
  <2>3. 24 * (k - 1) + i <= l BY <2>1
  <2>4. data[k][i] = bits[24 * (k - 1) + i] BY Zenon, <1>6, <2>3
  <2>5. Field(s, 24 * (k - 1), 24) = data[k] BY <1>8
  <2> QED BY <2>1, <2>2, <2>4, <2>5
<1>10. ASSUME NEW at \in Nat, NEW w \in Nat, at + w <= l PROVE Field(s, at, w) = Field(bits, at, w)
  <2>1. ASSUME NEW i \in 1 .. w PROVE s[at + i] = bits[at + i]
    <3>1. at + i \in 1 .. l BY <1>10
    <3> QED BY <1>9, <3>1
  <2> QED BY <2>1 DEF Field
<1> QED BY <1>5, <1>6, <1>8, <1>10 DEF data, s, Words

\* A field of a field.
LEMMA SubField ==
  ASSUME NEW s, NEW at \in Nat, NEW n \in Nat, NEW a \in Nat, NEW w \in Nat, a + w <= n
  PROVE  Field(Field(s, at, n), a, w) = Field(s, at + a, w)
<1>1. ASSUME NEW i \in 1 .. w PROVE Field(s, at, n)[a + i] = s[(at + a) + i]
  <2>1. a + i \in 1 .. n /\ at + (a + i) = (at + a) + i OBVIOUS
  <2> QED BY <2>1 DEF Field
<1> DEFINE f == Field(s, at, n)
<1> HIDE DEF f
<1>2. \A i \in 1 .. w : f[a + i] = s[(at + a) + i] BY <1>1 DEF f
<1>3. Field(f, a, w) = Field(s, at + a, w) BY <1>2 DEF Field
<1> QED BY <1>3 DEF f

\* A coordinate of 32 bits, two's complement, in halves of 16.
LEMMA Power31 == 2^31 = 2147483648
<1>1. ASSUME NEW n \in Nat, NEW m \in Nat, m = n + 1 PROVE 2^m = 2 * 2^n BY <1>1, PowerOfTwo
<1>2. /\ 2^17 = 2 * 2^16 /\ 2^18 = 2 * 2^17 /\ 2^19 = 2 * 2^18 /\ 2^20 = 2 * 2^19
      /\ 2^21 = 2 * 2^20 /\ 2^22 = 2 * 2^21 /\ 2^23 = 2 * 2^22 /\ 2^24 = 2 * 2^23
      /\ 2^25 = 2 * 2^24 /\ 2^26 = 2 * 2^25 /\ 2^27 = 2 * 2^26 /\ 2^28 = 2 * 2^27
      /\ 2^29 = 2 * 2^28 /\ 2^30 = 2 * 2^29 /\ 2^31 = 2 * 2^30
  BY <1>1
<1>3. 2^16 = 65536 BY Powers
<1>4. 2^20 = 1048576 BY <1>2, <1>3
<1>5. 2^25 = 33554432 BY <1>2, <1>4
<1> QED BY <1>2, <1>5

\* The first 16 of the 32 bits are those of the quotient by 2^16.
LEMMA HighBits ==
  ASSUME NEW v \in Int, NEW a \in Nat
  PROVE  v \div 2^(a + 16) = (v \div 2^16) \div 2^a
<1> DEFINE h == v \div 2^16
           T == {k \in Nat : v \div 2^(k + 16) = h \div 2^k}
<1>1. h \in Int
  <2>1. 16 \in Nat OBVIOUS
  <2> QED BY <2>1, Shift
<1>2. 0 \in T
  <2>1. 0 + 16 = 16 OBVIOUS
  <2>2. h \div 2^0 = h BY <1>1, ShiftByNone
  <2> QED BY <2>1, <2>2
<1> HIDE DEF h
<1>3. ASSUME NEW k \in Nat, k \in T PROVE k + 1 \in T
  <2>1. (k + 1) + 16 = (k + 16) + 1 /\ k + 16 \in Nat OBVIOUS
  <2>2. v \div 2^((k + 16) + 1) = (v \div 2^(k + 16)) \div 2 BY <2>1, Shift
  <2>3. h \div 2^(k + 1) = (h \div 2^k) \div 2 BY <1>1, Shift
  <2>4. v \div 2^(k + 16) = h \div 2^k BY <1>3
  <2>5. v \div 2^((k + 1) + 16) = h \div 2^(k + 1) BY <2>1, <2>2, <2>3, <2>4
  <2> QED BY <2>5
<1> HIDE DEF T
<1>4. a \in T BY <1>2, <1>3, Induction
<1> QED BY <1>4 DEF T, h

\* The power of a sum is the product of the powers.
LEMMA PowerSum ==
  ASSUME NEW a \in Nat, NEW b \in Nat
  PROVE  2^(a + b) = 2^a * 2^b
<1> DEFINE T == {k \in Nat : 2^(a + k) = 2^a * 2^k}
           p == 2^a
<1>1. p \in Nat BY PowerOfTwo
<1>2. 0 \in T
  <2>1. a + 0 = a /\ p * 1 = p BY <1>1
  <2> QED BY <2>1, PowerOfZero
<1>3. ASSUME NEW k \in Nat, k \in T PROVE k + 1 \in T
  <2> DEFINE r == 2^k
  <2>1. a + (k + 1) = (a + k) + 1 /\ a + k \in Nat OBVIOUS
  <2>2. 2^((a + k) + 1) = 2 * 2^(a + k) /\ r \in Nat /\ 2^(k + 1) = 2 * r BY <2>1, PowerOfTwo
  <2>3. 2^(a + k) = p * r BY <1>3
  <2> HIDE DEF p, r
  <2>4. 2 * (p * r) = p * (2 * r) BY <1>1, <2>2
  <2>5. 2^(a + (k + 1)) = p * 2^(k + 1) BY <2>1, <2>2, <2>3, <2>4
  <2> QED BY <2>5 DEF p
<1> HIDE DEF T
<1>4. b \in T BY <1>2, <1>3, Induction
<1> QED BY <1>4 DEF T

\* The last 16 of the 32 bits are those of the remainder.
LEMMA LowBits ==
  ASSUME NEW v \in Int, NEW i \in 1 .. 16
  PROVE  ((v % 2^16) \div 2^(16 - i)) % 2 = (v \div 2^(16 - i)) % 2
<1> DEFINE w == 2^16
           q == 2^(16 - i)
           f == 2^(i - 1)
<1>1. w \in Nat \ {0} /\ q \in Nat \ {0} /\ f \in Nat
  <2>1. 16 \in Nat /\ 16 - i \in Nat /\ i - 1 \in Nat OBVIOUS
  <2> QED BY <2>1, PowerPositive
<1>2. w = q * (2 * f)
  <2>1. (16 - i) + i = 16 /\ 16 - i \in Nat /\ i \in Nat /\ i - 1 \in Nat /\ (i - 1) + 1 = i OBVIOUS
  <2>2. 2^((16 - i) + i) = 2^(16 - i) * 2^i BY <2>1, PowerSum
  <2>3. 2^((i - 1) + 1) = 2 * 2^(i - 1) BY <2>1, PowerOfTwo
  <2> QED BY <2>1, <2>2, <2>3
<1> HIDE DEF w, q, f
<1>3. PICK h \in Int, l \in 0 .. w - 1 : v = w * h + l /\ v % w = l BY <1>1, DivMod
<1>4. PICK a \in Int, b \in 0 .. q - 1 : l = q * a + b /\ l \div q = a BY <1>1, DivMod
<1>5. v = q * (2 * (f * h) + a) + b
  <2>1. (q * (2 * f)) * h = q * (2 * (f * h)) BY <1>1
  <2>2. q * (2 * (f * h) + a) = q * (2 * (f * h)) + q * a BY <1>1
  <2> QED BY <1>1, <1>2, <1>3, <1>4, <2>1, <2>2
<1>6. f * h \in Int BY <1>1
<1>7. v \div q = 2 * (f * h) + a
  <2>1. 2 * (f * h) + a \in Int BY <1>6
  <2>2. (q * (2 * (f * h) + a) + b) \div q = 2 * (f * h) + a BY <1>1, <2>1, DivModUnique
  <2> QED BY <1>5, <2>2
<1>8. \A x \in Int : (2 * x + a) % 2 = a % 2 OBVIOUS
<1>9. (l \div q) % 2 = (v \div q) % 2 BY <1>4, <1>6, <1>7, <1>8
<1> QED BY <1>3, <1>9 DEF w, q

\* The two halves of 16 bits that CoordinateBits writes.
TwoHalves(v, w) == Bits(v \div w, 16) \o Bits(v % w, 16)

\* They are the 32 bits.
LEMMA Halves ==
  ASSUME NEW v \in Int
  PROVE  TwoHalves(v, 2^16) = Bits(v, 32)
<1> DEFINE s == Bits(v \div 2^16, 16)
           t == Bits(v % 2^16, 16)
<1>1. v \div 2^16 \in Int /\ v % 2^16 \in Int
  <2>1. 16 \in Nat OBVIOUS
  <2>2. 2^16 \in Nat \ {0} BY <2>1, PowerPositive
  <2> DEFINE w == 2^16
  <2> HIDE DEF w
  <2>3. w \in Nat \ {0} BY <2>2 DEF w
  <2>4. v \div w \in Int /\ v % w \in Int BY <2>3, DivMod
  <2> QED BY <2>4 DEF w
<1>2. s \in [1 .. 16 -> Bit] /\ t \in [1 .. 16 -> Bit] BY <1>1, BitsFunction
<1>3. /\ s \o t \in [1 .. 16 + 16 -> Bit]
      /\ \A i \in 1 .. 16 : (s \o t)[i] = s[i]
      /\ \A i \in 1 .. 16 : (s \o t)[16 + i] = t[i]
  <2> HIDE DEF s, t
  <2>1. 16 \in Nat OBVIOUS
  <2>2. Chained(s, 16, t, 16) BY <1>2, <2>1, Concat
  <2> QED BY <2>2, Zenon DEF Chained
<1>4. \A i \in 1 .. 32 : Bits(v, 32)[i] = (v \div 2^(32 - i)) % 2 BY DEF Bits
<1>5. ASSUME NEW i \in 1 .. 16 PROVE s[i] = Bits(v, 32)[i]
  <2>1. 16 - i \in Nat /\ 32 - i = (16 - i) + 16 /\ i \in 1 .. 32 OBVIOUS
  <2>2. s[i] = ((v \div 2^16) \div 2^(16 - i)) % 2 BY DEF Bits
  <2>3. v \div 2^((16 - i) + 16) = (v \div 2^16) \div 2^(16 - i) BY <2>1, HighBits
  <2> QED BY <1>4, <2>1, <2>2, <2>3
<1>6. ASSUME NEW i \in 1 .. 16 PROVE t[i] = Bits(v, 32)[16 + i]
  <2>1. 32 - (16 + i) = 16 - i /\ 16 + i \in 1 .. 32 OBVIOUS
  <2>2. t[i] = ((v % 2^16) \div 2^(16 - i)) % 2 BY DEF Bits
  <2>3. ((v % 2^16) \div 2^(16 - i)) % 2 = (v \div 2^(16 - i)) % 2 BY LowBits
  <2> QED BY <1>4, <2>1, <2>2, <2>3
<1> HIDE DEF s, t
<1>7. s \o t = Bits(v, 32)
  <2> DEFINE u == s \o t
             r == Bits(v, 32)
  <2>1. u \in [1 .. 32 -> Bit]
    <3>1. 16 + 16 = 32 OBVIOUS
    <3> QED BY <1>3, <3>1
  <2>2. r \in [1 .. 32 -> Bit] BY BitsFunction
  <2>3. \A i \in 1 .. 16 : u[i] = s[i] /\ u[16 + i] = t[i] BY <1>3
  <2> HIDE DEF u, r
  <2>4. \A i \in 1 .. 16 : u[i] = r[i] /\ u[16 + i] = r[16 + i] BY <1>5, <1>6, <2>3 DEF r
  <2>5. ASSUME NEW i \in 1 .. 32 PROVE u[i] = r[i]
    <3>1. CASE i \in 1 .. 16 BY <2>4, <3>1
    <3>2. CASE i \notin 1 .. 16
      <4>1. i - 16 \in 1 .. 16 /\ 16 + (i - 16) = i BY <3>2
      <4>2. u[16 + (i - 16)] = r[16 + (i - 16)] BY <2>4, <4>1
      <4> QED BY <4>1, <4>2
    <3> QED BY <3>1, <3>2
  <2>6. u = r BY <2>1, <2>2, <2>5
  <2> QED BY <2>6 DEF u, r
<1> QED BY <1>7 DEF s, t, TwoHalves

\* A number in 32 bits is read back.
LEMMA Read32 ==
  ASSUME NEW v \in Int, v >= -(2^31), v < 2^31
  PROVE  Bits(v, 32) \in [1 .. 32 -> Bit] /\ Signed(Bits(v, 32)) = v
<1>1. 31 \in Nat /\ 32 \in Nat /\ 31 + 1 = 32 OBVIOUS
<1>2. Bits(v, 32) \in [1 .. 32 -> Bit] BY Zenon, <1>1, BitsFunction
<1>3. v \in -(2^31) .. 2^31 - 1 BY <1>1, PowerPositive
<1>4. Signed(Bits(v, 31 + 1)) = v BY Zenon, <1>1, <1>3, SignedBits
<1> QED BY <1>1, <1>2, <1>4

\* A coordinate is read back, within half a centimetre of what was asked for.
LEMMA CoordinateRead ==
  ASSUME NEW c \in [cm : Int, rest : 0 .. 99], Fits32(Coordinate(c))
  PROVE  /\ CoordinateBits(c) \in [1 .. 32 -> Bit]
         /\ Signed(CoordinateBits(c)) = Coordinate(c)
         /\ Magnitude(100 * (Coordinate(c) - c.cm) - c.rest) <= 50
<1> DEFINE v == Coordinate(c)
<1>1. v \in Int BY SMT DEF Coordinate
<1>2. Magnitude(100 * (v - c.cm) - c.rest) <= 50 BY SMT DEF Coordinate, Magnitude
<1> HIDE DEF v
<1>3. 2^16 = 65536 BY SMT, Powers
<1>4. CoordinateBits(c) = Bits(v, 32)
  <2>1. CoordinateBits(c) = TwoHalves(v, 65536) BY SMT DEF CoordinateBits, TwoHalves, v
  <2>2. TwoHalves(v, 2^16) = Bits(v, 32) BY SMT, <1>1, Halves
  <2> QED BY SMT, <1>3, <2>1, <2>2
<1>5. v >= -(2^31) /\ v < 2^31 BY SMT, <1>1, Power31 DEF v, Fits32
<1>6. Bits(v, 32) \in [1 .. 32 -> Bit] /\ Signed(Bits(v, 32)) = v BY SMT, <1>1, <1>5, Read32
<1> QED BY SMT, <1>2, <1>4, <1>6 DEF v

\* A message of n words behind the header: what the receiver finds in its words.
Layout(data, type, m, n, body, p) ==
  LET s == Joined(data, 24) IN
  /\ data \in Seq([1 .. 24 -> Bit]) /\ Len(data) = 2 + n
  /\ s \in [1 .. 24 * (2 + n) -> Bit]
  /\ Field(s, 8, 6) = Bits(type, 6)
  /\ Field(s, 14, 10) = Bits(m.station_id, 10)
  /\ Field(s, 24, 13) = Bits(m.zcount, 13)
  /\ Field(s, 37, 3) = Bits(m.seq, 3)
  /\ Field(s, 45, 3) = Bits(m.health, 3)
  /\ \A i \in 1 .. 8 : data[1][i] = PREAMBLE[i]
  /\ Expected(data) = 2 + n
  /\ \A at, w \in Nat : at + w <= p => Field(s, 48 + at, w) = Field(body, at, w)

\* The words of a header and a body are laid out so.
LEMMA WordsLayout ==
  ASSUME NEW h, NEW type, NEW m, NEW n \in 0 .. 31, HeaderFields(h, type, m, n),
         NEW p \in Nat, NEW body \in [1 .. p -> Bit], 48 + p <= 24 * (2 + n)
  PROVE  Layout(DataWords(h \o body, 2 + n), type, m, n, body, p)
<1> DEFINE b == h \o body
           l == 48 + p
           k == 2 + n
           data == DataWords(b, k)
           s == Joined(data, 24)
<1>1. l \in Nat /\ k \in Nat /\ 48 \in Nat /\ l <= 24 * k /\ 1 \in 1 .. k /\ 2 \in 1 .. k OBVIOUS
<1>2. Appends(h, 48, body, p)
  <2>1. h \in [1 .. 48 -> Bit] BY DEF HeaderFields
  <2> QED BY <1>1, <2>1, FieldKept
<1> HIDE DEF b
<1>3. /\ b \in [1 .. l -> Bit] /\ Field(b, 48, p) = body
      /\ \A at, w \in Nat : at + w <= 48 => Field(b, at, w) = Field(h, at, w)
  BY <1>2 DEF Appends, b
<1> HIDE DEF l, k
<1>4. /\ data \in Seq([1 .. 24 -> Bit]) /\ Len(data) = k
      /\ \A x \in 1 .. k : \A i \in 1 .. 24 : 24 * (x - 1) + i <= l => data[x][i] = b[24 * (x - 1) + i]
      /\ s \in [1 .. 24 * k -> Bit]
      /\ \A at, w \in Nat : at + w <= l => Field(s, at, w) = Field(b, at, w)
  <2>1. Words(data, b, l, k) BY <1>1, <1>3, JoinedWords
  <2> QED BY <2>1, Zenon DEF Words
<1> HIDE DEF data, s
<1>5. ASSUME NEW at \in Nat, NEW w \in Nat, at + w <= 48 PROVE Field(s, at, w) = Field(h, at, w)
  <2>1. at + w <= l BY <1>5 DEF l
  <2>2. Field(s, at, w) = Field(b, at, w) BY <1>4, <2>1
  <2> QED BY <1>3, <1>5, <2>2
<1>6. /\ Field(h, 0, 8) = PREAMBLE /\ Field(h, 40, 5) = Bits(n, 5)
      /\ Field(h, 8, 6) = Bits(type, 6) /\ Field(h, 14, 10) = Bits(m.station_id, 10)
      /\ Field(h, 24, 13) = Bits(m.zcount, 13) /\ Field(h, 37, 3) = Bits(m.seq, 3)
      /\ Field(h, 45, 3) = Bits(m.health, 3)
  BY Zenon DEF HeaderFields
<1>7. /\ Field(b, 0, 8) = Field(h, 0, 8) /\ Field(b, 40, 5) = Field(h, 40, 5) BY <1>3
<1>8. /\ Field(s, 8, 6) = Field(h, 8, 6) /\ Field(s, 14, 10) = Field(h, 14, 10)
       /\ Field(s, 24, 13) = Field(h, 24, 13) /\ Field(s, 37, 3) = Field(h, 37, 3)
       /\ Field(s, 45, 3) = Field(h, 45, 3)
  BY <1>5
<1>9. ASSUME NEW i \in 1 .. 8 PROVE data[1][i] = PREAMBLE[i]
  <2>1. i \in 1 .. 24 /\ 24 * (1 - 1) + i <= l /\ 24 * (1 - 1) + i = 0 + i BY DEF l
  <2>2. data[1][i] = b[24 * (1 - 1) + i] BY Zenon, <1>1, <1>4, <2>1
  <2>3. Field(b, 0, 8)[i] = b[0 + i] BY DEF Field
  <2> QED BY <1>6, <1>7, <2>1, <2>2, <2>3
<1>10. Expected(data) = 2 + n
  <2>1. ASSUME NEW i \in 1 .. 5 PROVE data[2][16 + i] = b[40 + i]
    <3>1. 16 + i \in 1 .. 24 /\ 24 * (2 - 1) + (16 + i) <= l /\ 24 * (2 - 1) + (16 + i) = 40 + i BY DEF l
    <3>2. data[2][16 + i] = b[24 * (2 - 1) + (16 + i)] BY Zenon, <1>1, <1>4, <3>1
    <3> QED BY <3>1, <3>2
  <2>2. [i \in 1 .. 5 |-> data[2][16 + i]] = Bits(n, 5) BY <1>6, <1>7, <2>1 DEF Field
  <2>3. n \in 0 .. 2^5 - 1 /\ 5 \in Nat BY Powers
  <2>4. Unsigned(Bits(n, 5)) = n BY <2>3, UnsignedBits
  <2> QED BY <2>2, <2>4 DEF Expected
<1>11. ASSUME NEW at \in Nat, NEW w \in Nat, at + w <= p PROVE Field(s, 48 + at, w) = Field(body, at, w)
  <2>1. 48 + at \in Nat /\ (48 + at) + w <= l BY <1>11 DEF l
  <2>2. Field(s, 48 + at, w) = Field(b, 48 + at, w) BY <1>4, <2>1
  <2>3. Field(Field(b, 48, p), at, w) = Field(b, 48 + at, w) BY <1>1, <1>11, SubField
  <2> QED BY <1>3, <2>2, <2>3
<1> QED BY <1>4, <1>6, <1>8, <1>9, <1>10, <1>11 DEF Layout, data, s, b, k, l

-----------------------------------------------------------------------------
(* Scaling, rounding and clamping. *)

\* Rounding is to the nearest count, by no more than half an LSB.
LEMMA RoundedNearest ==
  ASSUME NEW x \in Int, NEW lsb \in {20, 320}
  PROVE  /\ Rounded(x, lsb) \in Int
         /\ 2 * Magnitude(Rounded(x, lsb) * lsb - x) <= lsb
<1>1. CASE lsb = 20 BY <1>1, Z3 DEF Rounded, Magnitude
<1>2. CASE lsb = 320 BY <1>2, Z3 DEF Rounded, Magnitude
<1> QED BY <1>1, <1>2

\* A count is at most max exactly up to half an LSB beyond it (one way shown).
LEMMA RoundedMonotone ==
  ASSUME NEW x \in Int, NEW max \in {127, 32767}, NEW lsb \in {20, 320}
  PROVE  /\ Magnitude(x) <= max * lsb => Magnitude(Rounded(x, lsb)) <= max
         /\ x > max * lsb => Rounded(x, lsb) >= max
         /\ x < -(max * lsb) => Rounded(x, lsb) <= -max
<1>1. CASE lsb = 20 /\ max = 127 BY <1>1, RoundedNearest DEF Magnitude
<1>2. CASE lsb = 20 /\ max = 32767 BY <1>2, RoundedNearest DEF Magnitude
<1>3. CASE lsb = 320 /\ max = 127 BY <1>3, RoundedNearest DEF Magnitude
<1>4. CASE lsb = 320 /\ max = 32767 BY <1>4, RoundedNearest DEF Magnitude
<1> QED BY <1>1, <1>2, <1>3, <1>4

\* The fields never hold their reserved, most negative value, and write_signed
\* never raises, for any correction and rate.
THEOREM NoSentinel ==
  ASSUME NEW prc \in Int, NEW rrc \in Int
  PROVE  /\ encode_prc_rrc(prc, rrc).scale \in {0, 1}
         /\ encode_prc_rrc(prc, rrc).prc \in Int /\ encode_prc_rrc(prc, rrc).rrc \in Int
         /\ Magnitude(encode_prc_rrc(prc, rrc).prc) <= 32767
         /\ Magnitude(encode_prc_rrc(prc, rrc).rrc) <= 127
<1>1. /\ Rounded(prc, 20) \in Int /\ Rounded(prc, 320) \in Int
      /\ Rounded(rrc, 20) \in Int /\ Rounded(rrc, 320) \in Int
  BY RoundedNearest
<1>2. Clamped(Rounded(prc, 320), 32767) \in Int /\ Magnitude(Clamped(Rounded(prc, 320), 32767)) <= 32767
  BY <1>1 DEF Clamped, Magnitude
<1>3. Clamped(Rounded(rrc, 320), 127) \in Int /\ Magnitude(Clamped(Rounded(rrc, 320), 127)) <= 127
  BY <1>1 DEF Clamped, Magnitude
<1>4. CASE Magnitude(Rounded(prc, 20)) <= 32767 /\ Magnitude(Rounded(rrc, 20)) <= 127
  <2>1. encode_prc_rrc(prc, rrc) = [scale |-> 0, prc |-> Rounded(prc, 20), rrc |-> Rounded(rrc, 20)]
    BY <1>4 DEF encode_prc_rrc, Counts, LSB, PRC_MAX, RRC_MAX
  <2> QED BY <1>1, <1>4, <2>1
<1>5. CASE ~(Magnitude(Rounded(prc, 20)) <= 32767 /\ Magnitude(Rounded(rrc, 20)) <= 127)
  <2>1. encode_prc_rrc(prc, rrc) = [scale |-> 1, prc |-> Clamped(Rounded(prc, 320), 32767),
                                    rrc |-> Clamped(Rounded(rrc, 320), 127)]
    BY <1>5 DEF encode_prc_rrc, Counts, CoarseCounts, LSB, PRC_MAX, RRC_MAX
  <2> QED BY <1>2, <1>3, <2>1
<1> QED BY <1>4, <1>5

\* What is sent of one value at the scale chosen.
LEMMA ClampedStandsFor ==
  ASSUME NEW x \in Int, NEW max \in {127, 32767}
  PROVE  CoarseFor(Clamped(Rounded(x, 320), max), 1, x, max)
<1>1. Rounded(x, 320) \in Int /\ max \in Nat BY RoundedNearest
<1>2. CASE Magnitude(x) <= max * 320
  <2>1. Magnitude(Rounded(x, 320)) <= max BY <1>2, RoundedMonotone
  <2>2. Clamped(Rounded(x, 320), max) = Rounded(x, 320) BY <1>1, <2>1 DEF Clamped, Magnitude
  <2>3. 2 * Magnitude(Rounded(x, 320) * 320 - x) <= 320 BY RoundedNearest
  <2>4. Magnitude(Rounded(x, 320) * 320 - x) <= 160 BY <1>1, <2>3 DEF Magnitude
  <2> QED BY <1>2, <2>2, <2>4 DEF CoarseFor, Error, LSB
<1>3. CASE ~(Magnitude(x) <= max * 320)
  <2>1. x > max * 320 \/ x < -(max * 320) BY <1>3, <1>1 DEF Magnitude
  <2>2. CASE x > max * 320
    <3>1. Rounded(x, 320) >= max /\ x > 0 BY <2>2, RoundedMonotone
    <3>2. Clamped(Rounded(x, 320), max) = max BY <1>1, <3>1 DEF Clamped
    <3> QED BY <1>3, <3>1, <3>2 DEF CoarseFor, Error, LSB
  <2>3. CASE x < -(max * 320)
    <3>1. Rounded(x, 320) <= -max /\ ~(x > 0) BY <2>3, RoundedMonotone
    <3>2. Clamped(Rounded(x, 320), max) = -max BY <1>1, <3>1 DEF Clamped
    <3> QED BY <1>3, <3>1, <3>2 DEF CoarseFor, Error, LSB
  <2> QED BY <2>1, <2>2, <2>3
<1> QED BY <1>2, <1>3

\* Every correction is sent as a record that stands for it: to half a fine LSB
\* while correction and rate are in the fine range, to half a coarse LSB beyond,
\* and as the largest value of its sign outside both ranges.
THEOREM RecordStandsForCorrection ==
  ASSUME NEW prn \in 1 .. 32, NEW udre \in 0 .. 3, NEW iod \in 0 .. 255,
         NEW prc \in Int, NEW rrc \in Int
  PROVE  LET c == [prn |-> prn, prc |-> prc, rrc |-> rrc, iod |-> iod, udre |-> udre]
             e == encode_prc_rrc(prc, rrc)
         IN  RecordOf(c, [scale |-> e.scale, udre |-> udre, prn |-> prn % 32,
                          prc |-> e.prc, rrc |-> e.rrc, iod |-> iod])
<1> DEFINE c == [prn |-> prn, prc |-> prc, rrc |-> rrc, iod |-> iod, udre |-> udre]
           e == encode_prc_rrc(prc, rrc)
           r == [scale |-> e.scale, udre |-> udre, prn |-> prn % 32,
                 prc |-> e.prc, rrc |-> e.rrc, iod |-> iod]
           fine == Magnitude(prc) <= 32767 * 20 /\ Magnitude(rrc) <= 127 * 20
<1>1. (IF prn % 32 = 0 THEN 32 ELSE prn % 32) = prn OBVIOUS
<1>2. IF fine THEN Error(e.prc, e.scale, prc) <= 10 /\ Error(e.rrc, e.scale, rrc) <= 10
      ELSE CoarseFor(e.prc, e.scale, prc, 32767) /\ CoarseFor(e.rrc, e.scale, rrc, 127)
  <2>1. CASE Magnitude(Rounded(prc, 20)) <= 32767 /\ Magnitude(Rounded(rrc, 20)) <= 127
    <3>1. e.scale = 0 /\ e.prc = Rounded(prc, 20) /\ e.rrc = Rounded(rrc, 20)
      BY <2>1 DEF encode_prc_rrc, Counts, LSB, PRC_MAX, RRC_MAX
    <3>2. /\ 2 * Magnitude(Rounded(prc, 20) * 20 - prc) <= 20
          /\ 2 * Magnitude(Rounded(rrc, 20) * 20 - rrc) <= 20
          /\ Rounded(prc, 20) \in Int /\ Rounded(rrc, 20) \in Int
      BY RoundedNearest
    <3>3. Error(e.prc, e.scale, prc) <= 10 /\ Error(e.rrc, e.scale, rrc) <= 10
      BY <3>1, <3>2 DEF Error, LSB, Magnitude
    <3>4. Magnitude(prc) <= 32767 * 320 BY <2>1, <3>2 DEF Magnitude
    <3>5. Magnitude(rrc) <= 127 * 320 BY <2>1, <3>2 DEF Magnitude
    <3> QED BY <3>1, <3>2, <3>3, <3>4, <3>5 DEF CoarseFor, Error, LSB, Magnitude
  <2>2. CASE ~(Magnitude(Rounded(prc, 20)) <= 32767 /\ Magnitude(Rounded(rrc, 20)) <= 127)
    <3>1. ~fine BY <2>2, RoundedMonotone
    <3>2. /\ e.scale = 1 /\ e.prc = Clamped(Rounded(prc, 320), 32767)
          /\ e.rrc = Clamped(Rounded(rrc, 320), 127)
      BY <2>2 DEF encode_prc_rrc, Counts, CoarseCounts, LSB, PRC_MAX, RRC_MAX
    <3>3. CoarseFor(e.prc, e.scale, prc, 32767) /\ CoarseFor(e.rrc, e.scale, rrc, 127)
      BY <3>2, ClampedStandsFor
    <3> QED BY <3>1, <3>3
  <2> QED BY <2>1, <2>2
<1> QED BY <1>1, <1>2 DEF RecordOf, LSB, PRC_MAX, RRC_MAX

\* The records of a message fit its data words with less than a word to spare,
\* so a receiver finds as many records as were written; the 5-bit N holds the
\* words of at most 18.
THEOREM WordsHoldRecords ==
  ASSUME NEW n \in Nat
  PROVE  /\ 40 * n <= 24 * NWords(n) /\ 24 * NWords(n) < 40 * n + 24
         /\ (24 * NWords(n)) \div 40 = n
         /\ NWords(n) <= 31 <=> n <= 18
<1>1. NWords(n) \in Nat /\ 24 * NWords(n) <= 40 * n + 23 /\ 24 * NWords(n) > 40 * n + 23 - 24
  BY DEF NWords
<1>2. 40 * n <= 24 * NWords(n) /\ 24 * NWords(n) < 40 * n + 24
  BY <1>1
<1>3. ASSUME NEW w \in Nat, 40 * n <= w, w < 40 * n + 24 PROVE w \div 40 = n
  <2>1. w \div 40 \in Int /\ 40 * (w \div 40) <= w /\ w < 40 * (w \div 40) + 40 BY <1>3
  <2> QED BY <1>3, <2>1
<1>4. NWords(n) <= 31 <=> n <= 18 BY <1>1
<1> HIDE DEF NWords
<1> QED BY <1>1, <1>2, <1>3, <1>4

-----------------------------------------------------------------------------
(* What is decoded from the words of a message. *)

\* What the receiver makes of the joined words, in terms of their fields.
HeaderOf(s) ==
  [type |-> Unsigned(Field(s, 8, 6)), station_id |-> Unsigned(Field(s, 14, 10)),
   zcount |-> Unsigned(Field(s, 24, 13)), seq |-> Unsigned(Field(s, 37, 3)),
   health |-> Unsigned(Field(s, 45, 3))]
RecordAt(s, at) ==
  [scale |-> s[at + 1], udre |-> Unsigned(Field(s, at + 1, 2)), prn |-> Unsigned(Field(s, at + 3, 5)),
   prc |-> Signed(Field(s, at + 8, 16)), rrc |-> Signed(Field(s, at + 24, 8)), iod |-> Unsigned(Field(s, at + 32, 8))]

\* Decode in terms of the two.
LEMMA DecodeIs ==
  ASSUME NEW data
  PROVE  LET s == Joined(data, 24) IN
         Decode(data) =
           [header |-> HeaderOf(s),
            records |-> IF HeaderOf(s).type = 3 THEN <<>>
                        ELSE [k \in 1 .. (Len(s) - 48) \div 40 |-> RecordAt(s, 48 + 40 * (k - 1))],
            ecef |-> IF HeaderOf(s).type = 3 THEN [i \in 1 .. 3 |-> Signed(Field(s, 48 + 32 * (i - 1), 32))] ELSE <<>>]
BY DEF Decode, HeaderOf, RecordAt, Field

\* The header is read back.
InFields(m) ==
  Fits(m.station_id, 10) /\ Fits(m.zcount, 13) /\ Fits(m.seq, 3) /\ Fits(m.health, 3)

\* The header of a message is read as its fields.
LEMMA HeaderRead ==
  ASSUME NEW data, NEW type \in {1, 3}, NEW m, InFields(m), m.type = type, NEW n, NEW body, NEW p,
         Layout(data, type, m, n, body, p)
  PROVE  HeaderOf(Joined(data, 24)) =
           [type |-> m.type, station_id |-> m.station_id, zcount |-> m.zcount, seq |-> m.seq, health |-> m.health]
<1> DEFINE s == Joined(data, 24)
<1>1. /\ Field(s, 8, 6) = Bits(type, 6) /\ Field(s, 14, 10) = Bits(m.station_id, 10)
      /\ Field(s, 24, 13) = Bits(m.zcount, 13) /\ Field(s, 37, 3) = Bits(m.seq, 3)
      /\ Field(s, 45, 3) = Bits(m.health, 3)
  BY DEF Layout
<1>2. /\ type \in 0 .. 2^6 - 1 /\ m.station_id \in 0 .. 2^10 - 1 /\ m.zcount \in 0 .. 2^13 - 1
      /\ m.seq \in 0 .. 2^3 - 1 /\ m.health \in 0 .. 2^3 - 1
      /\ 6 \in Nat /\ 10 \in Nat /\ 13 \in Nat /\ 3 \in Nat
  <2>1. 2^6 = 64 BY Powers
  <2>2. type \in 0 .. 2^6 - 1 BY <2>1
  <2>3. 6 \in Nat /\ 10 \in Nat /\ 13 \in Nat /\ 3 \in Nat OBVIOUS
  <2> QED BY Zenon, <2>2, <2>3 DEF InFields, Fits
<1>3. /\ Unsigned(Bits(type, 6)) = type /\ Unsigned(Bits(m.station_id, 10)) = m.station_id
      /\ Unsigned(Bits(m.zcount, 13)) = m.zcount /\ Unsigned(Bits(m.seq, 3)) = m.seq
      /\ Unsigned(Bits(m.health, 3)) = m.health
  BY Zenon, <1>2, UnsignedBits
<1> QED BY <1>1, <1>3 DEF HeaderOf

\* A record of 40 bits is read back.
RecordIs(c) ==
  LET e == encode_prc_rrc(c.prc, c.rrc) IN
  [scale |-> e.scale, udre |-> c.udre, prn |-> c.prn % 32, prc |-> e.prc, rrc |-> e.rrc, iod |-> c.iod]

\* Its counts are not the reserved values of their fields.
NotReserved(r) == r.prc # -32768 /\ r.rrc # -128

\* A record in a message is read as it, and stands for its correction.
LEMMA RecordRead ==
  ASSUME NEW c \in Correction, c.prn \in 1 .. 32, c.udre \in 0 .. 3, c.iod \in 0 .. 255,
         NEW s, NEW at \in Nat,
         \A a, w \in Nat : a + w <= 40 => Field(s, at + a, w) = Field(Record(c), a, w)
  PROVE  /\ RecordAt(s, at) = RecordIs(c)
         /\ RecordOf(c, RecordIs(c))
         /\ NotReserved(RecordIs(c))
<1> DEFINE e == encode_prc_rrc(c.prc, c.rrc)
<1>1. c.prc \in Int /\ c.rrc \in Int BY DEF Correction
<1>2. /\ e.scale \in {0, 1} /\ e.prc \in Int /\ e.rrc \in Int
      /\ Magnitude(e.prc) <= 32767 /\ Magnitude(e.rrc) <= 127
  BY SMT, <1>1, NoSentinel
<1> HIDE DEF e
<1>3. RecordFields(Record(c), c)
  <2>1. e.scale \in Int BY <1>2
  <2> QED BY <1>2, <2>1, RecordHasFields DEF e
<1>4. /\ Field(Record(c), 0, 1) = Bits(e.scale, 1) /\ Field(Record(c), 1, 2) = Bits(c.udre, 2)
      /\ Field(Record(c), 3, 5) = Bits(c.prn % 32, 5) /\ Field(Record(c), 8, 16) = Bits(e.prc, 16)
      /\ Field(Record(c), 24, 8) = Bits(e.rrc, 8) /\ Field(Record(c), 32, 8) = Bits(c.iod, 8)
  BY Zenon, <1>3 DEF RecordFields, e
<1>5. /\ Field(s, at + 0, 1) = Field(Record(c), 0, 1) /\ Field(s, at + 1, 2) = Field(Record(c), 1, 2)
      /\ Field(s, at + 3, 5) = Field(Record(c), 3, 5) /\ Field(s, at + 8, 16) = Field(Record(c), 8, 16)
      /\ Field(s, at + 24, 8) = Field(Record(c), 24, 8) /\ Field(s, at + 32, 8) = Field(Record(c), 32, 8)
  OBVIOUS
<1>6. s[at + 1] = e.scale
  <2>1. Field(s, at + 0, 1)[1] = s[at + 1]
    <3>1. (at + 0) + 1 = at + 1 /\ 1 \in 1 .. 1 OBVIOUS
    <3> QED BY <3>1 DEF Field
  <2>2. Bits(e.scale, 1)[1] = (e.scale \div 2^0) % 2
    <3>1. 1 - 1 = 0 /\ 1 \in 1 .. 1 OBVIOUS
    <3> QED BY <3>1 DEF Bits
  <2>3. e.scale \div 2^0 = e.scale BY <1>2, ShiftByNone
  <2>4. e.scale % 2 = e.scale BY <1>2
  <2> QED BY <1>4, <1>5, <2>1, <2>2, <2>3, <2>4
<1>7. /\ Unsigned(Bits(c.udre, 2)) = c.udre /\ Unsigned(Bits(c.prn % 32, 5)) = c.prn % 32
      /\ Unsigned(Bits(c.iod, 8)) = c.iod
  <2>1. /\ c.udre \in 0 .. 2^2 - 1 /\ c.prn % 32 \in 0 .. 2^5 - 1 /\ c.iod \in 0 .. 2^8 - 1
        /\ 2 \in Nat /\ 5 \in Nat /\ 8 \in Nat
    <3>1. 2^2 - 1 = 3 /\ 2^5 - 1 = 31 /\ 2^8 - 1 = 255
      <4>1. 2^2 = 4 /\ 2^5 = 32 /\ 2^8 = 256 BY SMT, Powers
      <4> QED BY SMT, <4>1
    <3>2. c.prn % 32 \in 0 .. 31 /\ 2 \in Nat /\ 5 \in Nat /\ 8 \in Nat BY SMT
    <3> QED BY Zenon, <3>1, <3>2
  <2> QED BY <2>1, UnsignedBits
<1>8. Signed(Bits(e.prc, 16)) = e.prc
  <2>1. e.prc \in -(2^15) .. 2^15 - 1 /\ 15 \in Nat /\ 15 + 1 = 16 BY SMT, <1>2, Powers DEF Magnitude
  <2>2. Signed(Bits(e.prc, 15 + 1)) = e.prc BY Zenon, <2>1, SignedBits
  <2> QED BY <2>1, <2>2
<1>9. Signed(Bits(e.rrc, 8)) = e.rrc
  <2>1. e.rrc \in -(2^7) .. 2^7 - 1 /\ 7 \in Nat /\ 7 + 1 = 8 BY SMT, <1>2, Powers DEF Magnitude
  <2>2. Signed(Bits(e.rrc, 7 + 1)) = e.rrc BY Zenon, <2>1, SignedBits
  <2> QED BY <2>1, <2>2
<1>10. RecordAt(s, at) = RecordIs(c)
  BY <1>4, <1>5, <1>6, <1>7, <1>8, <1>9 DEF RecordAt, RecordIs, e
<1>11. RecordOf(c, RecordIs(c))
  <2>1. c = [prn |-> c.prn, prc |-> c.prc, rrc |-> c.rrc, iod |-> c.iod, udre |-> c.udre] BY DEF Correction
  <2>2. RecordOf([prn |-> c.prn, prc |-> c.prc, rrc |-> c.rrc, iod |-> c.iod, udre |-> c.udre],
                 [scale |-> e.scale, udre |-> c.udre, prn |-> c.prn % 32,
                  prc |-> e.prc, rrc |-> e.rrc, iod |-> c.iod])
    BY Zenon, <1>1, RecordStandsForCorrection DEF e
  <2> QED BY <2>1, <2>2 DEF RecordIs, e
<1>12. NotReserved(RecordIs(c))
  BY SMT, <1>2 DEF RecordIs, e, Magnitude, NotReserved
<1> QED BY <1>10, <1>11, <1>12

\* What is right of a message read, as NothingWrongDecoded and NoSentinelSent
\* say it.
RightOf(d, m) ==
  /\ \A f \in DOMAIN d.header : d.header[f] = m[f]
  /\ m.type = 1 =>
       /\ Len(d.records) = Len(m.corrections)
       /\ \A i \in DOMAIN m.corrections : RecordOf(m.corrections[i], d.records[i])
  /\ m.type = 3 =>
       \A i \in 1 .. 3 : Magnitude(100 * (d.ecef[i] - m.ecef[i].cm) - m.ecef[i].rest) <= 50
NoSentinelIn(d) == \A i \in DOMAIN d.records : NotReserved(d.records[i])

\* The words of the message m.
BodyRight(m, data) ==
  /\ data \in Seq([1 .. 24 -> Bit]) /\ Len(data) \in 2 .. 33
  /\ Expected(data) = Len(data)
  /\ \A i \in 1 .. 8 : data[1][i] = PREAMBLE[i]
  /\ RightOf(Decode(data), m)
  /\ NoSentinelIn(Decode(data))

\* A Type 1 body is read back as its message.
LEMMA Type1Right ==
  ASSUME NEW m \in Type1Message, Packable(m)
  PROVE  BodyRight(m, pack_type1_body(m))
<1> DEFINE cs == m.corrections
           k == Len(cs)
           n == NWords(k)
           recs == [i \in DOMAIN cs |-> Record(cs[i])]
           body == Joined(recs, 40)
           p == 40 * k
           h == Header(1, m, n)
           data == pack_type1_body(m)
           s == Joined(data, 24)
<1>1. /\ m.type = 1 /\ cs \in Seq(Correction) /\ k \in Nat /\ DOMAIN cs = 1 .. k
      /\ m.station_id \in Int /\ m.zcount \in Int /\ m.seq \in Int /\ m.health \in Int
  BY DEF Type1Message
<1>2. /\ InFields(m) /\ n \in 0 .. 2^5 - 1
      /\ \A i \in 1 .. k : cs[i].prn \in 1 .. 32 /\ cs[i].udre \in 0 .. 3 /\ cs[i].iod \in 0 .. 255
  <2>1. InFields(m) BY Zenon DEF Packable, Fits, InFields
  <2>2. m.type = 1 =>
          /\ Fits(NWords(Len(cs)), 5)
          /\ \A i \in DOMAIN cs : cs[i].prn \in 1 .. 32 /\ cs[i].udre \in 0 .. 3 /\ cs[i].iod \in 0 .. 255
    BY Zenon DEF Packable
  <2>3. Fits(n, 5) /\ \A i \in DOMAIN cs : cs[i].prn \in 1 .. 32 /\ cs[i].udre \in 0 .. 3 /\ cs[i].iod \in 0 .. 255
    BY Zenon, <1>1, <2>2
  <2>4. n \in 0 .. 2^5 - 1 BY Zenon, <2>3 DEF Fits
  <2> QED BY Zenon, <1>1, <2>1, <2>3, <2>4
<1>3. 40 * k <= 24 * n /\ 24 * n < 40 * k + 24 /\ (24 * n) \div 40 = k BY <1>1, WordsHoldRecords
<1>4. n \in 0 .. 31
  <2>1. 2^5 = 32 BY Powers
  <2> HIDE DEF n
  <2> QED BY <1>2, <2>1
<1> HIDE DEF n
<1>5. ASSUME NEW i \in 1 .. k
      PROVE  cs[i] \in Correction /\ Record(cs[i]) \in [1 .. 40 -> Bit]
  <2>1. cs[i] \in Correction BY <1>1
  <2> DEFINE c == cs[i]
  <2> HIDE DEF cs
  <2>2. c.prc \in Int /\ c.rrc \in Int BY <2>1 DEF Correction
  <2>3. /\ encode_prc_rrc(c.prc, c.rrc).scale \in Int
        /\ encode_prc_rrc(c.prc, c.rrc).prc \in Int /\ encode_prc_rrc(c.prc, c.rrc).rrc \in Int
    BY SMT, <2>2, NoSentinel
  <2>4. RecordFields(Record(c), c) BY <2>1, <2>3, RecordHasFields
  <2> QED BY <2>1, <2>4 DEF RecordFields
<1>6. Blocks(recs, k, 40) /\ Len(recs) = k
  <2>1. recs = [i \in 1 .. k |-> Record(cs[i])] BY <1>1
  <2> HIDE DEF cs, k
  <2>2. \A i \in 1 .. k : recs[i] \in [1 .. 40 -> Bit] BY <1>5, <2>1
  <2>3. recs = [i \in 1 .. k |-> recs[i]] BY <2>1
  <2>4. recs \in Seq([1 .. 40 -> Bit]) /\ Len(recs) = k
    <3>1. k \in Nat BY <1>1
    <3> HIDE DEF recs
    <3>2. recs \in [1 .. k -> [1 .. 40 -> Bit]] BY <2>2, <2>3
    <3> QED BY <3>1, <3>2
  <2> QED BY <2>2, <2>3, <2>4 DEF Blocks
<1>7. ASSUME NEW i \in 1 .. k PROVE recs[i] = Record(cs[i])
  <2> QED BY <1>1
<1> HIDE DEF recs, cs, k
<1>8. Joins(body, recs, k, 40)
  <2>1. 40 \in {24, 32, 40} OBVIOUS
  <2> QED BY <1>1, <1>6, <2>1, JoinedBlocks
<1> HIDE DEF body
<1>9. body \in [1 .. p -> Bit] /\ p \in Nat /\ \A i \in 1 .. k : Field(body, 40 * (i - 1), 40) = Record(cs[i])
  <2>1. body \in [1 .. 40 * k -> Bit] /\ \A i \in 1 .. k : Field(body, 40 * (i - 1), 40) = recs[i]
    BY <1>8, Zenon DEF Joins
  <2> QED BY <1>1, <1>7, <2>1
<1>10. Layout(data, 1, m, n, body, p)
  <2>1. HeaderFields(h, 1, m, n) BY <1>1, <1>4, HeaderHasFields
  <2> HIDE DEF h
  <2>2. 48 + p <= 24 * (2 + n) BY <1>1, <1>3, <1>4
  <2>3. data = DataWords(h \o body, 2 + n) BY Zenon DEF pack_type1_body, h, body, recs, n, k, cs
  <2>4. Layout(DataWords(h \o body, 2 + n), 1, m, n, body, p)
    <3> HIDE DEF p, data
    <3> QED BY <1>4, <1>9, <2>1, <2>2, WordsLayout
  <2> QED BY <2>3, <2>4
<1> HIDE DEF data, p
<1>11. /\ data \in Seq([1 .. 24 -> Bit]) /\ Len(data) = 2 + n /\ Expected(data) = 2 + n
       /\ \A i \in 1 .. 8 : data[1][i] = PREAMBLE[i]
       /\ s \in [1 .. 24 * (2 + n) -> Bit]
       /\ \A at, w \in Nat : at + w <= p => Field(s, 48 + at, w) = Field(body, at, w)
  BY <1>10, Zenon DEF Layout
<1>12. HeaderOf(s) = [type |-> m.type, station_id |-> m.station_id, zcount |-> m.zcount, seq |-> m.seq, health |-> m.health]
  <2>1. 1 \in {1, 3} OBVIOUS
  <2> QED BY <1>1, <1>2, <1>10, <2>1, HeaderRead
<1> HIDE DEF s
<1>13. (Len(s) - 48) \div 40 = k
  <2>1. Len(s) = 24 * (2 + n) BY <1>4, <1>11
  <2>2. Len(s) - 48 = 24 * n BY <1>4, <2>1
  <2> QED BY <1>3, <2>2
<1>14. Decode(data).header = HeaderOf(s) /\ Decode(data).records = [i \in 1 .. k |-> RecordAt(s, 48 + 40 * (i - 1))]
  <2>1. Decode(data) =
           [header |-> HeaderOf(s),
            records |-> IF HeaderOf(s).type = 3 THEN <<>>
                        ELSE [i \in 1 .. (Len(s) - 48) \div 40 |-> RecordAt(s, 48 + 40 * (i - 1))],
            ecef |-> IF HeaderOf(s).type = 3 THEN [i \in 1 .. 3 |-> Signed(Field(s, 48 + 32 * (i - 1), 32))] ELSE <<>>]
    BY DecodeIs DEF s
  <2>2. HeaderOf(s).type # 3 BY <1>1, <1>12
  <2> QED BY <1>13, <2>1, <2>2
<1>15. ASSUME NEW i \in 1 .. k
       PROVE  LET r == RecordAt(s, 48 + 40 * (i - 1)) IN
              RecordOf(cs[i], r) /\ NotReserved(r)
  <2> DEFINE c == cs[i]
             at == 48 + 40 * (i - 1)
             b == 40 * (i - 1)
  <2>1. ASSUME NEW a \in Nat, NEW w \in Nat, a + w <= 40
        PROVE  Field(s, at + a, w) = Field(Record(c), a, w)
    <3>1. b \in Nat /\ b + a \in Nat /\ (b + a) + w <= p /\ at + a = 48 + (b + a)
      BY <1>1, <2>1 DEF p
    <3>2. Field(s, 48 + (b + a), w) = Field(body, b + a, w) BY <1>11, <3>1
    <3>3. Field(Field(body, b, 40), a, w) = Field(body, b + a, w)
      <4>1. 40 \in Nat OBVIOUS
      <4> HIDE DEF b
      <4> QED BY <2>1, <3>1, <4>1, SubField
    <3>4. Field(body, b, 40) = Record(c) BY <1>9
    <3> QED BY <3>1, <3>2, <3>3, <3>4
  <2>2. at \in Nat BY <1>1
  <2>3. c \in Correction /\ c.prn \in 1 .. 32 /\ c.udre \in 0 .. 3 /\ c.iod \in 0 .. 255 BY <1>2, <1>5
  <2> HIDE DEF c, at
  <2>4. RecordAt(s, at) = RecordIs(c) /\ RecordOf(c, RecordIs(c)) /\ NotReserved(RecordIs(c))
    BY SMT, <2>1, <2>2, <2>3, RecordRead
  <2> QED BY <2>4 DEF c, at
<1>16. RightOf(Decode(data), m)
  <2>1. \A f \in DOMAIN Decode(data).header : Decode(data).header[f] = m[f]
    BY <1>12, <1>14
  <2>2. Len(Decode(data).records) = k
    BY <1>1, <1>14
  <2>3. \A i \in DOMAIN cs : RecordOf(cs[i], Decode(data).records[i])
    BY <1>1, <1>14, <1>15
  <2> QED BY <1>1, <2>1, <2>2, <2>3 DEF RightOf, cs, k
<1>17. NoSentinelIn(Decode(data)) BY <1>14, <1>15 DEF NoSentinelIn
<1>18. Len(data) \in 2 .. 33 BY <1>4, <1>11
<1> QED BY <1>11, <1>16, <1>17, <1>18 DEF BodyRight, data

\* A Type 3 body is read back as its message.
LEMMA Type3Right ==
  ASSUME NEW m \in Type3Message, Packable(m)
  PROVE  BodyRight(m, pack_type3_body(m))
<1> DEFINE blocks == [i \in 1 .. 3 |-> CoordinateBits(m.ecef[i])]
           body == Joined(blocks, 32)
           h == Header(3, m, 4)
           data == pack_type3_body(m)
           s == Joined(data, 24)
<1>1. /\ m.type = 3 /\ \A i \in 1 .. 3 : m.ecef[i] \in [cm : Int, rest : 0 .. 99]
      /\ m.station_id \in Int /\ m.zcount \in Int /\ m.seq \in Int /\ m.health \in Int
  BY DEF Type3Message
<1>2. InFields(m) /\ \A i \in 1 .. 3 : Fits32(Coordinate(m.ecef[i]))
  BY Zenon, <1>1 DEF Packable, InFields
<1>3. ASSUME NEW i \in 1 .. 3
      PROVE  /\ CoordinateBits(m.ecef[i]) \in [1 .. 32 -> Bit]
             /\ Signed(CoordinateBits(m.ecef[i])) = Coordinate(m.ecef[i])
             /\ Magnitude(100 * (Coordinate(m.ecef[i]) - m.ecef[i].cm) - m.ecef[i].rest) <= 50
  BY <1>1, <1>2, CoordinateRead
<1>4. Blocks(blocks, 3, 32) /\ Len(blocks) = 3
  <2>1. \A i \in 1 .. 3 : blocks[i] \in [1 .. 32 -> Bit] BY <1>3
  <2>2. blocks = [i \in 1 .. 3 |-> blocks[i]] OBVIOUS
  <2> HIDE DEF blocks
  <2>3. blocks \in [1 .. 3 -> [1 .. 32 -> Bit]] BY <2>1, <2>2
  <2>4. Len(blocks) = 3 BY <2>3
  <2> QED BY <2>1, <2>2, <2>4 DEF Blocks
<1>5. \A i \in 1 .. 3 : blocks[i] = CoordinateBits(m.ecef[i]) OBVIOUS
<1> HIDE DEF blocks
<1>6. Joins(body, blocks, 3, 32)
  <2>1. 32 \in {24, 32, 40} /\ 3 \in Nat OBVIOUS
  <2> QED BY <1>4, <2>1, JoinedBlocks
<1> HIDE DEF body
<1>7. body \in [1 .. 96 -> Bit] /\ \A i \in 1 .. 3 : Field(body, 32 * (i - 1), 32) = CoordinateBits(m.ecef[i])
  <2>1. body \in [1 .. 32 * 3 -> Bit] /\ \A i \in 1 .. 3 : Field(body, 32 * (i - 1), 32) = blocks[i]
    BY <1>6, Zenon DEF Joins
  <2>2. 32 * 3 = 96 OBVIOUS
  <2> QED BY <1>5, <2>1, <2>2
<1>8. Layout(data, 3, m, 4, body, 96)
  <2>1. HeaderFields(h, 3, m, 4) BY <1>1, HeaderHasFields
  <2> HIDE DEF h
  <2>2. 48 + 96 <= 24 * (2 + 4) /\ 96 \in Nat /\ 4 \in 0 .. 31 /\ 2 + 4 = 6 OBVIOUS
  <2>3. data = DataWords(h \o body, 2 + 4)
    <3>1. data = DataWords(h \o body, 6) BY Zenon DEF pack_type3_body, h, body, blocks
    <3> QED BY <2>2, <3>1
  <2>4. Layout(DataWords(h \o body, 2 + 4), 3, m, 4, body, 96)
    <3> HIDE DEF data
    <3> QED BY Zenon, <1>7, <2>1, <2>2, WordsLayout
  <2> QED BY <2>3, <2>4
<1> HIDE DEF data
<1>9. /\ data \in Seq([1 .. 24 -> Bit]) /\ Len(data) = 2 + 4 /\ Expected(data) = 2 + 4
      /\ \A i \in 1 .. 8 : data[1][i] = PREAMBLE[i]
      /\ \A at, w \in Nat : at + w <= 96 => Field(s, 48 + at, w) = Field(body, at, w)
  BY <1>8, Zenon DEF Layout
<1>10. HeaderOf(s) = [type |-> m.type, station_id |-> m.station_id, zcount |-> m.zcount, seq |-> m.seq, health |-> m.health]
  <2>1. 3 \in {1, 3} OBVIOUS
  <2> QED BY <1>1, <1>2, <1>8, <2>1, HeaderRead
<1> HIDE DEF s
<1>11. /\ Decode(data).header = HeaderOf(s) /\ Decode(data).records = <<>>
       /\ Decode(data).ecef = [i \in 1 .. 3 |-> Signed(Field(s, 48 + 32 * (i - 1), 32))]
  <2>1. Decode(data) =
           [header |-> HeaderOf(s),
            records |-> IF HeaderOf(s).type = 3 THEN <<>>
                        ELSE [i \in 1 .. (Len(s) - 48) \div 40 |-> RecordAt(s, 48 + 40 * (i - 1))],
            ecef |-> IF HeaderOf(s).type = 3 THEN [i \in 1 .. 3 |-> Signed(Field(s, 48 + 32 * (i - 1), 32))] ELSE <<>>]
    BY DecodeIs DEF s
  <2>2. HeaderOf(s).type = 3 BY <1>1, <1>10
  <2> QED BY <2>1, <2>2
<1>12. ASSUME NEW i \in 1 .. 3 PROVE Decode(data).ecef[i] = Coordinate(m.ecef[i])
  <2>1. 32 * (i - 1) \in Nat /\ 32 \in Nat /\ 32 * (i - 1) + 32 <= 96 OBVIOUS
  <2>2. Field(s, 48 + 32 * (i - 1), 32) = Field(body, 32 * (i - 1), 32) BY <1>9, <2>1
  <2>3. Field(s, 48 + 32 * (i - 1), 32) = CoordinateBits(m.ecef[i]) BY <1>7, <2>2
  <2>4. Decode(data).ecef[i] = Signed(Field(s, 48 + 32 * (i - 1), 32)) BY <1>11
  <2> QED BY <1>3, <2>3, <2>4
<1>13. RightOf(Decode(data), m)
  <2>1. \A f \in DOMAIN Decode(data).header : Decode(data).header[f] = m[f]
    BY <1>10, <1>11
  <2>2. \A i \in 1 .. 3 : Magnitude(100 * (Decode(data).ecef[i] - m.ecef[i].cm) - m.ecef[i].rest) <= 50
    BY <1>3, <1>12
  <2> QED BY <1>1, <2>1, <2>2 DEF RightOf
<1>14. NoSentinelIn(Decode(data)) BY <1>11 DEF NoSentinelIn
<1>15. Len(data) \in 2 .. 33 /\ Expected(data) = Len(data) BY <1>9
<1> QED BY <1>9, <1>13, <1>14, <1>15 DEF BodyRight, data

\* Whatever can be encoded is read from its data words as what was asked for.
THEOREM BodyReadsBack ==
  ASSUME NEW m \in Type1Message \cup Type3Message, Packable(m)
  PROVE  BodyRight(m, Body(m))
<1>1. CASE m \in Type1Message
  <2>1. m.type = 1 BY <1>1 DEF Type1Message
  <2> QED BY <1>1, <2>1, Type1Right DEF Body
<1>2. CASE m \in Type3Message
  <2>1. m.type # 1 BY <1>2 DEF Type3Message
  <2> QED BY <1>2, <2>1, Type3Right DEF Body
<1> QED BY <1>1, <1>2

-----------------------------------------------------------------------------
(* The encoder, the line and the receiver. *)

\* Of the words `data', each encoded behind its seed, those not in `wire' have
\* been received; what the receiver holds of them is right.
Journey(data, seed) ==
  LET n  == Len(data)
      at == n - Len(wire)
  IN  /\ Len(wire) <= n
      /\ \A i \in 1 .. Len(wire) :
           wire[i] = word30_to_bytes(encode_word(data[at + i], seed[at + i - 1][1], seed[at + i - 1][2]))
      /\ seed[n] = <<d29, d30>>
      /\ clean => ~lost /\ seed[at] = <<r29, r30>>
      /\ hits = 0 => seed[at] = <<r29, r30>>
      /\ ~lost => /\ Len(words) = at /\ \A i \in 1 .. at : words[i] = data[i]
                  /\ at # 0 => seed[at] = <<r29, r30>>
      /\ decoded = IF at = n /\ ~lost THEN {Decode(data)} ELSE {}

\* The inductive invariant: what is on the wire is the rest of the message's
\* words, behind their seeds, and the receiver that is in step holds the others.
EncInv ==
  /\ EncTypeOK
  /\ sent = NoMessage => wire = <<>> /\ decoded = {} /\ ~clean /\ (hits = 0 => <<d29, d30>> = <<r29, r30>>)
  /\ sent # NoMessage =>
       Packable(sent) /\ \E s29, s30 \in Bit : Journey(Body(sent), Seeds(Body(sent), s29, s30))

\* The initial states.
LEMMA EncInitial == EncInit => EncInv
<1> SUFFICES ASSUME EncInit PROVE EncInv OBVIOUS
<1> USE DEF EncInit
<1>1. EncTypeOK
  <2>1. MaxHits \in Nat \ {0} BY EncAssumption
  <2>2. <<>> \in Seq([1 .. 5 -> [1 .. 8 -> Bit]]) /\ <<>> \in Seq([1 .. 24 -> Bit]) OBVIOUS
  <2>3. hits \in 0 .. MaxHits BY <2>1
  <2>4. Len(words) <= 33 OBVIOUS
  <2> QED BY <2>2, <2>3, <2>4 DEF EncTypeOK, Bit
<1>2. hits = 0 => <<d29, d30>> = <<r29, r30>> OBVIOUS
<1> QED BY <1>1, <1>2 DEF EncInv

\* What the words of a message are, and its seeds.
MessageOf(m, data) ==
  /\ m \in Messages /\ m # NoMessage /\ Packable(m) /\ data = Body(m) /\ BodyRight(m, data)

\* The words of a message that can be encoded are such.
LEMMA MessageIs ==
  ASSUME NEW m \in Messages, Packable(m)
  PROVE  MessageOf(m, Body(m))
<1>1. m \in Type1Message \cup Type3Message /\ m # NoMessage BY EncAssumption
<1> QED BY <1>1, BodyReadsBack DEF MessageOf

\* encode(m) keeps the invariant: no word of the message before is on its way,
\* so its journey has ended at the seed the encoder holds.
LEMMA EncodeKeeps ==
  ASSUME EncInv, NEW m \in Messages, encode(m)
  PROVE  EncInv'
<1>1. EncTypeOK /\ d29 \in Bit /\ d30 \in Bit /\ r29 \in Bit /\ r30 \in Bit /\ hits \in 0 .. MaxHits
  BY Zenon DEF EncInv, EncTypeOK
<1>2. PICK s29 \in Bit, s30 \in Bit : s29 = d29 /\ s30 = d30 BY <1>1
<1> DEFINE data == Body(m)
           n == Len(data)
           seed == Seeds(data, s29, s30)
<1>3. MessageOf(m, data)
  <2>1. Packable(m) BY Zenon DEF encode
  <2> QED BY <2>1, MessageIs
<1> HIDE DEF data
<1>4. m # NoMessage /\ Packable(m) /\ data \in Seq([1 .. 24 -> Bit]) /\ n \in 2 .. 33
  BY <1>3, Zenon DEF MessageOf, BodyRight
<1>5. IsSeeds(data, <<s29, s30>>, seed) BY <1>4, <1>2, SeedsExist
<1> HIDE DEF seed
<1>6. seed \in [0 .. n -> Bit \X Bit] /\ seed[0] = <<s29, s30>> BY <1>5, Zenon DEF IsSeeds
<1>7. /\ wire = <<>>
      /\ wire' = [k \in 1 .. n |-> word30_to_bytes(encode_word(data[k], seed[k - 1][1], seed[k - 1][2]))]
      /\ d29' = seed[n][1] /\ d30' = seed[n][2]
      /\ sent' = m /\ words' = <<>> /\ lost' = FALSE /\ decoded' = {}
      /\ clean' = (r29 = d29 /\ r30 = d30)
      /\ r29' = r29 /\ r30' = r30 /\ hits' = hits
  BY <1>2 DEF encode, encode_words, Encoded, data, seed
<1>8. hits = 0 => <<d29, d30>> = <<r29, r30>>
  <2>1. CASE sent = NoMessage BY <2>1, Zenon DEF EncInv
  <2>2. CASE sent # NoMessage
    <3>1. PICK t29 \in Bit, t30 \in Bit : Journey(Body(sent), Seeds(Body(sent), t29, t30))
      BY <2>2, Zenon DEF EncInv
    <3> DEFINE old == Body(sent)
               before == Seeds(old, t29, t30)
    <3>2. old \in Seq([1 .. 24 -> Bit])
      <4>1. sent \in Messages /\ Packable(sent) BY <1>1, <2>2 DEF EncInv, EncTypeOK
      <4>2. MessageOf(sent, old) BY <4>1, MessageIs
      <4> QED BY <4>2, Zenon DEF MessageOf, BodyRight
    <3> HIDE DEF old, before
    <3>3. Journey(old, before) BY <3>1 DEF old, before
    <3>4. Len(old) - Len(wire) = Len(old) BY <1>7, <3>2
    <3>5. before[Len(old)] = <<d29, d30>> /\ (hits = 0 => before[Len(old) - Len(wire)] = <<r29, r30>>)
      BY <3>3, Zenon DEF Journey
    <3> QED BY <3>4, <3>5
  <2> QED BY <2>1, <2>2
<1>9. seed[n] \in Bit \X Bit /\ n \in Nat
  <2>1. n \in 0 .. n /\ n \in Nat BY <1>4
  <2> QED BY <1>6, <2>1
<1>10. ASSUME NEW k \in 1 .. n
      PROVE  word30_to_bytes(encode_word(data[k], seed[k - 1][1], seed[k - 1][2])) \in [1 .. 5 -> [1 .. 8 -> Bit]]
  <2>1. k - 1 \in 0 .. n BY <1>9
  <2>2. data \in Seq([1 .. 24 -> Bit]) BY <1>4
  <2>3. data[k] \in [1 .. 24 -> Bit] BY <2>2, WordOf, Zenon
  <2>4. PICK t29 \in Bit, t30 \in Bit : seed[k - 1][1] = t29 /\ seed[k - 1][2] = t30 BY <1>6, <2>1
  <2>5. encode_word(data[k], t29, t30) \in [1 .. 30 -> Bit] BY <2>3, EncodedWord
  <2> QED BY <2>4, <2>5, BytesBack
<1>11. wire' \in Seq([1 .. 5 -> [1 .. 8 -> Bit]]) /\ Len(wire') = n
  <2>1. wire' \in [1 .. n -> [1 .. 5 -> [1 .. 8 -> Bit]]] BY <1>7, <1>10
  <2> QED BY <1>9, <2>1
<1>12. EncTypeOK'
  <2>1. d29' \in Bit /\ d30' \in Bit BY <1>7, <1>9
  <2>2. words' \in Seq([1 .. 24 -> Bit]) /\ Len(words') <= 33 BY <1>7
  <2>3. sent' \in Messages \cup {NoMessage} BY <1>7
  <2>4. lost' \in BOOLEAN /\ clean' \in BOOLEAN BY <1>7
  <2>5. r29' \in Bit /\ r30' \in Bit /\ hits' \in 0 .. MaxHits BY <1>1, <1>7
  <2> QED BY <1>11, <2>1, <2>2, <2>3, <2>4, <2>5 DEF EncTypeOK
<1>13. Journey(data, seed)'
  <2>1. n - Len(wire') = 0 /\ Len(wire') <= n /\ 0 # n BY <1>4, <1>11
  <2>2. ASSUME NEW i \in 1 .. n
        PROVE  wire'[i] = word30_to_bytes(encode_word(data[0 + i], seed[0 + i - 1][1], seed[0 + i - 1][2]))
    <3>1. 0 + i = i OBVIOUS
    <3> QED BY <1>7, <3>1
  <2>3. seed[n] = <<d29', d30'>> BY <1>7, <1>9
  <2>4. clean' => ~lost' /\ seed[0] = <<r29', r30'>> BY <1>2, <1>6, <1>7
  <2>5. hits' = 0 => seed[0] = <<r29', r30'>> BY <1>2, <1>6, <1>7, <1>8
  <2>6. Len(words') = 0 /\ decoded' = {} BY <1>7
  <2> QED BY <1>11, <2>1, <2>2, <2>3, <2>4, <2>5, <2>6 DEF Journey
<1>14. \E t29, t30 \in Bit : Journey(Body(m), Seeds(Body(m), t29, t30))'
  BY <1>2, <1>13, Zenon DEF data, seed
<1> QED BY <1>4, <1>7, <1>12, <1>14 DEF EncInv

\* Words in a row: one more, and two rows that are the same.
LEMMA OneMore ==
  ASSUME NEW q \in Seq([1 .. 24 -> Bit]), NEW x \in [1 .. 24 -> Bit]
  PROVE  /\ Append(q, x) \in Seq([1 .. 24 -> Bit]) /\ Len(Append(q, x)) = Len(q) + 1
         /\ \A i \in 1 .. Len(q) : Append(q, x)[i] = q[i]
         /\ Append(q, x)[Len(q) + 1] = x
<1> DEFINE T == [1 .. 24 -> Bit]
<1>1. q \in Seq(T) /\ x \in T OBVIOUS
<1> HIDE DEF T
<1>2. /\ Append(q, x) \in Seq(T) /\ Len(Append(q, x)) = Len(q) + 1
      /\ \A i \in 1 .. Len(q) : Append(q, x)[i] = q[i]
      /\ Append(q, x)[Len(q) + 1] = x
  BY <1>1, AppendedTo
<1> QED BY <1>2, Zenon DEF T

\* Rows that agree word for word are the same.
LEMMA SameRow ==
  ASSUME NEW q \in Seq([1 .. 24 -> Bit]), NEW r \in Seq([1 .. 24 -> Bit]), Len(q) = Len(r),
         \A i \in 1 .. Len(r) : q[i] = r[i]
  PROVE  q = r
<1> DEFINE T == [1 .. 24 -> Bit]
<1>1. q \in Seq(T) /\ r \in Seq(T) OBVIOUS
<1> HIDE DEF T
<1>2. q = [i \in 1 .. Len(q) |-> q[i]] /\ r = [i \in 1 .. Len(r) |-> r[i]] BY <1>1, Elements
<1>3. [i \in 1 .. Len(q) |-> q[i]] = [i \in 1 .. Len(r) |-> r[i]] BY Zenon
<1> QED BY <1>2, <1>3, Zenon

\* receive(noise) keeps the invariant: a word passes only undisturbed and in step,
\* and then the receiver holds the seed the next word was encoded behind.
LEMMA ReceiveKeeps ==
  ASSUME EncInv, NEW noise \in Noise, receive(noise)
  PROVE  EncInv'
<1>1. /\ EncTypeOK /\ r29 \in Bit /\ r30 \in Bit /\ hits \in 0 .. MaxHits /\ MaxHits \in Nat \ {0}
      /\ wire \in Seq([1 .. 5 -> [1 .. 8 -> Bit]]) /\ words \in Seq([1 .. 24 -> Bit]) /\ lost \in BOOLEAN /\ clean \in BOOLEAN
  BY Zenon, EncAssumption DEF EncInv, EncTypeOK
<1>2. wire # <<>> BY DEF receive
<1>3. PICK m \in Messages : m = sent /\ m # NoMessage /\ Packable(m)
  BY <1>2, Zenon DEF EncInv, EncTypeOK
<1>4. PICK s29 \in Bit, s30 \in Bit : Journey(Body(m), Seeds(Body(m), s29, s30))
  BY <1>3, Zenon DEF EncInv
<1> DEFINE data == Body(m)
           n == Len(data)
           seed == Seeds(data, s29, s30)
<1>5. MessageOf(m, data) BY <1>3, MessageIs
<1>6. Journey(data, seed) BY <1>4
<1> HIDE DEF data
<1>7. n \in 2 .. 33 /\ Expected(data) = n BY <1>5, Zenon DEF MessageOf, BodyRight
<1>8. /\ data \in Seq([1 .. 24 -> Bit]) /\ n \in 2 .. 33 /\ Expected(data) = n
      /\ \A i \in 1 .. 8 : data[1][i] = PREAMBLE[i]
  BY <1>5, Zenon DEF MessageOf, BodyRight
<1>9. IsSeeds(data, <<s29, s30>>, seed) BY <1>8, SeedsExist
<1> HIDE DEF seed
<1>10. seed \in [0 .. n -> Bit \X Bit] /\ \A i \in 1 .. n : seed[i] = Left(data[i], seed[i - 1])
  BY <1>9, Zenon DEF IsSeeds
<1>11. PICK at \in 0 .. n : at = n - Len(wire) /\ at < n
  <2>1. Len(wire) <= n BY <1>6, Zenon DEF Journey
  <2>2. Len(wire) \in Nat \ {0} BY <1>1, <1>2
  <2>3. n \in 2 .. 33 BY <1>8
  <2> HIDE DEF n
  <2>4. n - Len(wire) \in 0 .. n /\ n - Len(wire) < n BY <2>1, <2>2, <2>3
  <2> QED BY <2>4
<1> DEFINE k == at + 1
<1>12. k \in 1 .. n /\ k - 1 = at /\ n \in Nat /\ 1 \in 1 .. Len(wire) /\ Len(wire) = n - at
  BY <1>1, <1>8, <1>11
<1> HIDE DEF k
<1>13. PICK t29 \in Bit, t30 \in Bit : seed[at] = <<t29, t30>>
  BY <1>10
<1>14. PICK p29 \in Bit, p30 \in Bit : p29 = r29 /\ p30 = r30
  BY <1>1
<1> DEFINE e == encode_word(data[k], t29, t30)
           word == Arrived(e, noise)
           w == Taken(p29, p30, word)
           passes == noise = {} /\ seed[at] = <<p29, p30>>
<1>15. data[k] \in [1 .. 24 -> Bit]
  <2>1. data \in Seq([1 .. 24 -> Bit]) BY <1>8
  <2> QED BY <1>12, <2>1, WordOf, Zenon
<1>16. e \in [1 .. 30 -> Bit] BY <1>15, EncodedWord
<1>17. BitsOf(wire[1]) = e
  <2>1. wire[1] = word30_to_bytes(encode_word(data[at + 1], seed[at + 1 - 1][1], seed[at + 1 - 1][2]))
    BY <1>6, <1>11, <1>12, Zenon DEF Journey
  <2>2. at + 1 - 1 = at BY <1>11
  <2>3. wire[1] = word30_to_bytes(e) BY <1>13, <2>1, <2>2 DEF k
  <2> QED BY <1>16, <2>3, BytesBack
<1>18. /\ ParityHolds(w) <=> passes
       /\ ParityHolds(w) => \A i \in 1 .. 24 : w[i + 2] = data[k][i]
  <2>1. noise # {} => hits < MaxHits BY DEF receive
  <2>2. noise = {} \/ (t29 = p29 /\ t30 = p30) \/ MaxHits > 1
    <3>1. hits = 0 => seed[at] = <<r29, r30>> BY <1>6, <1>11, Zenon DEF Journey
    <3> QED BY <1>1, <1>13, <1>14, <2>1, <3>1
  <2>3. WordRead(data[k], t29, t30, p29, p30, noise) BY <1>15, <2>2, WordPasses
  <2>4. LET x == Taken(p29, p30, Arrived(encode_word(data[k], t29, t30), noise)) IN
         /\ ParityHolds(x) <=> noise = {} /\ t29 = p29 /\ t30 = p30
         /\ ParityHolds(x) => \A i \in 1 .. 24 : x[i + 2] = data[k][i]
    BY <2>3, Zenon DEF WordRead
  <2>5. seed[at] = <<p29, p30>> <=> t29 = p29 /\ t30 = p30 BY <1>13
  <2> QED BY <2>4, <2>5, Zenon
<1>19. /\ hits' = IF noise = {} THEN hits ELSE hits + 1
       /\ noise # {} => hits < MaxHits
       /\ clean' = (clean /\ noise = {})
       /\ r29' = word[29] /\ r30' = word[30]
       /\ lost' = (lost \/ ~ParityHolds(w) \/ (words = <<>> /\ \E i \in 1 .. 8 : w[i + 2] # PREAMBLE[i]))
       /\ lost' => words' = words /\ decoded' = decoded
       /\ ~lost' => LET held == Append(words, [i \in 1 .. 24 |-> w[i + 2]]) IN
                    /\ words' = held
                    /\ decoded' = IF Len(held) >= 2 /\ Len(held) = Expected(held) THEN {Decode(held)} ELSE decoded
       /\ wire' = Tail(wire) /\ d29' = d29 /\ d30' = d30 /\ sent' = sent
  BY <1>14, <1>17, Zenon DEF receive, BitsOf, Arrived, Taken
<1>20. seed[k] = <<e[29], e[30]>>
  <2>1. seed[k] = Left(data[k], seed[at]) BY <1>10, <1>12
  <2> QED BY <1>13, <2>1 DEF Left
<1>21. word \in [1 .. 30 -> Bit] /\ (noise = {} => word = e)
  <2>1. word \in [1 .. 30 -> Bit] BY <1>16, ArrivedFacts
  <2>2. noise = {} => word = [i \in 1 .. 30 |-> e[i]] BY DEF Arrived
  <2> QED BY <1>16, <2>1, <2>2
<1> HIDE DEF w, word, e, passes
<1>22. noise = {} => seed[k] = <<r29', r30'>> BY <1>19, <1>20, <1>21
<1>23. /\ seed[n] = <<d29, d30>>
       /\ clean => ~lost /\ seed[at] = <<r29, r30>>
       /\ hits = 0 => seed[at] = <<r29, r30>>
       /\ ~lost => Len(words) = at /\ \A i \in 1 .. at : words[i] = data[i]
       /\ decoded = {}
  <2>1. at # n BY <1>11
  <2> QED BY <1>6, <1>11, <2>1, Zenon DEF Journey
<1>24. ~lost' <=> ~lost /\ passes
  <2>1. ASSUME ~lost, passes, words = <<>>, NEW i \in 1 .. 8 PROVE w[i + 2] = PREAMBLE[i]
    <3>1. Len(words) = 0 BY <2>1
    <3>2. k = 1 BY <1>23, <2>1, <3>1 DEF k
    <3>3. \A j \in 1 .. 24 : w[j + 2] = data[k][j] BY <1>18, <2>1
    <3>4. i \in 1 .. 24 BY <2>1
    <3>5. data[1][i] = PREAMBLE[i] BY <1>8, <2>1
    <3>6. w[i + 2] = data[1][i] BY <3>2, <3>3, <3>4, Zenon
    <3> QED BY <3>5, <3>6
  <2> QED BY <1>18, <1>19, <2>1
<1>25. ASSUME ~lost'
       PROVE  /\ words' = Append(words, data[k]) /\ Len(words') = k /\ words' \in Seq([1 .. 24 -> Bit])
              /\ \A i \in 1 .. k : words'[i] = data[i]
              /\ decoded' = IF k = n THEN {Decode(data)} ELSE {}
              /\ seed[k] = <<r29', r30'>>
  <2>1. ~lost /\ passes BY <1>24, <1>25
  <2>2. [i \in 1 .. 24 |-> w[i + 2]] = data[k]
    <3>1. \A i \in 1 .. 24 : w[i + 2] = data[k][i] BY <1>18, <2>1
    <3>2. data[k] = [i \in 1 .. 24 |-> data[k][i]] BY <1>15
    <3>3. [i \in 1 .. 24 |-> w[i + 2]] = [i \in 1 .. 24 |-> data[k][i]] BY <3>1
    <3> QED BY <3>2, <3>3, Zenon
  <2>3. words' = Append(words, data[k]) BY <1>19, <1>25, <2>2, Zenon
  <2>4. Len(words) = at /\ \A i \in 1 .. at : words[i] = data[i] BY <1>23, <2>1
  <2>5. words' \in Seq([1 .. 24 -> Bit]) /\ Len(words') = k BY <1>1, <1>15, <2>3, <2>4, OneMore DEF k
  <2>6. ASSUME NEW i \in 1 .. k PROVE words'[i] = data[i]
    <3>1. CASE i = k
      <4>1. i = Len(words) + 1 BY <2>4, <3>1 DEF k
      <4> QED BY <1>1, <1>15, <2>3, <3>1, <4>1, OneMore
    <3>2. CASE i # k
      <4>1. i \in 1 .. at BY <1>11, <3>2 DEF k
      <4>2. words'[i] = words[i] BY <1>1, <1>15, <2>3, <2>4, <4>1, OneMore
      <4> QED BY <2>4, <4>1, <4>2
    <3> QED BY <3>1, <3>2
  <2>7. decoded' = IF Len(words') >= 2 /\ Len(words') = Expected(words') THEN {Decode(words')} ELSE decoded
    BY <1>19, <1>25, Zenon
  <2>8. decoded' = IF k = n THEN {Decode(data)} ELSE {}
    <3>1. CASE k = n
      <4>1. words' = data
        <5>1. words' \in Seq([1 .. 24 -> Bit]) /\ data \in Seq([1 .. 24 -> Bit]) /\ Len(words') = Len(data)
          BY <1>8, <2>5, <3>1 DEF n
        <5>2. \A i \in 1 .. Len(data) : words'[i] = data[i] BY <2>6, <3>1 DEF n
        <5> QED BY <5>1, <5>2, SameRow
      <4>2. Len(data) >= 2 /\ Len(data) = Expected(data) BY <1>7 DEF n
      <4> QED BY <2>7, <3>1, <4>1, <4>2
    <3>2. CASE k # n
      <4>1. Len(words') >= 2 => Expected(words') = n
        <5>1. ASSUME Len(words') >= 2 PROVE words'[2] = data[2]
          <6>1. 2 \in 1 .. k BY <1>12, <2>5, <5>1
          <6> QED BY <2>6, <6>1
        <5>2. words'[2] = data[2] => Expected(words') = Expected(data) BY DEF Expected
        <5> QED BY <1>8, <5>1, <5>2
      <4>2. ~ (Len(words') >= 2 /\ Len(words') = Expected(words')) BY <2>5, <3>2, <4>1
      <4> QED BY <1>23, <2>7, <3>2, <4>2
    <3> QED BY <3>1, <3>2
  <2> QED BY <1>22, <2>1, <2>3, <2>5, <2>6, <2>8 DEF passes
<1>26. lost' => words' = words /\ decoded' = {} BY <1>19, <1>23
<1>27. wire' \in Seq([1 .. 5 -> [1 .. 8 -> Bit]]) /\ Len(wire') = n - k
  BY <1>1, <1>2, <1>12, <1>19 DEF k
<1>28. EncTypeOK'
  <2>1. d29' \in Bit /\ d30' \in Bit /\ sent' \in Messages \cup {NoMessage} BY <1>1, <1>19 DEF EncTypeOK
  <2>2. r29' \in Bit /\ r30' \in Bit BY <1>19, <1>21
  <2>3. lost' \in BOOLEAN /\ clean' \in BOOLEAN BY <1>19
  <2>4. hits' \in 0 .. MaxHits BY <1>1, <1>19
  <2>5. words' \in Seq([1 .. 24 -> Bit]) /\ Len(words') <= 33
    <3>1. CASE lost' BY <1>1, <1>26, <3>1 DEF EncTypeOK
    <3>2. CASE ~lost'
      <4>1. k <= 33
        <5>1. at < n BY <1>11
        <5>2. n \in 2 .. 33 BY <1>7
        <5> HIDE DEF n
        <5> QED BY <1>11, <5>1, <5>2 DEF k
      <4>2. words' \in Seq([1 .. 24 -> Bit]) /\ Len(words') = k BY <1>25, <3>2, Zenon
      <4> QED BY <4>1, <4>2
    <3> QED BY <3>1, <3>2
  <2> QED BY <1>27, <2>1, <2>2, <2>3, <2>4, <2>5 DEF EncTypeOK
<1>29. Journey(data, seed)'
  <2>1. n - Len(wire') = k /\ Len(wire') <= n /\ k # 0 BY <1>8, <1>12, <1>27
  <2>2. ASSUME NEW i \in 1 .. Len(wire')
        PROVE  wire'[i] = word30_to_bytes(encode_word(data[k + i], seed[k + i - 1][1], seed[k + i - 1][2]))
    <3>1. i + 1 \in 1 .. Len(wire) /\ wire'[i] = wire[i + 1]
      BY <1>1, <1>2, <1>12, <1>19, <1>27 DEF k
    <3>2. at + (i + 1) = k + i /\ at + (i + 1) - 1 = k + i - 1 BY <1>11, <1>27 DEF k
    <3>3. wire[i + 1] =
            word30_to_bytes(encode_word(data[at + (i + 1)], seed[at + (i + 1) - 1][1], seed[at + (i + 1) - 1][2]))
      BY <1>6, <1>11, <3>1, Zenon DEF Journey
    <3> QED BY <3>1, <3>2, <3>3, Zenon
  <2>3. seed[n] = <<d29', d30'>> BY <1>19, <1>23
  <2>4. clean' => ~lost' /\ seed[k] = <<r29', r30'>> BY <1>14, <1>19, <1>22, <1>23, <1>24 DEF passes
  <2>5. hits' = 0 => seed[k] = <<r29', r30'>>
    <3>1. noise # {} => hits' = hits + 1 BY <1>19, Zenon
    <3>2. noise # {} => hits' # 0 BY <1>1, <3>1
    <3> QED BY <1>22, <3>2
  <2>6. ~lost' => /\ Len(words') = k /\ \A i \in 1 .. k : words'[i] = data[i]
                  /\ seed[k] = <<r29', r30'>>
    BY <1>25
  <2>7. decoded' = IF k = n /\ ~lost' THEN {Decode(data)} ELSE {} BY <1>25, <1>26
  <2> QED BY <2>1, <2>2, <2>3, <2>4, <2>5, <2>6, <2>7 DEF Journey, n
<1>30. sent' = m /\ \E q29, q30 \in Bit : Journey(Body(m), Seeds(Body(m), q29, q30))'
  <2>1. Journey(Body(m), Seeds(Body(m), s29, s30))' BY <1>29 DEF data, seed
  <2> QED BY <1>3, <1>19, <2>1
<1> QED BY <1>3, <1>28, <1>30 DEF EncInv

\* So does a step that changes nothing.
LEMMA EncUnchanged ==
  ASSUME EncInv, UNCHANGED encVars
  PROVE  EncInv'
<1>1. EncTypeOK' BY Zenon DEF EncInv, EncTypeOK, encVars
<1>2. ASSUME sent # NoMessage
      PROVE  \E s29, s30 \in Bit : Journey(Body(sent), Seeds(Body(sent), s29, s30))'
  <2>1. PICK m \in Messages : m = sent BY <1>2 DEF EncInv, EncTypeOK
  <2>2. PICK s29 \in Bit, s30 \in Bit : Journey(Body(m), Seeds(Body(m), s29, s30))
    BY <1>2, <2>1, Zenon DEF EncInv
  <2> DEFINE data == Body(m)
             seed == Seeds(data, s29, s30)
  <2>3. Journey(data, seed) BY <2>2
  <2> HIDE DEF data, seed
  <2>4. Journey(data, seed)' BY <2>3 DEF Journey, encVars
  <2>5. Journey(Body(m), Seeds(Body(m), s29, s30))' BY <2>4, Zenon DEF data, seed
  <2>6. sent' = m BY <2>1 DEF encVars
  <2> QED BY <2>5, <2>6
<1>3. sent' = sent /\ wire' = wire /\ decoded' = decoded /\ clean' = clean /\ hits' = hits
      /\ d29' = d29 /\ d30' = d30 /\ r29' = r29 /\ r30' = r30
  BY DEF encVars
<1> QED BY <1>1, <1>2, <1>3 DEF EncInv

\* The inductive invariant holds in every state.
THEOREM EncInvariant == EncSpec => []EncInv
<1>1. ASSUME EncInv, [EncNext]_encVars PROVE EncInv'
  <2>1. CASE \E m \in Messages : encode(m) BY <1>1, <2>1, EncodeKeeps
  <2>2. CASE \E noise \in Noise : receive(noise) BY <1>1, <2>2, ReceiveKeeps
  <2>3. CASE UNCHANGED encVars BY <1>1, <2>3, EncUnchanged
  <2> QED BY <1>1, <2>1, <2>2, <2>3 DEF EncNext
<1> QED BY EncInitial, <1>1, PTL DEF EncSpec

\* The encoder's state and the receiver's have their types.
THEOREM EncTypes == EncSpec => []EncTypeOK
<1>1. EncInv => EncTypeOK BY DEF EncInv
<1> QED BY <1>1, EncInvariant, PTL

\* What is decoded is the message that was sent.
LEMMA DecodedIsSent ==
  ASSUME EncInv, NEW d \in decoded
  PROVE  MessageOf(sent, Body(sent)) /\ d = Decode(Body(sent))
<1>1. sent # NoMessage BY DEF EncInv
<1>2. sent \in Messages /\ Packable(sent) BY <1>1 DEF EncInv, EncTypeOK
<1>3. PICK s29 \in Bit, s30 \in Bit : Journey(Body(sent), Seeds(Body(sent), s29, s30))
  BY <1>1, Zenon DEF EncInv
<1>4. d \in {Decode(Body(sent))} BY <1>3 DEF Journey
<1> QED BY <1>2, <1>4, MessageIs

\* NothingWrongDecoded: a receiver takes nothing for a message that is not the
\* one encoded, whatever the line did to its words.
THEOREM NothingWrong == EncSpec => []NothingWrongDecoded
<1>1. ASSUME EncInv PROVE NothingWrongDecoded
  <2>1. ASSUME NEW d \in decoded PROVE RightOf(d, sent)
    BY <1>1, DecodedIsSent, Zenon DEF MessageOf, BodyRight
  <2> QED BY <2>1, Zenon DEF NothingWrongDecoded, RightOf
<1> QED BY <1>1, EncInvariant, PTL

\* CleanMessagesDecoded: seed and parity are chained right over all words and
\* all messages, so that what arrives undisturbed is decoded.
THEOREM CleanDecoded == EncSpec => []CleanMessagesDecoded
<1>1. ASSUME EncInv PROVE CleanMessagesDecoded
  <2>1. SUFFICES ASSUME wire = <<>>, clean PROVE decoded # {} BY DEF CleanMessagesDecoded
  <2>2. sent # NoMessage BY <1>1, <2>1, Zenon DEF EncInv
  <2>3. PICK s29 \in Bit, s30 \in Bit : Journey(Body(sent), Seeds(Body(sent), s29, s30))
    BY <1>1, <2>2, Zenon DEF EncInv
  <2>4. sent \in Messages /\ Packable(sent) BY <1>1, <2>2 DEF EncInv, EncTypeOK
  <2>5. Len(Body(sent)) - Len(wire) = Len(Body(sent))
    <3>1. Len(Body(sent)) \in 2 .. 33 BY <2>4, MessageIs, Zenon DEF MessageOf, BodyRight
    <3> QED BY <2>1, <3>1
  <2> QED BY <2>1, <2>3, <2>5 DEF Journey
<1> QED BY <1>1, EncInvariant, PTL

\* NoSentinelSent: no count decoded is the most negative value of its field.
THEOREM NoReservedValue == EncSpec => []NoSentinelSent
<1>1. ASSUME EncInv PROVE NoSentinelSent
  <2>1. ASSUME NEW d \in decoded PROVE NoSentinelIn(d)
    BY <1>1, DecodedIsSent, Zenon DEF MessageOf, BodyRight
  <2> QED BY SMT, <2>1 DEF NoSentinelSent, NoSentinelIn, NotReserved
<1> QED BY <1>1, EncInvariant, PTL
=============================================================================
