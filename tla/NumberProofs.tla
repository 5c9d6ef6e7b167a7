---------------------------- MODULE NumberProofs ----------------------------
(***************************************************************************)
(* Facts about numbers that the other proofs cite: induction over the      *)
(* naturals in the form of least elements of sets, division with           *)
(* remainder, and powers of two.                                           *)
(***************************************************************************)
EXTENDS Integers, FiniteSetTheorems, WellFoundedInduction, TLAPS

-----------------------------------------------------------------------------
\* Induction: a set of naturals that is not empty has a least element.
LEMMA LeastNatural ==
  ASSUME NEW T \in SUBSET Nat, T # {}
  PROVE  \E x \in T : \A y \in T : x <= y
<1>1. PICK x \in T : \A y \in T : ~ (<<y, x>> \in OpToRel(<, Nat))
  BY NatLessThanWellFounded, WFMin
<1>2. ASSUME NEW y \in T PROVE x <= y
  <2>1. <<y, x>> \in OpToRel(<, Nat) <=> y < x
    BY DEF OpToRel
  <2>2. ~ (y < x) BY Zenon, <1>1, <2>1
  <2> QED BY <2>2
<1> QED BY <1>2

\* So what holds of 0, and of k + 1 when of k, holds of every natural.
LEMMA Induction ==
  ASSUME NEW T, 0 \in T, \A k \in Nat : k \in T => k + 1 \in T
  PROVE  \A n \in Nat : n \in T
<1> SUFFICES ASSUME NEW n \in Nat, n \notin T PROVE FALSE OBVIOUS
<1>1. PICK x \in Nat \ T : \A y \in Nat \ T : x <= y BY LeastNatural
<1>2. x # 0 /\ x - 1 \in Nat BY <1>1
<1>3. x - 1 \in T BY <1>1, <1>2
<1>4. (x - 1) + 1 \in T BY <1>2, <1>3
<1> QED BY <1>1, <1>4

-----------------------------------------------------------------------------
\* Division with remainder by a positive number, and its uniqueness.
LEMMA DivMod ==
  ASSUME NEW x \in Int, NEW w \in Nat \ {0}
  PROVE  /\ x % w \in 0 .. w - 1
         /\ x \div w \in Int
         /\ x = w * (x \div w) + (x % w)
  OBVIOUS

LEMMA DivModUnique ==
  ASSUME NEW w \in Nat \ {0}, NEW q \in Int, NEW r \in 0 .. w - 1
  PROVE  (w * q + r) % w = r /\ (w * q + r) \div w = q
<1> DEFINE x == w * q + r
           d == x \div w
           m == x % w
<1>1. x \in Int /\ d \in Int /\ m \in 0 .. w - 1 /\ x = w * d + m
  BY DivMod
<1>2. w * (q - d) = m - r
  BY <1>1
<1>3. CASE q = d
  BY <1>1, <1>3
<1>4. CASE q > d
  <2>1. w * (q - d) >= w  BY <1>1, <1>4
  <2> QED  BY <1>1, <1>2, <2>1
<1>5. CASE q < d
  <2>1. w * (q - d) <= -w  BY <1>1, <1>5
  <2> QED  BY <1>1, <1>2, <2>1
<1> QED  BY <1>1, <1>3, <1>4, <1>5

\* To divide by 2p is to divide by p and then by two.
LEMMA DivTwice ==
  ASSUME NEW x \in Int, NEW p \in Nat \ {0}
  PROVE  x \div (2 * p) = (x \div p) \div 2
<1>1. PICK q \in Int, r \in 0 .. p - 1 : x = p * q + r /\ q = x \div p BY DivMod
<1>2. PICK h \in Int, b \in 0 .. 1 : q = 2 * h + b /\ h = q \div 2
  <2>1. q \div 2 \in Int /\ q % 2 \in 0 .. 1 /\ q = 2 * (q \div 2) + (q % 2) OBVIOUS
  <2> QED BY <2>1
<1>3. x = (2 * p) * h + (p * b + r)
  <2>1. p * q = p * (2 * h + b) BY <1>2
  <2>2. p * (2 * h + b) = (2 * p) * h + p * b OBVIOUS
  <2> QED BY <1>1, <2>1, <2>2
<1>4. p * b + r \in 0 .. 2 * p - 1
  <2>1. CASE b = 0 BY <2>1
  <2>2. CASE b = 1 BY <2>2
  <2> QED BY <2>1, <2>2
<1>5. 2 * p \in Nat \ {0} OBVIOUS
<1>6. ((2 * p) * h + (p * b + r)) \div (2 * p) = h BY <1>4, <1>5, DivModUnique
<1> QED BY <1>1, <1>2, <1>3, <1>6

-----------------------------------------------------------------------------
\* A set has twice as many subsets once an element is added, so that powers of
\* two double: the provers know the power operator by this only.
LEMMA PowerOfTwo ==
  ASSUME NEW n \in Nat
  PROVE  2^n \in Nat /\ 2^(n + 1) = 2 * 2^n
<1> DEFINE S == 1 .. n
           T == 1 .. n + 1
           without == SUBSET S
           with == {U \cup {n + 1} : U \in SUBSET S}
<1>1. IsFiniteSet(S) /\ Cardinality(S) = n /\ IsFiniteSet(T) /\ Cardinality(T) = n + 1
  BY FS_Interval
<1>2. IsFiniteSet(without) /\ Cardinality(without) = 2^n BY <1>1, FS_SUBSET
<1>3. IsFiniteSet(SUBSET T) /\ Cardinality(SUBSET T) = 2^(n + 1) BY <1>1, FS_SUBSET
<1>4. n + 1 \notin S /\ T = S \cup {n + 1} OBVIOUS
<1>5. SUBSET T = without \cup with
  <2>1. ASSUME NEW U \in SUBSET T PROVE U \in without \cup with
    <3>1. CASE n + 1 \in U
      <4>1. U \ {n + 1} \in SUBSET S /\ U = (U \ {n + 1}) \cup {n + 1} BY <1>4, <3>1
      <4> QED BY <4>1
    <3>2. CASE n + 1 \notin U BY <1>4, <3>2
    <3> QED BY <3>1, <3>2
  <2> HIDE DEF S, T
  <2>2. with \subseteq SUBSET T /\ without \subseteq SUBSET T BY <1>4
  <2> QED BY <2>1, <2>2
<1>6. without \cap with = {} BY <1>4
<1>7. IsFiniteSet(with) /\ Cardinality(with) = 2^n
  <2> DEFINE f == [U \in without |-> U \cup {n + 1}]
  <2>1. f \in Surjection(without, with) BY DEF Surjection
  <2>2. ASSUME NEW U \in without, NEW V \in without, f[U] = f[V] PROVE U = V
    <3>1. U = f[U] \ {n + 1} /\ V = f[V] \ {n + 1} BY <1>4
    <3> QED BY <2>2, <3>1
  <2>3. f \in Injection(without, with) BY <2>1, <2>2 DEF Injection, Surjection, IsInjective
  <2> QED BY <1>2, <2>1, <2>3, FS_Surjection
<1>8. Cardinality(SUBSET T) = Cardinality(without) + Cardinality(with) - Cardinality(without \cap with)
  BY <1>2, <1>5, <1>7, FS_Union
<1>9. 2^n \in Nat BY <1>2, FS_CardinalityType
<1>10. 2^(n + 1) = 2^n + 2^n - 0
  <2> HIDE DEF without, with
  <2> QED BY <1>2, <1>3, <1>6, <1>7, <1>8, FS_EmptySet
<1> QED BY <1>9, <1>10

LEMMA PowerOfZero == 2^0 = 1
<1>1. Cardinality({}) = 0 /\ IsFiniteSet({}) BY FS_EmptySet
<1>2. Cardinality(SUBSET {}) = 2^0 BY <1>1, FS_SUBSET
<1>3. SUBSET {} = {{}} OBVIOUS
<1>4. Cardinality({{}}) = 1 BY FS_Singleton
<1> QED BY <1>2, <1>3, <1>4

LEMMA PowerPositive ==
  ASSUME NEW n \in Nat
  PROVE  2^n \in Nat \ {0}
<1> DEFINE T == {k \in Nat : 2^k \in Nat \ {0}}
<1>1. 0 \in T BY PowerOfZero
<1>2. ASSUME NEW k \in Nat, k \in T PROVE k + 1 \in T
  <2>1. 2^k \in Nat \ {0} /\ 2^(k + 1) = 2 * 2^k BY <1>2, PowerOfTwo
  <2> QED BY <2>1
<1> HIDE DEF T
<1>3. n \in T BY <1>1, <1>2, Induction
<1> QED BY <1>3 DEF T

\* The powers of the field widths.
LEMMA Powers ==
  /\ 2^0 = 1 /\ 2^1 = 2 /\ 2^2 = 4 /\ 2^3 = 8 /\ 2^4 = 16 /\ 2^5 = 32 /\ 2^6 = 64 /\ 2^7 = 128
  /\ 2^8 = 256 /\ 2^9 = 512 /\ 2^10 = 1024 /\ 2^11 = 2048 /\ 2^12 = 4096 /\ 2^13 = 8192
  /\ 2^14 = 16384 /\ 2^15 = 32768 /\ 2^16 = 65536
<1>1. ASSUME NEW n \in Nat, NEW m \in Nat, m = n + 1 PROVE 2^m = 2 * 2^n BY <1>1, PowerOfTwo
<1>2. /\ 2^1 = 2 * 2^0 /\ 2^2 = 2 * 2^1 /\ 2^3 = 2 * 2^2 /\ 2^4 = 2 * 2^3
      /\ 2^5 = 2 * 2^4 /\ 2^6 = 2 * 2^5 /\ 2^7 = 2 * 2^6 /\ 2^8 = 2 * 2^7
  BY <1>1
<1>3. /\ 2^9 = 2 * 2^8 /\ 2^10 = 2 * 2^9 /\ 2^11 = 2 * 2^10 /\ 2^12 = 2 * 2^11
      /\ 2^13 = 2 * 2^12 /\ 2^14 = 2 * 2^13 /\ 2^15 = 2 * 2^14 /\ 2^16 = 2 * 2^15
  BY <1>1
<1> QED BY PowerOfZero, <1>2, <1>3
=============================================================================
