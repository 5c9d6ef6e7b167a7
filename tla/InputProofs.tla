---------------------------- MODULE InputProofs ----------------------------
(***************************************************************************)
(* Proofs about Rtcm3Input: whatever the base puts in the masks of an MSM7 *)
(* message, each range is read back for the satellite it is of.            *)
(***************************************************************************)
EXTENDS Rtcm3Input, FiniteSetTheorems, TLAPS

-----------------------------------------------------------------------------
\* Keys that differ number the elements of a finite set from 1, each once.
LEMMA AscendingEnumerates ==
  ASSUME NEW S, IsFiniteSet(S), NEW key, \A x \in S : key[x] \in Int,
         \A x, y \in S : key[x] = key[y] => x = y
  PROVE  LET A == Ascending(S, key) IN
         /\ DOMAIN A = 1 .. Cardinality(S) /\ Cardinality(S) \in Nat
         /\ \A i \in DOMAIN A : A[i] \in S
         /\ \A x \in S : \E i \in DOMAIN A : A[i] = x
         /\ \A i, j \in DOMAIN A : A[i] = A[j] => i = j
<1> DEFINE n == Cardinality(S)
           B(x) == {y \in S : key[y] < key[x]}
           rank == [x \in S |-> Cardinality(B(x))]
           A == Ascending(S, key)
<1>1. n \in Nat BY FS_CardinalityType
<1>2. ASSUME NEW x \in S PROVE IsFiniteSet(B(x)) /\ Cardinality(B(x)) \in 0 .. n - 1
  <2>1. B(x) \in SUBSET S /\ x \notin B(x) BY <1>2
  <2>2. IsFiniteSet(B(x)) /\ Cardinality(B(x)) <= n /\ (n = Cardinality(B(x)) => S = B(x))
    BY <2>1, FS_Subset
  <2>3. Cardinality(B(x)) \in Nat BY <2>2, FS_CardinalityType
  <2> QED BY <1>1, <2>1, <2>2, <2>3
<1>0. ASSUME NEW x \in S PROVE Cardinality(B(x)) \in Int /\ key[x] \in Int
  <2>1. Cardinality(B(x)) \in 0 .. n - 1 BY <1>2
  <2> HIDE DEF B
  <2> QED BY <1>1, <2>1
<1>3. ASSUME NEW x \in S, NEW y \in S, key[x] < key[y] PROVE Cardinality(B(x)) < Cardinality(B(y))
  <2>1. B(x) \in SUBSET B(y) /\ x \in B(y) /\ x \notin B(x) BY <1>3
  <2>2. /\ Cardinality(B(x)) <= Cardinality(B(y))
        /\ Cardinality(B(y)) = Cardinality(B(x)) => B(y) = B(x)
    BY <1>2, <2>1, FS_Subset
  <2>3. Cardinality(B(x)) \in Int /\ Cardinality(B(y)) \in Int BY <1>0
  <2> QED BY <2>1, <2>2, <2>3
<1>4. rank \in [S -> 0 .. n - 1] BY <1>2
<1>5. ASSUME NEW x \in S, NEW y \in S, rank[x] = rank[y] PROVE x = y
  <2>1. Cardinality(B(x)) = Cardinality(B(y)) BY <1>5
  <2>2. Cardinality(B(x)) \in Int /\ key[x] \in Int /\ key[y] \in Int BY <1>0
  <2>3. ~(key[x] < key[y]) BY <1>3, <2>1, <2>2
  <2>4. ~(key[y] < key[x]) BY <1>3, <2>1, <2>2
  <2> QED BY <2>2, <2>3, <2>4
<1> HIDE DEF rank
<1>6. rank \in Injection(S, 0 .. n - 1) BY <1>4, <1>5 DEF Injection, IsInjective
<1>7. IsFiniteSet(0 .. n - 1) /\ Cardinality(0 .. n - 1) = n
  <2>1. IsFiniteSet(0 .. n - 1) /\ Cardinality(0 .. n - 1) = IF 0 > n - 1 THEN 0 ELSE (n - 1) - 0 + 1
    BY <1>1, FS_Interval
  <2> QED BY <1>1, <2>1
<1>8. rank \in Surjection(S, 0 .. n - 1) BY <1>6, <1>7, FS_Injection
<1>9. \A k \in 0 .. n - 1 : \E x \in S : rank[x] = k BY <1>8 DEF Surjection
<1>10. DOMAIN A = 1 .. n BY DEF Ascending
<1>11. ASSUME NEW i \in 1 .. n PROVE A[i] \in S /\ rank[A[i]] = i - 1
  <2>1. A[i] = CHOOSE x \in S : Cardinality(B(x)) = i - 1 BY DEF Ascending
  <2>2. i - 1 \in 0 .. n - 1 BY <1>1, <1>11
  <2>3. PICK x \in S : rank[x] = i - 1 BY <1>9, <2>2
  <2>4. Cardinality(B(x)) = i - 1 BY <2>3 DEF rank
  <2>5. A[i] \in S /\ Cardinality(B(A[i])) = i - 1 BY <2>1, <2>4
  <2> QED BY <2>5 DEF rank
<1>12. ASSUME NEW x \in S PROVE \E i \in 1 .. n : A[i] = x
  <2>1. rank[x] \in 0 .. n - 1 BY <1>4
  <2>2. rank[x] + 1 \in 1 .. n /\ (rank[x] + 1) - 1 = rank[x] BY <1>1, <2>1
  <2>3. A[rank[x] + 1] \in S /\ rank[A[rank[x] + 1]] = rank[x] BY <1>11, <2>2
  <2>4. A[rank[x] + 1] = x BY <1>5, <2>3
  <2> QED BY <2>2, <2>4
<1>13. ASSUME NEW i \in 1 .. n, NEW j \in 1 .. n, A[i] = A[j] PROVE i = j
  <2>1. i - 1 = j - 1 BY <1>11, <1>13
  <2> QED BY <1>1, <2>1
<1> QED BY <1>1, <1>10, <1>11, <1>12, <1>13

SkyOK == sky \in UNION {[S -> Observation] : S \in SUBSET PRNs}

\* The place of L1 C/A among the signals.
L1ca == CHOOSE s \in DOMAIN Signals : Signals[s] = "1C"

LEMMA L1caFacts ==
  L1ca \in DOMAIN Signals /\ \A i \in DOMAIN Signals : Signals[i] = "1C" <=> i = L1ca
<1>1. PICK s \in DOMAIN Signals : \A i \in DOMAIN Signals : Signals[i] = "1C" <=> i = s
  BY InputAssumption
<1>2. L1ca = s BY <1>1 DEF L1ca
<1> QED BY <1>1, <1>2

LEMMA SkyFacts ==
  ASSUME SkyOK
  PROVE  /\ DOMAIN sky \subseteq PRNs /\ IsFiniteSet(DOMAIN sky)
         /\ \A p \in DOMAIN sky :
              /\ p \in 1 .. 64 /\ Millis(p) \in 0 .. 254
              /\ sky[p].ranged \in BOOLEAN /\ sky[p].rest \in Rests /\ sky[p].rest \in Int
              /\ \A s \in DOMAIN Signals : sky[p].fine[s] \in Fines \cup {None, NoCell}
<1>1. PICK S \in SUBSET PRNs : sky \in [S -> Observation] BY DEF SkyOK
<1>2. DOMAIN sky = S /\ S \subseteq 1 .. 64 BY <1>1, InputAssumption
<1>3. IsFiniteSet(1 .. 64)
  <2>1. 1 \in Int /\ 64 \in Int OBVIOUS
  <2> QED BY Zenon, <2>1, FS_Interval
<1>4. IsFiniteSet(S) BY <1>2, <1>3, FS_Subset
<1>5. DOMAIN Signals = 1 .. Len(Signals) BY InputAssumption
<1>6. ASSUME NEW p \in S
      PROVE  /\ p \in 1 .. 64 /\ Millis(p) \in 0 .. 254
             /\ sky[p].ranged \in BOOLEAN /\ sky[p].rest \in Rests /\ sky[p].rest \in Int
             /\ \A s \in DOMAIN Signals : sky[p].fine[s] \in Fines \cup {None, NoCell}
  <2>1. sky[p] \in Observation BY <1>1
  <2>2. Rests \subseteq Int BY InputAssumption
  <2> QED BY <1>2, <1>5, <2>1, <2>2, InputAssumption DEF Observation
<1> QED BY <1>1, <1>2, <1>4, <1>6

\* Every satellite of the mask has one slot.
LEMMA SlotFacts ==
  ASSUME SkyOK
  PROVE  /\ \A i \in DOMAIN Slots : Slots[i] \in DOMAIN sky
         /\ \A p \in DOMAIN sky : \E i \in DOMAIN Slots : Slots[i] = p
         /\ \A i, j \in DOMAIN Slots : Slots[i] = Slots[j] => i = j
<1> DEFINE S == DOMAIN sky
           key == [p \in S |-> p]
<1>1. IsFiniteSet(S) /\ \A p \in S : key[p] \in Int BY SkyFacts
<1>2. \A x, y \in S : key[x] = key[y] => x = y OBVIOUS
<1>3. Slots = Ascending(S, key) BY DEF Slots
<1> HIDE DEF S, key
<1>4. LET A == Ascending(S, key) IN
      /\ \A i \in DOMAIN A : A[i] \in S
      /\ \A x \in S : \E i \in DOMAIN A : A[i] = x
      /\ \A i, j \in DOMAIN A : A[i] = A[j] => i = j
  BY <1>1, <1>2, AscendingEnumerates
<1> QED BY <1>3, <1>4 DEF S

\* Every signal of the cell mask has one cell.
LEMMA CellFacts ==
  ASSUME SkyOK
  PROVE  LET mask == {c \in (DOMAIN sky) \X (DOMAIN Signals) : sky[c[1]].fine[c[2]] # NoCell} IN
         /\ \A i \in DOMAIN Cells : Cells[i] \in mask
         /\ \A c \in mask : \E i \in DOMAIN Cells : Cells[i] = c
         /\ \A i, j \in DOMAIN Cells : Cells[i] = Cells[j] => i = j
<1> DEFINE all == (DOMAIN sky) \X (DOMAIN Signals)
           mask == {c \in all : sky[c[1]].fine[c[2]] # NoCell}
           key == [c \in mask |-> 32 * c[1] + c[2]]
<1>1. DOMAIN Signals \subseteq 1 .. 32 /\ IsFiniteSet(DOMAIN Signals)
  <2>1. DOMAIN Signals = 1 .. Len(Signals) /\ Len(Signals) \in Nat /\ Len(Signals) <= 32 BY InputAssumption
  <2>2. 1 \in Int /\ Len(Signals) \in Int BY <2>1
  <2>3. IsFiniteSet(1 .. Len(Signals)) BY Zenon, <2>2, FS_Interval
  <2>4. ASSUME NEW n \in Nat, n <= 32 PROVE \A i \in 1 .. n : i \in 1 .. 32 BY <2>4
  <2>5. \A i \in 1 .. Len(Signals) : i \in 1 .. 32 BY <2>1, <2>4
  <2> QED BY <2>1, <2>3, <2>5
<1>2. IsFiniteSet(mask)
  <2>1. IsFiniteSet(all) BY <1>1, SkyFacts, FS_Product
  <2>2. mask \in SUBSET all OBVIOUS
  <2> QED BY <2>1, <2>2, FS_Subset
<1>3. ASSUME NEW c \in mask PROVE c = <<c[1], c[2]>> /\ c[1] \in 1 .. 64 /\ c[2] \in 1 .. 32
  BY <1>1, SkyFacts
<1>4. \A c \in mask : key[c] \in Int BY <1>3
<1>5. ASSUME NEW x \in mask, NEW y \in mask, key[x] = key[y] PROVE x = y
  <2>1. 32 * x[1] + x[2] = 32 * y[1] + y[2] BY <1>5
  <2>2. x[1] \in 1 .. 64 /\ x[2] \in 1 .. 32 /\ y[1] \in 1 .. 64 /\ y[2] \in 1 .. 32 BY <1>3
  <2>3. x[1] = y[1] /\ x[2] = y[2]
    <3> HIDE DEF mask
    <3> DEFINE a == x[1]  b == x[2]  c == y[1]  d == y[2]
    <3>1. a \in 1 .. 64 /\ b \in 1 .. 32 /\ c \in 1 .. 64 /\ d \in 1 .. 32 /\ 32 * a + b = 32 * c + d
      BY <2>1, <2>2
    <3> HIDE DEF a, b, c, d
    <3>2. a = c /\ b = d BY <3>1
    <3> QED BY <3>2 DEF a, b, c, d
  <2> QED BY <1>3, <2>3
<1>6. Cells = Ascending(mask, key) BY DEF Cells
<1> HIDE DEF mask, key
<1>7. LET A == Ascending(mask, key) IN
      /\ \A i \in DOMAIN A : A[i] \in mask
      /\ \A x \in mask : \E i \in DOMAIN A : A[i] = x
      /\ \A i, j \in DOMAIN A : A[i] = A[j] => i = j
  BY <1>2, <1>4, <1>5, AscendingEnumerates
<1> QED BY <1>6, <1>7 DEF mask

\* The rough range of a satellite is that of its own slot.
LEMMA RoughRecovered ==
  ASSUME SkyOK, NEW tow
  PROVE  LET r == Rough(Message(tow)) IN
         /\ DOMAIN r = {p \in DOMAIN sky : sky[p].ranged}
         /\ \A p \in DOMAIN r : r[p] = RestUnits * Millis(p) + sky[p].rest
<1> DEFINE m == Message(tow)
           valid == {i \in DOMAIN m.DF397 : m.DF397[i] < 255}
           slot(p) == CHOOSE i \in valid : m.PRN[i] = p
           r == Rough(m)
<1>1. /\ m.PRN = Slots /\ DOMAIN m.DF397 = DOMAIN Slots
      /\ \A i \in DOMAIN Slots : m.DF397[i] = IF sky[Slots[i]].ranged THEN Millis(Slots[i]) ELSE 255
      /\ \A i \in DOMAIN Slots : m.DF398[i] = sky[Slots[i]].rest
  BY DEF Message
<1>2. r = [p \in {m.PRN[i] : i \in valid} |-> RestUnits * m.DF397[slot(p)] + m.DF398[slot(p)]]
  BY DEF Rough
<1> HIDE DEF m, r
<1>3. \A i \in DOMAIN Slots : i \in valid <=> sky[Slots[i]].ranged
  BY <1>1, SlotFacts, SkyFacts
<1>4. {m.PRN[i] : i \in valid} = {p \in DOMAIN sky : sky[p].ranged}
  <2>1. ASSUME NEW i \in valid PROVE m.PRN[i] \in DOMAIN sky /\ sky[m.PRN[i]].ranged
    BY <1>1, <1>3, SlotFacts
  <2>2. ASSUME NEW p \in DOMAIN sky, sky[p].ranged PROVE \E i \in valid : m.PRN[i] = p
    BY <1>1, <1>3, <2>2, SlotFacts
  <2> HIDE DEF valid
  <2> QED BY <2>1, <2>2
<1>5. ASSUME NEW p \in DOMAIN sky, sky[p].ranged
      PROVE  RestUnits * m.DF397[slot(p)] + m.DF398[slot(p)] = RestUnits * Millis(p) + sky[p].rest
  <2>1. \E i \in valid : m.PRN[i] = p BY <1>1, <1>3, <1>5, SlotFacts
  <2>2. slot(p) \in valid /\ m.PRN[slot(p)] = p
    <3> HIDE DEF valid
    <3> QED BY <2>1
  <2> DEFINE i == slot(p)
  <2> HIDE DEF i
  <2>3. i \in DOMAIN Slots /\ Slots[i] = p BY <1>1, <2>2 DEF i
  <2>4. m.DF397[i] = Millis(p) /\ m.DF398[i] = sky[p].rest BY <1>1, <1>5, <2>3
  <2> QED BY <2>4 DEF i
<1> HIDE DEF valid, slot
<1>6. \A p \in DOMAIN r : r[p] = RestUnits * m.DF397[slot(p)] + m.DF398[slot(p)]
  BY <1>2
<1>7. DOMAIN r = {p \in DOMAIN sky : sky[p].ranged} BY <1>2, <1>4
<1>8. \A p \in DOMAIN r : r[p] = RestUnits * Millis(p) + sky[p].rest BY <1>5, <1>6, <1>7
<1> QED BY <1>7, <1>8 DEF r, m

\* What parse_gps_msm7 returns of a message.
LEMMA ParseRecovers ==
  ASSUME SkyOK, NEW tow
  PROVE  LET o == parse_gps_msm7(Message(tow)) IN
         /\ o.tow = tow
         /\ DOMAIN o.ranges = {p \in DOMAIN sky : sky[p].ranged /\ sky[p].fine[L1ca] \in Fines}
         /\ \A p \in DOMAIN o.ranges :
              o.ranges[p] = RestUnits * Millis(p) + sky[p].rest + sky[p].fine[L1ca]
<1> DEFINE m == Message(tow)
           rough == Rough(m)
           used == {i \in DOMAIN m.DF405 : /\ m.CELLSIG[i] = "1C"
                                           /\ m.DF405[i] # None
                                           /\ m.CELLPRN[i] \in DOMAIN rough}
           cell(p) == CHOOSE i \in used : m.CELLPRN[i] = p
           ranges == [p \in {m.CELLPRN[i] : i \in used} |-> rough[p] + m.DF405[cell(p)]]
           good(p) == sky[p].ranged /\ sky[p].fine[L1ca] \in Fines
<1>1. parse_gps_msm7(m) = [tow |-> m.DF004, ranges |-> ranges] BY DEF parse_gps_msm7
<1>2. /\ m.DF004 = tow /\ DOMAIN m.DF405 = DOMAIN Cells
      /\ \A i \in DOMAIN Cells : /\ m.CELLPRN[i] = Cells[i][1]
                                 /\ m.CELLSIG[i] = Signals[Cells[i][2]]
                                 /\ m.DF405[i] = sky[Cells[i][1]].fine[Cells[i][2]]
  BY DEF Message
<1>3. /\ DOMAIN rough = {p \in DOMAIN sky : sky[p].ranged}
      /\ \A p \in DOMAIN rough : rough[p] = RestUnits * Millis(p) + sky[p].rest
  BY RoughRecovered
<1> HIDE DEF m, rough
<1>4. ASSUME NEW i \in DOMAIN Cells
      PROVE  /\ Cells[i][1] \in DOMAIN sky /\ Cells[i][2] \in DOMAIN Signals
             /\ Cells[i] = <<Cells[i][1], Cells[i][2]>>
             /\ sky[Cells[i][1]].fine[Cells[i][2]] \in Fines \cup {None}
  BY CellFacts, SkyFacts
<1>5. ASSUME NEW i \in used
      PROVE  m.CELLPRN[i] \in DOMAIN sky /\ good(m.CELLPRN[i]) /\ m.DF405[i] = sky[m.CELLPRN[i]].fine[L1ca]
  <2>1. i \in DOMAIN Cells /\ m.CELLSIG[i] = "1C" /\ m.DF405[i] # None /\ m.CELLPRN[i] \in DOMAIN rough
    BY <1>2
  <2>2. Cells[i][2] = L1ca BY <1>2, <1>4, <2>1, L1caFacts
  <2> QED BY <1>2, <1>3, <1>4, <2>1, <2>2
<1>6. ASSUME NEW p \in DOMAIN sky, good(p) PROVE \E i \in used : m.CELLPRN[i] = p
  <2>1. sky[p].fine[L1ca] # NoCell /\ sky[p].fine[L1ca] # None BY <1>6, InputAssumption
  <2>2. PICK i \in DOMAIN Cells : Cells[i] = <<p, L1ca>> BY <2>1, CellFacts, L1caFacts
  <2>3. m.CELLPRN[i] = p /\ m.CELLSIG[i] = Signals[L1ca] /\ m.DF405[i] = sky[p].fine[L1ca]
    BY <1>2, <2>2
  <2>4. i \in used BY <1>2, <1>3, <1>6, <2>1, <2>3, L1caFacts
  <2> QED BY <2>3, <2>4
<1> HIDE DEF used, good
<1>7. {m.CELLPRN[i] : i \in used} = {p \in DOMAIN sky : good(p)} BY <1>5, <1>6
<1>8. ASSUME NEW p \in DOMAIN sky, good(p) PROVE m.DF405[cell(p)] = sky[p].fine[L1ca]
  <2>1. \E i \in used : m.CELLPRN[i] = p BY <1>6, <1>8
  <2>2. cell(p) \in used /\ m.CELLPRN[cell(p)] = p BY <2>1
  <2> QED BY <1>5, <2>2
<1>9. DOMAIN ranges = {p \in DOMAIN sky : good(p)} BY <1>7
<1>10. ASSUME NEW p \in DOMAIN ranges
       PROVE  ranges[p] = RestUnits * Millis(p) + sky[p].rest + sky[p].fine[L1ca]
  <2>1. p \in DOMAIN sky /\ good(p) BY <1>9
  <2>2. ranges[p] = rough[p] + m.DF405[cell(p)] OBVIOUS
  <2>3. rough[p] = RestUnits * Millis(p) + sky[p].rest BY <1>3, <2>1 DEF good
  <2> QED BY <1>8, <2>1, <2>2, <2>3
<1> HIDE DEF ranges
<1> QED BY <1>1, <1>2, <1>9, <1>10 DEF m, good

-----------------------------------------------------------------------------
\* The message is that of the sky.
InputInv ==
  /\ SkyOK
  /\ message = None => result = None
  /\ message # None => \E tow \in Epochs : message = Message(tow)
  /\ ObservationsRecovered

LEMMA InputNext == InputInv /\ [InNext]_inVars => InputInv'
<1> SUFFICES ASSUME InputInv, [InNext]_inVars PROVE InputInv' OBVIOUS
<1>1. SkyOK BY DEF InputInv
<1>2. CASE UNCHANGED inVars
  <2>1. sky' = sky /\ message' = message /\ result' = result BY <1>2 DEF inVars
  <2>2. SkyOK' /\ ObservationsRecovered' BY <2>1 DEF InputInv, SkyOK, ObservationsRecovered
  <2>3. \A tow \in Epochs : Message(tow)' = Message(tow) BY <2>1 DEF Message, Slots, Cells
  <2> QED BY <2>1, <2>2, <2>3 DEF InputInv
<1>3. ASSUME NEW tow \in Epochs, receive(tow) PROVE InputInv'
  <2>1. sky' = sky /\ result' = None /\ message' = Message(tow) BY <1>3 DEF InputInv, receive
  <2>2. SkyOK' BY <1>1, <2>1 DEF SkyOK
  <2>3. Message(tow)' = Message(tow) BY <2>1 DEF Message, Slots, Cells
  <2> QED BY <2>1, <2>2, <2>3 DEF InputInv, ObservationsRecovered
<1>4. CASE on_msm7
  <2>1. message # None /\ result' = parse_gps_msm7(message) /\ sky' = sky /\ message' = message
    BY <1>4 DEF on_msm7
  <2>2. PICK tow \in Epochs : message = Message(tow) BY <2>1 DEF InputInv
  <2>3. SkyOK' BY <1>1, <2>1 DEF SkyOK
  <2>4. Message(tow)' = Message(tow) BY <2>1 DEF Message, Slots, Cells
  <2>5. message.DF004 = tow BY <2>2 DEF Message
  <2>6. ObservationsRecovered'
    <3>1. /\ result'.tow = tow
          /\ DOMAIN result'.ranges = {p \in DOMAIN sky : sky[p].ranged /\ sky[p].fine[L1ca] \in Fines}
          /\ \A p \in DOMAIN result'.ranges :
               result'.ranges[p] = RestUnits * Millis(p) + sky[p].rest + sky[p].fine[L1ca]
      BY <1>1, <2>1, <2>2, ParseRecovers
    <3> QED BY <2>1, <2>5, <3>1 DEF ObservationsRecovered, L1ca
  <2> QED BY <2>1, <2>2, <2>3, <2>4, <2>6 DEF InputInv
<1> QED BY <1>2, <1>3, <1>4 DEF InNext

\* From any message, of whichever satellites, ranges and signals, exactly the
\* satellites with a rough range and a fine L1 C/A one are read, each with its own.
THEOREM Observations == InSpec => []ObservationsRecovered
<1>1. InInit => InputInv BY DEF InInit, InputInv, SkyOK, ObservationsRecovered
<1>2. InputInv => ObservationsRecovered BY DEF InputInv
<1> QED BY <1>1, <1>2, InputNext, PTL DEF InSpec
=============================================================================
