----------------------------- MODULE DgpsProofs -----------------------------
(***************************************************************************)
(* Facts about the pure operators.  The time arithmetic of GpsTime:        *)
(* what it guarantees for every week length and every time.  Median: it    *)
(* exists for every finite set of satellites and every values, and one     *)
(* satellite cannot move it out of the range of the others.                *)
(*                                                                         *)
(* Then the invariants of DgpsGenerator for every set of satellites,       *)
(* ephemerides, stations and observations, every week length and every     *)
(* bound.                                                                  *)
(*                                                                         *)
(* None of the invariants is inductive alone: what a correction in out     *)
(* satisfies is what the gates established when the satellite's ephemeris  *)
(* was read, so SelectedInv carries the gates from the first loop to the   *)
(* second, and OutInv relates the corrections built to the satellites the  *)
(* second loop has still to visit.                                         *)
(***************************************************************************)
EXTENDS DgpsGenerator, NumberProofs

-----------------------------------------------------------------------------
\* Adding whole weeks does not change a time of week.
LEMMA ModShift ==
  ASSUME NEW w \in Nat \ {0}, NEW x \in Int, NEW k \in Int
  PROVE  (x + w * k) % w = x % w
<1>1. PICK d \in Int, m \in 0 .. w - 1 : x = w * d + m
  BY DivMod
<1>2. x % w = m
  BY <1>1, DivModUnique
<1>3. d + k \in Int /\ x + w * k = w * (d + k) + m
  BY <1>1
<1>4. (w * (d + k) + m) % w = m
  BY <1>3, DivModUnique
<1> QED
  BY <1>2, <1>3, <1>4

\* A number of small magnitude is close to a multiple of w.
LEMMA ModSmall ==
  ASSUME NEW w \in Nat \ {0}, NEW x \in Int, NEW m \in Nat, Abs(x) <= m
  PROVE  x % w <= m \/ w - (x % w) <= m
<1>1. PICK d \in Int, r \in 0 .. w - 1 : x = w * d + r /\ x % w = r
  BY DivMod
<1>2. CASE d >= 0
  <2>1. w * d >= 0  BY <1>2
  <2> QED  BY <1>1, <2>1 DEF Abs
<1>3. CASE d < 0
  <2>1. w * d <= -w  BY <1>3
  <2> QED  BY <1>1, <2>1 DEF Abs
<1> QED
  BY <1>2, <1>3

\* _delta_t_week returns t - ref up to one whole week, so it is always
\* congruent to the true difference.
THEOREM DeltaCongruent ==
  ASSUME NEW t \in Int, NEW ref \in Int
  PROVE  \E k \in {-1, 0, 1} : delta_t_week(t, ref) = t - ref + Week * k
BY WeekAssumption DEF delta_t_week, HalfWeek

\* One correction is enough for any two times within a week and a half: for a
\* time of week and a reference in 0 .. Week, even after the signal's travel
\* time has been subtracted at the start of the week, the result is the
\* difference of least magnitude.
THEOREM DeltaWithinHalfWeek ==
  ASSUME NEW t \in Int, NEW ref \in Int,
         t - ref \in -(Week + HalfWeek) .. Week + HalfWeek
  PROVE  delta_t_week(t, ref) \in -HalfWeek .. HalfWeek
BY WeekAssumption DEF delta_t_week, HalfWeek

-----------------------------------------------------------------------------
\* service.py: the modified Z-count has "valid range 0..5999", also at the
\* top of the hour and at an exact half, and names a time at most half a unit
\* away from the epoch, measured around the hour.
THEOREM ZCountNearest ==
  ASSUME NEW ms \in Nat
  PROVE  /\ modified_zcount(ms) # {}
         /\ \A z \in modified_zcount(ms) :
              z \in 0 .. ZCount - 1 /\ 2 * HourDistance(ZUnit * z, ms) <= ZUnit
<1> DEFINE q == (ms % Hour) \div ZUnit
           r == ms % ZUnit
           rounded == (IF 2 * r <= 600 THEN {q} ELSE {})
                      \cup (IF 2 * r >= 600 THEN {q + 1} ELSE {})
           Good(z) == z \in 0 .. 5999 /\ 2 * HourDistance(600 * z, ms) <= 600
<1>1. q \in 0 .. 5999 /\ r \in 0 .. 599 /\ ms % 3600000 = 600 * q + r
  BY SMT DEF Hour, ZUnit, ZCount
<1>2. modified_zcount(ms) = {y % 6000 : y \in rounded}
  BY SMT DEF modified_zcount, ZUnit, ZCount
<1> HIDE DEF q, r
<1>3. rounded # {} /\ \A y \in rounded : /\ y \in {q, q + 1}
                                         /\ y = q => 2 * r <= 600
                                         /\ y = q + 1 => 2 * r >= 600
  <2>1. q # q + 1 /\ (2 * r <= 600 \/ 2 * r >= 600)
    BY SMT, <1>1
  <2> QED
    BY SMT, <2>1
<1> HIDE DEF rounded, Good
<1>4. ASSUME NEW y \in {q, q + 1}, y = q => 2 * r <= 600, y = q + 1 => 2 * r >= 600,
             NEW v, v = y % 6000
      PROVE  Good(v)
  <2>1. v = IF y = 6000 THEN 0 ELSE y
    BY SMTT(30), <1>1, <1>4
  <2>2. PICK n \in Int : ms = 3600000 * n + 600 * q + r
    BY SMT, <1>1
  <2> DEFINE dist == (600 * v - ms) % 3600000
  <2>3. dist = (600 * (y - q) - r) % 3600000
    BY SMT, <1>1, <1>4, <2>1, <2>2
  <2>4. (600 * (y - q) - r) % 3600000 = IF y = q /\ r > 0 THEN 3600000 - r ELSE 600 * (y - q) - r
    BY SMT, <1>1, <1>4
  <2>5. v \in 0 .. 5999
    BY SMT, <1>1, <1>4, <2>1
  <2>6. HourDistance(600 * v, ms) = IF 2 * dist <= 3600000 THEN dist ELSE 3600000 - dist
    BY SMT DEF HourDistance, Hour, ZUnit, ZCount
  <2> HIDE DEF dist
  <2>7. dist = IF y = q /\ r > 0 THEN 3600000 - r ELSE 600 * (y - q) - r
    BY <2>3, <2>4
  <2>8. 2 * (IF 2 * dist <= 3600000 THEN dist ELSE 3600000 - dist) <= 600
    BY SMT, <1>1, <1>4, <2>7
  <2> QED
    BY SMT, <2>5, <2>6, <2>8 DEF Good
<1>5. ASSUME NEW z \in modified_zcount(ms) PROVE Good(z)
  <2>1. PICK y \in rounded : z = y % 6000
    BY <1>2
  <2> QED
    BY <1>3, <1>4, <2>1
<1>6. modified_zcount(ms) # {}
  <2>1. PICK y \in rounded : TRUE
    BY <1>3
  <2> QED
    BY <1>2, <2>1
<1> QED
  BY SMT, <1>5, <1>6 DEF Good, ZUnit, ZCount

-----------------------------------------------------------------------------
\* How many elements of S have a value of at most v.
AtMost(f, S, v) == {p \in S : f[p] <= v}
Below(f, S, v) == {p \in S : f[p] < v}

\* Among the values on a finite set there is a greatest: the one that most
\* values do not exceed.
LEMMA GreatestValue ==
  ASSUME NEW S, IsFiniteSet(S), S # {}, NEW f, \A p \in S : f[p] \in Int
  PROVE  \E m \in S : \A p \in S : f[p] <= f[m]
<1> DEFINE c(p) == Cardinality(AtMost(f, S, f[p]))
           above(p) == Cardinality(S) - c(p)
           T == {above(p) : p \in S}
<1>1. \A p \in S : c(p) \in Nat /\ c(p) <= Cardinality(S)
  BY FS_Subset, FS_CardinalityType DEF AtMost
<1>2. Cardinality(S) \in Nat
  BY FS_CardinalityType
<1>3. T \in SUBSET Nat /\ T # {}
  BY <1>1, <1>2
<1>4. PICK m \in S : \A p \in S : above(m) <= above(p)
  <2> HIDE DEF T
  <2>1. PICK x \in T : \A y \in T : x <= y
    BY <1>3, LeastNatural
  <2> QED
    BY <2>1 DEF T
<1>5. ASSUME NEW p \in S, f[p] > f[m] PROVE FALSE
  <2>1. AtMost(f, S, f[m]) \in SUBSET AtMost(f, S, f[p]) /\ p \in AtMost(f, S, f[p]) \ AtMost(f, S, f[m])
    BY <1>5 DEF AtMost
  <2>2. IsFiniteSet(AtMost(f, S, f[p]))
    BY FS_Subset DEF AtMost
  <2>3. c(m) < c(p)
    BY <1>1, <2>1, <2>2, FS_Subset
  <2> QED
    BY <1>1, <1>2, <1>4, <2>3
<1> QED
  BY <1>5

\* The k-th smallest value exists, so Kth is one of the values and splits
\* them as it should.
THEOREM KthExists ==
  ASSUME NEW S, IsFiniteSet(S), NEW f, \A p \in S : f[p] \in Int,
         NEW k \in 1 .. Cardinality(S)
  PROVE  \E p \in S :
           /\ Kth(f, S, k) = f[p]
           /\ Cardinality(Below(f, S, f[p])) < k
           /\ Cardinality(AtMost(f, S, f[p])) >= k
<1> DEFINE c(p) == Cardinality(AtMost(f, S, f[p]))
           T == {c(p) : p \in {q \in S : c(q) >= k}}
<1>0. Cardinality(S) \in Nat /\ S # {}
  BY FS_CardinalityType, FS_EmptySet
<1>1. \A p \in S : c(p) \in Nat
  BY FS_Subset, FS_CardinalityType DEF AtMost
<1>2. T \in SUBSET Nat /\ T # {}
  <2>1. PICK m \in S : \A p \in S : f[p] <= f[m]
    BY <1>0, GreatestValue
  <2>2. AtMost(f, S, f[m]) = S
    BY <2>1 DEF AtMost
  <2> QED
    BY <1>0, <1>1, <2>2
<1>3. PICK v \in S : c(v) >= k /\ \A p \in S : c(p) >= k => c(v) <= c(p)
  <2> HIDE DEF T
  <2>1. PICK x \in T : \A y \in T : x <= y
    BY <1>2, LeastNatural
  <2> QED
    BY <2>1 DEF T
<1>4. Cardinality(Below(f, S, f[v])) < k
  <2> DEFINE B == Below(f, S, f[v])
  <2>1. IsFiniteSet(B) /\ B \in SUBSET S
    BY FS_Subset DEF Below
  <2>2. CASE B = {}
    BY <2>2, FS_EmptySet
  <2>3. CASE B # {}
    <3>1. \A p \in B : f[p] \in Int
      BY <2>1
    <3>2. PICK w \in B : \A p \in B : f[p] <= f[w]
      <4> HIDE DEF B
      <4> QED
        BY <2>1, <2>3, <3>1, GreatestValue
    <3>3. w \in S /\ f[w] < f[v] /\ f[w] \in Int /\ f[v] \in Int
      BY <3>2 DEF Below
    <3>4. AtMost(f, S, f[w]) = B
      BY <3>2, <3>3 DEF AtMost, Below
    <3>5. B \in SUBSET AtMost(f, S, f[v]) /\ v \in AtMost(f, S, f[v]) \ B
      BY <3>3 DEF AtMost, Below
    <3>6. IsFiniteSet(AtMost(f, S, f[v]))
      BY FS_Subset DEF AtMost
    <3>7. c(w) < c(v)
      <4>1. Cardinality(B) <= c(v) /\ Cardinality(B) # c(v)
        BY <3>5, <3>6, FS_Subset
      <4> QED
        BY <1>1, <3>3, <3>4, <4>1
    <3>8. ~ (c(w) >= k)
      BY <1>1, <1>3, <3>3, <3>7
    <3> QED
      BY <1>1, <3>3, <3>4, <3>8
  <2> QED
    BY <2>2, <2>3
<1> DEFINE Splits(x) == /\ Cardinality({p \in S : f[p] < x}) < k
                        /\ Cardinality({p \in S : f[p] <= x}) >= k
<1>5. f[v] \in {f[p] : p \in S} /\ Splits(f[v])
  BY <1>3, <1>4 DEF AtMost, Below
<1>6. Kth(f, S, k) = CHOOSE x \in {f[p] : p \in S} : Splits(x)
  BY DEF Kth
<1>7. Kth(f, S, k) \in {f[p] : p \in S} /\ Splits(Kth(f, S, k))
  <2> HIDE DEF Splits
  <2> QED
    BY <1>5, <1>6
<1> QED
  BY <1>7 DEF AtMost, Below

LEMMA MedianIsInteger ==
  ASSUME NEW S, IsFiniteSet(S), S # {}, NEW f, \A p \in S : f[p] \in Int
  PROVE  Median2(f, S) \in Int
<1>1. Cardinality(S) \in Nat \ {0}
  BY FS_CardinalityType, FS_EmptySet
<1>2. /\ (Cardinality(S) + 1) \div 2 \in 1 .. Cardinality(S)
      /\ (Cardinality(S) \div 2) + 1 \in 1 .. Cardinality(S)
  BY <1>1
<1>3. \A k \in 1 .. Cardinality(S) : Kth(f, S, k) \in Int
  BY KthExists
<1> QED
  BY <1>2, <1>3 DEF Median2

\* A value that is neither the smallest nor the greatest is flanked by values
\* of others than any one satellite.
LEMMA KthFlanked ==
  ASSUME NEW S, IsFiniteSet(S), NEW f, \A p \in S : f[p] \in Int,
         NEW bad \in S, NEW k \in 2 .. Cardinality(S) - 1
  PROVE  \E g, h \in S \ {bad} : f[g] <= Kth(f, S, k) /\ Kth(f, S, k) <= f[h]
<1>0. Cardinality(S) \in Nat /\ k \in 1 .. Cardinality(S)
  BY FS_CardinalityType
<1>1. PICK v \in S : /\ Kth(f, S, k) = f[v]
                     /\ Cardinality(Below(f, S, f[v])) < k
                     /\ Cardinality(AtMost(f, S, f[v])) >= k
  BY <1>0, KthExists
<1>2. PICK g \in AtMost(f, S, f[v]) : g # bad
  <2>1. IsFiniteSet(AtMost(f, S, f[v])) /\ Cardinality(AtMost(f, S, f[v])) \in Nat
    BY FS_Subset, FS_CardinalityType DEF AtMost
  <2>2. Cardinality(AtMost(f, S, f[v])) >= 2
    BY <1>0, <1>1, <2>1
  <2>3. IsFiniteSet({bad}) /\ Cardinality({bad}) = 1
    BY FS_Singleton
  <2>4. ~ (AtMost(f, S, f[v]) \in SUBSET {bad})
    BY <2>1, <2>2, <2>3, FS_Subset
  <2> QED
    BY <2>4
<1>3. PICK h \in S \ Below(f, S, f[v]) : h # bad
  <2> DEFINE B == Below(f, S, f[v])
  <2>1. B \in SUBSET S /\ IsFiniteSet(B) /\ Cardinality(B) \in Nat
    BY FS_Subset, FS_CardinalityType DEF Below
  <2>2. IsFiniteSet(B \cup {bad}) /\ Cardinality(B \cup {bad}) <= Cardinality(B) + 1
    <3> HIDE DEF B
    <3>1. /\ IsFiniteSet(B \cup {bad})
          /\ Cardinality(B \cup {bad}) = IF bad \in B THEN Cardinality(B) ELSE Cardinality(B) + 1
      BY <2>1, FS_AddElement
    <3> QED
      BY <2>1, <3>1
  <2>3. Cardinality(B) + 1 < Cardinality(S)
    BY <1>0, <1>1, <2>1
  <2>4. Cardinality(B \cup {bad}) \in Nat
    BY <2>2, FS_CardinalityType
  <2>5. B \cup {bad} # S
    BY <1>0, <2>1, <2>2, <2>3, <2>4
  <2> QED
    BY <2>1, <2>5
<1>4. f[g] <= f[v] /\ f[v] <= f[h] /\ g \in S \ {bad} /\ h \in S \ {bad}
  BY <1>2, <1>3 DEF AtMost, Below
<1> QED
  BY <1>1, <1>4

\* dgps.py takes the median since one grossly wrong satellite cannot move it
\* far: if all others agree to within r, each of them is within r of the
\* median, whatever the odd one reports.
THEOREM MedianRobust ==
  ASSUME NEW S, IsFiniteSet(S), Cardinality(S) >= 3, NEW f, \A p \in S : f[p] \in Int,
         NEW bad \in S, NEW r \in Nat,
         \A p, q \in S \ {bad} : f[p] - f[q] <= r
  PROVE  \A p \in S \ {bad} : 2 * f[p] - Median2(f, S) \in -(2 * r) .. 2 * r
<1> DEFINE n == Cardinality(S)
<1>1. n \in Nat /\ n >= 3
  BY FS_CardinalityType
<1>2. /\ (n + 1) \div 2 \in 2 .. n - 1
      /\ (n \div 2) + 1 \in 2 .. n - 1
  BY <1>1
<1>3. ASSUME NEW p \in S \ {bad}, NEW k \in 2 .. n - 1
      PROVE  Kth(f, S, k) \in Int /\ f[p] - Kth(f, S, k) \in -r .. r
  <2>1. PICK g, h \in S \ {bad} : f[g] <= Kth(f, S, k) /\ Kth(f, S, k) <= f[h]
    BY KthFlanked
  <2>2. Kth(f, S, k) \in Int
    <3>1. k \in 1 .. n  BY <1>1
    <3> QED  BY <3>1, KthExists
  <2>3. f[p] - f[g] <= r /\ f[h] - f[p] <= r /\ f[p] \in Int /\ f[g] \in Int /\ f[h] \in Int
    OBVIOUS
  <2> QED
    BY <2>1, <2>2, <2>3
<1>4. ASSUME NEW p \in S \ {bad}
      PROVE  2 * f[p] - Median2(f, S) \in -(2 * r) .. 2 * r
  <2> DEFINE a == Kth(f, S, (n + 1) \div 2)
             b == Kth(f, S, (n \div 2) + 1)
  <2>1. Median2(f, S) = a + b
    BY DEF Median2
  <2>2. a \in Int /\ b \in Int /\ f[p] - a \in -r .. r /\ f[p] - b \in -r .. r /\ f[p] \in Int
    BY <1>2, <1>3
  <2> HIDE DEF a, b
  <2> QED
    BY <2>1, <2>2
<1> QED
  BY <1>4

-----------------------------------------------------------------------------
\* Where a call stands: what todo and the arguments are at each pc.
CallInv ==
  /\ pc \in {"read", "emit"} => base # None
  /\ pc = "emit" => todo \in SUBSET Selected
  /\ pc = "returned" => todo = {} \/ Selected = {}
  /\ pc = "idle" => Selected = {}
  /\ pc # "idle" => tow = epoch % Week
  /\ pc \in {"idle", "read"} => out = <<>>
  /\ out # <<>> => base # None

\* What holds of a satellite that passed the gates, from then on.
Gated(p) ==
  /\ p \in DOMAIN prs /\ prs[p] > 0
  /\ used[p].health = 0
  /\ Abs(delta_t_week(tow - prs[p], used[p].toe)) <= max_iod_age_s
  /\ ephemerides[p] # None
  /\ pc \in {"read", "emit"} /\ ephemerides[p] # used[p] => p \in touched

SelectedInv == \A p \in Selected : Gated(p)

\* What the second loop has built, and left out.
OutInv ==
  /\ \A i \in DOMAIN out :
       /\ out[i].prn \in Selected
       /\ Abs(out[i].prc) <= 2 * max_residual_m
       /\ out[i].iod # used[out[i].prn].iode => out[i].prn \in touched
       /\ pc = "emit" => \A p \in todo : out[i].prn < p
       /\ \A j \in DOMAIN out : i < j => out[i].prn < out[j].prn
  /\ pc \in {"emit", "returned"} => \A p \in Selected \ todo :
       \/ \E i \in DOMAIN out : out[i].prn = p
       \/ Abs(2 * raw[p] - offset) > 2 * max_residual_m

DgpsInd == DgpsTypeOK /\ CallInv /\ SelectedInv /\ OutInv

-----------------------------------------------------------------------------
LEMMA QuotientIsInteger ==
  ASSUME NEW dv \in Int, NEW dt \in Int, dt # 0
  PROVE  Quotient(dv, dt) \in Int
<1>1. RateScale \in Nat \ {0} /\ dv * RateScale \in Int /\ -dv * RateScale \in Int
  BY DgpsAssumption
<1>2. CASE dt > 0
  BY <1>1, <1>2, DivMod DEF Quotient
<1>3. CASE dt < 0
  <2>1. -dt \in Nat \ {0}  BY <1>3
  <2> QED  BY <1>1, <1>3, <2>1, DivMod DEF Quotient
<1> QED
  BY <1>2, <1>3

LEMMA InitInd == DgpsInit => DgpsInd
<1> SUFFICES ASSUME DgpsInit PROVE DgpsInd
  OBVIOUS
<1> USE WeekAssumption, DgpsAssumption DEF DgpsInit
<1>1. DgpsTypeOK
  BY DEF DgpsTypeOK
<1>2. Selected = {}
  BY DEF Selected
<1>3. CallInv /\ SelectedInv /\ OutInv
  BY <1>2 DEF CallInv, SelectedInv, OutInv
<1> QED
  BY <1>1, <1>3 DEF DgpsInd

LEMMA set_stationInd ==
  ASSUME DgpsInd, NEW ecef \in Stations, set_station(ecef)
  PROVE  DgpsInd'
<1> USE DEF DgpsInd, set_station, local, ghost
<1>1. DgpsTypeOK'
  BY DEF DgpsTypeOK
<1>2. Selected' = Selected
  BY DEF Selected
<1>3. CallInv'
  BY <1>2 DEF CallInv
<1>4. SelectedInv'
  BY <1>2 DEF SelectedInv, CallInv
<1>5. OutInv'
  BY <1>2 DEF OutInv, CallInv
<1> QED
  BY <1>1, <1>3, <1>4, <1>5

LEMMA add_ephemerisInd ==
  ASSUME DgpsInd, NEW eph \in Ephemerides, add_ephemeris(eph)
  PROVE  DgpsInd'
<1> USE DEF DgpsInd, add_ephemeris, local, ghost
<1>1. eph \in Ephemeris /\ eph.prn \in Prns /\ eph # None
  BY DgpsAssumption DEF Ephemeris
<1>2. DgpsTypeOK'
  BY <1>1 DEF DgpsTypeOK
<1>3. Selected' = Selected
  BY DEF Selected
<1>4. CallInv'
  BY <1>3 DEF CallInv
<1>5. SelectedInv'
  <2>1. ASSUME NEW p \in Selected PROVE Gated(p)'
    BY <1>1 DEF SelectedInv, Gated, DgpsTypeOK
  <2> QED
    BY <1>3, <2>1 DEF SelectedInv
<1>6. OutInv'
  BY <1>3 DEF OutInv, offset
<1> QED
  BY <1>2, <1>4, <1>5, <1>6

LEMMA correctionsInd ==
  ASSUME DgpsInd, NEW t \in Nat, NEW obs \in Observations, corrections(t, obs)
  PROVE  DgpsInd'
<1> USE DEF DgpsInd, corrections, gen
<1>1. t % Week \in 0 .. Week - 1
  BY WeekAssumption, DivMod
<1>2. DOMAIN obs \in SUBSET Prns
  BY DgpsAssumption
<1>3. DgpsTypeOK'
  BY <1>1, <1>2 DEF DgpsTypeOK
<1>4. Selected' = {}
  BY DEF Selected, CallInv
<1>5. CallInv'
  BY <1>4 DEF CallInv
<1>6. SelectedInv' /\ OutInv'
  BY <1>4 DEF SelectedInv, OutInv, CallInv
<1> QED
  BY <1>3, <1>5, <1>6

LEMMA read_ephemerisInd ==
  ASSUME DgpsInd, NEW prn \in Prns, read_ephemeris(prn)
  PROVE  DgpsInd'
<1> DEFINE eph == ephemerides[prn]
           ok  == Usable(eph, prs[prn])
<1> USE DEF DgpsInd, read_ephemeris, gen, ghost
<1>1. prn \in DOMAIN prs /\ prs \in Observations /\ prs[prn] \in Int
  BY DgpsAssumption DEF DgpsTypeOK, Visits
<1>2. ok => eph \in Ephemerides
  BY DEF Usable, DgpsTypeOK
<1>3. ok => RawCorrection(eph, base, tow, prs[prn]) \in Int
  <2>1. ok => RawCorrection(eph, base, tow, prs[prn]) \in Int \cup {None}
    BY <1>1, <1>2, DgpsAssumption DEF DgpsTypeOK, CallInv
  <2>2. ok => RawCorrection(eph, base, tow, prs[prn]) # None
    BY DEF Raises
  <2> QED
    BY <2>1, <2>2
<1>4. DgpsTypeOK'
  BY <1>2, <1>3 DEF DgpsTypeOK
<1>5. Selected' = IF ok THEN Selected \cup {prn} ELSE Selected
  BY DEF Selected, Usable, DgpsTypeOK
<1>6. CallInv'
  BY DEF CallInv
<1>7. SelectedInv'
  <2>1. CASE ~ ok
    BY <1>5, <2>1 DEF SelectedInv, Gated
  <2>2. CASE ok
    <3>1. ASSUME NEW p \in Selected' PROVE Gated(p)'
      <4>1. CASE p = prn
        BY <1>1, <2>2, <4>1 DEF Gated, Usable, DgpsTypeOK
      <4>2. CASE p # prn
        BY <1>5, <2>2, <4>2 DEF SelectedInv, Gated, DgpsTypeOK
      <4> QED  BY <4>1, <4>2
    <3> QED  BY <3>1 DEF SelectedInv
  <2> QED  BY <2>1, <2>2
<1>8. OutInv'
  BY DEF OutInv, CallInv
<1> QED
  BY <1>4, <1>6, <1>7, <1>8

LEMMA common_termsInd ==
  ASSUME DgpsInd, common_terms
  PROVE  DgpsInd'
<1> USE DEF DgpsInd, common_terms, gen, ghost
<1>1. ASSUME NEW p \in Prns, prev[p] # None, tow # prev[p].tow
      PROVE  Quotient(raw[p] - prev[p].raw, tow - prev[p].tow) \in Int
  <2>1. prev[p] \in [tow : Int, raw : Int] /\ raw[p] \in Int /\ tow \in Int
    BY <1>1 DEF DgpsTypeOK
  <2> HIDE DEF DgpsInd, common_terms
  <2>2. prev[p].raw \in Int /\ prev[p].tow \in Int
    BY <2>1
  <2>3. tow - prev[p].tow # 0
    BY <1>1, <2>1, <2>2
  <2> QED
    BY <2>1, <2>2, <2>3, QuotientIsInteger
<1>2. DgpsTypeOK'
  BY <1>1 DEF DgpsTypeOK, Selected
<1>3. Selected' = Selected
  BY DEF Selected
<1>4. CallInv'
  BY <1>3 DEF CallInv
<1>5. SelectedInv'
  BY <1>3 DEF SelectedInv, Gated
<1>6. OutInv'
  BY <1>3 DEF OutInv, CallInv
<1> QED
  BY <1>2, <1>4, <1>5, <1>6

LEMMA leave_correctionsInd ==
  ASSUME DgpsInd, leave_corrections
  PROVE  DgpsInd'
<1> USE DEF DgpsInd, leave_corrections, gen
<1>1. DgpsTypeOK'
  BY WeekAssumption DEF DgpsTypeOK
<1>2. Selected' = {}
  BY DEF Selected
<1>3. CallInv' /\ SelectedInv' /\ OutInv'
  BY <1>2 DEF CallInv, SelectedInv, OutInv
<1> QED
  BY <1>1, <1>3

-----------------------------------------------------------------------------
\* The corrections and the offset are integers, so the median of the epoch
\* is well defined.
LEMMA CorrectionTyped ==
  ASSUME DgpsInd, pc = "emit", NEW prn \in todo
  PROVE  /\ 2 * raw[prn] - offset \in Int
         /\ NewCorrection(prn, 2 * raw[prn] - offset, IodRead(prn)) \in Correction
<1> USE DEF DgpsInd
<1>1. prn \in Prns /\ prn \in Selected
  BY DEF CallInv, DgpsTypeOK
<1>2. IsFiniteSet(Selected) /\ Selected # {} /\ \A p \in Selected : raw[p] \in Int
  BY <1>1, FS_Subset, DgpsAssumption DEF Selected, DgpsTypeOK
<1>3. offset \in Int
  BY <1>2, MedianIsInteger DEF offset
<1>4. 2 * raw[prn] - offset \in Int
  BY <1>1, <1>3 DEF DgpsTypeOK
<1>5. IsFiniteSet(Rated) /\ \A p \in Rated : rate[p] \in Int
  BY FS_Subset, DgpsAssumption DEF Rated, DgpsTypeOK
<1>6. prn \in Rated => 2 * rate[prn] - rate_offset \in Int
  <2>1. prn \in Rated => rate_offset \in Int
    BY <1>5, MedianIsInteger DEF rate_offset
  <2> QED  BY <1>5, <2>1
<1>7. IodRead(prn) \in 0 .. 255
  <2>1. ephemerides[prn] \in Ephemeris
    BY <1>1, DgpsAssumption DEF SelectedInv, Gated, DgpsTypeOK
  <2> QED  BY <2>1 DEF IodRead, Ephemeris
<1>8. \A prc \in Int : udre_index(prc) \in 0 .. 3
  BY DEF udre_index
<1> QED
  BY <1>1, <1>4, <1>6, <1>7, <1>8 DEF NewCorrection, Correction

LEMMA emit_correctionInd ==
  ASSUME DgpsInd, NEW prn \in Prns, emit_correction(prn)
  PROVE  DgpsInd'
<1> DEFINE prc == 2 * raw[prn] - offset
           new == NewCorrection(prn, prc, IodRead(prn))
<1> USE DEF DgpsInd
<1>1. /\ pc = "emit" /\ prn \in todo /\ todo' = todo \ {prn}
      /\ pc' = IF todo' = {} THEN "returned" ELSE "emit"
      /\ prev' = [prev EXCEPT ![prn] = [tow |-> tow, raw |-> raw[prn]]]
      /\ \A p \in todo : prn <= p
      /\ UNCHANGED <<base, ephemerides, tow, prs, used, raw, rate, epoch, touched>>
  BY DEF emit_correction, Visits
<1>2. \/ /\ Abs(prc) > 2 * max_residual_m
         /\ out' = out
      \/ /\ Abs(prc) <= 2 * max_residual_m
         /\ out' = Append(out, new)
  <2>1. prc \in Int
    BY <1>1, CorrectionTyped
  <2>2. Abs(prc) \in Int /\ 2 * max_residual_m \in Int
    BY <2>1, DgpsAssumption DEF Abs
  <2> HIDE DEF prc
  <2>3. Abs(prc) > 2 * max_residual_m \/ Abs(prc) <= 2 * max_residual_m
    BY <2>2
  <2>4. ~ (Abs(prc) > 2 * max_residual_m /\ Abs(prc) <= 2 * max_residual_m)
    BY <2>2
  <2> USE DEF prc
  <2> QED
    BY <2>3, <2>4 DEF emit_correction
<1>3. new \in Correction /\ new.prn = prn /\ new.prc = prc /\ new.iod = ephemerides[prn].iode
  BY <1>1, CorrectionTyped DEF NewCorrection, IodRead
<1>4. Selected' = Selected /\ prn \in Selected /\ Selected \in SUBSET Prns
  BY <1>1 DEF Selected, CallInv
<1>5. out \in Seq(Correction) /\ todo \in SUBSET Prns
  BY DEF DgpsTypeOK
<1> HIDE DEF prc, new
<1>6. DgpsTypeOK'
  <2>1. out' \in Seq(Correction)
    BY <1>2, <1>3, <1>5
  <2>2. prev' \in [Prns -> [tow : Int, raw : Int] \cup {None}]
    <3>1. tow \in Int /\ raw[prn] \in Int
      BY DEF DgpsTypeOK
    <3> QED  BY <1>1, <3>1 DEF DgpsTypeOK
  <2> QED
    BY <1>1, <1>2, <2>1, <2>2 DEF DgpsTypeOK
<1>7. CallInv'
  BY <1>1, <1>4 DEF CallInv
<1>8. SelectedInv'
  BY <1>1, <1>4 DEF SelectedInv, Gated
<1>9. ASSUME NEW i \in DOMAIN out'
      PROVE  /\ out'[i].prn \in Selected
             /\ Abs(out'[i].prc) <= 2 * max_residual_m
             /\ out'[i].iod # used[out'[i].prn].iode => out'[i].prn \in touched
             /\ \A p \in todo' : out'[i].prn < p
             /\ \A j \in DOMAIN out' : i < j => out'[i].prn < out'[j].prn
  <2>1. CASE out' = out
    BY <1>1, <1>9, <2>1 DEF OutInv
  <2>2. CASE out' = Append(out, new) /\ Abs(prc) <= 2 * max_residual_m
    <3>1. DOMAIN out' = 1 .. Len(out) + 1 /\ DOMAIN out = 1 .. Len(out) /\ Len(out) \in Nat
      BY <1>5, <2>2
    <3>2. out'[Len(out) + 1] = new /\ \A k \in DOMAIN out : out'[k] = out[k]
      BY <1>5, <2>2, <3>1
    <3>3. \A p \in todo' : prn < p
      BY <1>1, <1>5, DgpsAssumption
    <3>4. CASE i = Len(out) + 1
      BY <1>1, <1>3, <1>4, <2>2, <3>1, <3>2, <3>3, <3>4 DEF SelectedInv, Gated
    <3>5. CASE i \in DOMAIN out
      BY SMTT(30), <1>1, <1>3, <1>4, <3>1, <3>2, <3>5 DEF OutInv
    <3> QED
      BY <3>1, <3>4, <3>5
  <2> QED
    BY <1>2, <2>1, <2>2
<1>10. ASSUME NEW p \in Selected \ todo'
       PROVE  \/ \E i \in DOMAIN out' : out'[i].prn = p
              \/ Abs(2 * raw[p] - offset) > 2 * max_residual_m
  <2>1. CASE p = prn
    BY <1>2, <1>3, <1>5, <2>1 DEF prc
  <2>2. CASE p # prn
    <3>1. \/ \E i \in DOMAIN out : out[i].prn = p
          \/ Abs(2 * raw[p] - offset) > 2 * max_residual_m
      BY <1>1, <2>2 DEF OutInv
    <3>2. \A i \in DOMAIN out : i \in DOMAIN out' /\ out'[i] = out[i]
      BY <1>2, <1>5
    <3> QED
      BY <3>1, <3>2
  <2> QED
    BY <2>1, <2>2
<1>11. OutInv'
  BY <1>1, <1>4, <1>9, <1>10 DEF OutInv, offset
<1> QED
  BY <1>6, <1>7, <1>8, <1>11

-----------------------------------------------------------------------------
LEMMA StutterInd == DgpsInd /\ UNCHANGED dgpsVars => DgpsInd'
<1> SUFFICES ASSUME DgpsInd, UNCHANGED dgpsVars PROVE DgpsInd'
  OBVIOUS
<1> USE DEF DgpsInd, dgpsVars, gen, local, ghost
<1>1. DgpsTypeOK'
  BY DEF DgpsTypeOK
<1>2. CallInv' /\ SelectedInv'
  BY DEF CallInv, SelectedInv, Gated, Selected
<1>3. OutInv'
  BY DEF OutInv, Selected, offset
<1> QED
  BY <1>1, <1>2, <1>3

LEMMA ComputingInd ==
  ASSUME DgpsInd, Computing
  PROVE  DgpsInd'
BY read_ephemerisInd, common_termsInd, emit_correctionInd DEF Computing

LEMMA StepInd == DgpsInd /\ [DgpsNext]_dgpsVars => DgpsInd'
<1> SUFFICES ASSUME DgpsInd, [DgpsNext]_dgpsVars PROVE DgpsInd'
  OBVIOUS
<1>1. ASSUME NEW b \in Stations, set_station(b) PROVE DgpsInd'
  BY <1>1, set_stationInd
<1>2. ASSUME NEW e \in Ephemerides, add_ephemeris(e) PROVE DgpsInd'
  BY <1>2, add_ephemerisInd
<1>3. ASSUME NEW d \in EpochSteps, NEW o \in Observations, corrections(epoch + d, o)
      PROVE  DgpsInd'
  <2>1. epoch + d \in Nat
    BY DgpsAssumption DEF DgpsInd, DgpsTypeOK
  <2> QED
    BY <1>3, <2>1, correctionsInd
<1>4. ASSUME NEW p \in Prns, raw_correction_raises(p) PROVE DgpsInd'
  BY <1>4, leave_correctionsInd DEF raw_correction_raises
<1>5. ASSUME return PROVE DgpsInd'
  BY <1>5, leave_correctionsInd DEF return
<1> QED
  BY <1>1, <1>2, <1>3, <1>4, <1>5, ComputingInd, StutterInd DEF DgpsNext

\* The inductive invariant holds of every behaviour of the generator.
THEOREM DgpsInvariant == DgpsSpec => []DgpsInd
BY InitInd, StepInd, PTL DEF DgpsSpec

\* Every variable keeps its type: in particular an epoch's median and rates
\* exist, and add_ephemeris files an ephemeris under its own satellite.
THEOREM DgpsTyping == DgpsSpec => []DgpsTypeOK
BY DgpsInvariant, PTL DEF DgpsInd

\* dgps.py:138 reads the dict again: whatever the interleaving of the two
\* threads, a correction's IOD differs from that of the ephemeris its PRC was
\* computed with only if that satellite's ephemeris arrived during the call.
THEOREM IodRace == DgpsSpec => []IodMismatchOnlyByRace
<1>1. DgpsInd => IodMismatchOnlyByRace
  BY DEF DgpsInd, OutInv, IodMismatchOnlyByRace
<1> QED
  BY <1>1, DgpsInvariant, PTL

\* Every published correction passed all gates, and PRNs ascend.
THEOREM Selection == DgpsSpec => []CorrectionsAreSelected
<1>1. DgpsInd => CorrectionsAreSelected
  BY DEF DgpsInd, OutInv, SelectedInv, Gated, Selected, CorrectionsAreSelected
<1> QED
  BY <1>1, DgpsInvariant, PTL

LEMMA AgeArithmetic ==
  ASSUME NEW w \in Nat, NEW d \in Int, NEW t \in Int, NEW pr \in Int,
         NEW toe \in Int, NEW week \in Int, NEW k \in Int
  PROVE  (w * d + t) - pr - (week * w + toe) = (t - pr - toe + w * k) + w * (d - week - k)
OBVIOUS

\* The staleness gate works modulo a week: the ephemeris behind a published
\* correction is, up to whole weeks, at most max_iod_age_s old or early.
THEOREM Freshness == DgpsSpec => []FreshModuloWeek
<1>1. ASSUME DgpsInd, NEW i \in DOMAIN out
      PROVE  LET m == Age(out[i].prn) % Week
             IN  m <= max_iod_age_s \/ Week - m <= max_iod_age_s
  <2> DEFINE p   == out[i].prn
             eph == used[p]
             dt  == delta_t_week(tow - prs[p], eph.toe)
  <2>1. p \in Selected /\ Gated(p) /\ p \in Prns
    BY <1>1 DEF DgpsInd, OutInv, SelectedInv, Selected
  <2>2. eph \in Ephemeris /\ eph.week \in Nat /\ eph.toe \in Int
    <3>1. eph \in Ephemerides
      BY <1>1, <2>1 DEF DgpsInd, DgpsTypeOK, Selected
    <3>2. eph \in Ephemeris
      BY <3>1, DgpsAssumption
    <3> HIDE DEF eph
    <3> QED
      BY <3>2, WeekAssumption DEF Ephemeris
  <2>3. pc # "idle" /\ prs[p] \in Int /\ tow \in Int /\ epoch \in Nat /\ tow = epoch % Week
    BY <1>1, <2>1, DgpsAssumption, WeekAssumption DEF DgpsInd, CallInv, DgpsTypeOK, Gated
  <2>4. Abs(dt) <= max_iod_age_s
    BY <2>1 DEF Gated
  <2>5. PICK k \in {-1, 0, 1} : dt = tow - prs[p] - eph.toe + Week * k
    BY <2>2, <2>3, DeltaCongruent
  <2>6. PICK d \in Int : epoch = Week * d + tow
    <3>1. epoch \div Week \in Int /\ epoch = Week * (epoch \div Week) + (epoch % Week)
      BY <2>3, WeekAssumption, DivMod
    <3> QED
      BY <2>3, <3>1
  <2> HIDE DEF dt
  <2>7. dt \in Int /\ d - eph.week - k \in Int /\ Age(p) = dt + Week * (d - eph.week - k)
    <3>1. Age(p) = epoch - prs[p] - (eph.week * Week + eph.toe)
      BY DEF Age, ToeOf
    <3> HIDE DEF eph, p
    <3>2. k \in Int /\ d - eph.week - k \in Int /\ Week \in Nat /\ eph.week \in Int
      BY <2>2, WeekAssumption
    <3>3. dt \in Int
      <4>1. Week * k \in Int  BY <3>2
      <4> QED  BY <2>2, <2>3, <2>5, <4>1
    <3> QED
      BY <2>2, <2>3, <2>5, <2>6, <3>1, <3>2, <3>3, AgeArithmetic
  <2>8. Age(p) % Week = dt % Week
    BY <2>7, WeekAssumption, ModShift
  <2>9. dt % Week <= max_iod_age_s \/ Week - (dt % Week) <= max_iod_age_s
    BY <2>4, <2>7, WeekAssumption, DgpsAssumption, ModSmall
  <2> QED
    BY <2>8, <2>9
<1>2. DgpsInd => FreshModuloWeek
  BY <1>1 DEF FreshModuloWeek
<1> QED
  BY <1>2, DgpsInvariant, PTL

\* One bad satellite among three or more is all the epoch loses: those that
\* agree with each other are published, whatever it reports.
THEOREM OutlierContained == DgpsSpec => []OneOutlierHarmsNoOther
<1>1. ASSUME DgpsInd, pc = "returned", Cardinality(Selected) >= 3, NEW bad \in Selected,
             \A p, q \in Selected \ {bad} : raw[p] - raw[q] <= max_residual_m,
             NEW good \in Selected \ {bad}
      PROVE  \E i \in DOMAIN out : out[i].prn = good
  <2>1. IsFiniteSet(Selected) /\ \A p \in Selected : raw[p] \in Int
    BY <1>1, FS_Subset, DgpsAssumption DEF Selected, DgpsInd, DgpsTypeOK
  <2>2. 2 * raw[good] - offset \in -(2 * max_residual_m) .. 2 * max_residual_m
    BY <1>1, <2>1, DgpsAssumption, MedianRobust DEF offset
  <2>3. ~ (Abs(2 * raw[good] - offset) > 2 * max_residual_m)
    BY <2>2, DgpsAssumption DEF Abs
  <2>4. todo = {}
    BY <1>1 DEF DgpsInd, CallInv
  <2> QED
    BY <1>1, <2>3, <2>4 DEF DgpsInd, OutInv
<1>2. DgpsInd => OneOutlierHarmsNoOther
  BY <1>1 DEF OneOutlierHarmsNoOther
<1> QED
  BY <1>2, DgpsInvariant, PTL
=============================================================================
