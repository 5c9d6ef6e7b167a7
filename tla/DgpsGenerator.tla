--------------------------- MODULE DgpsGenerator ---------------------------
(***************************************************************************)
(* DgpsGenerator (dgps.py): Type 1 corrections from a station position,    *)
(* broadcast ephemerides and one epoch of pseudoranges.                    *)
(*                                                                         *)
(* Two threads share the object without a lock: the observation client     *)
(* calls set_station and corrections, the ephemeris client calls           *)
(* add_ephemeris.  corrections() reads the ephemerides dict once per       *)
(* satellite while it forms the raw corrections and once more per          *)
(* satellite when it writes the IOD, so it is modelled as one step per     *)
(* dict access, with add_ephemeris possible between any two of them.       *)
(*                                                                         *)
(* Units: the speed of light is 1, so pr / C is pr; PRC and the offset are *)
(* kept doubled (statistics.median halves the sum of the two middle        *)
(* values), RRC and its offset doubled and multiplied by RateScale.        *)
(* raw_correction (orbit, clock, geometry) is the constant operator        *)
(* RawCorrection: nothing here depends on which function it is.  Its value *)
(* is None where the code raises, as it does for sqrt_a = 0.               *)
(***************************************************************************)
EXTENDS GpsTime, Median, Sequences

CONSTANTS Prns,            \* satellite numbers upstream may use
          Ephemerides,     \* 1019 messages upstream may send
          Stations,        \* 1005/1006 positions upstream may send
          Observations,    \* decoded 1077 epochs: functions PRN -> pseudorange
          EpochSteps,      \* how far stream time moves between epochs; never back
          max_iod_age_s, max_residual_m,
          RateScale,       \* fixed-point unit of a rate
          RawCorrection(_, _, _, _),
          MaxTime,         \* bound on stream time
          None

Ephemeris == [prn : Prns, week : Nat, toe : 0 .. Week - 1, iode : 0 .. 255, health : Nat]

ASSUME DgpsAssumption ==
  /\ Prns \subseteq Nat /\ IsFiniteSet(Prns)
  /\ Ephemerides \subseteq Ephemeris
  /\ None \notin Ephemeris \cup Stations \cup Int \cup [tow : Int, raw : Int]
  /\ \A o \in Observations : DOMAIN o \subseteq Prns /\ \A p \in DOMAIN o : o[p] \in Int
  /\ EpochSteps \subseteq Nat
  /\ max_iod_age_s \in Nat
  /\ max_residual_m \in Nat
  /\ RateScale \in Nat \ {0}
  /\ MaxTime \in Nat
  /\ \A e \in Ephemerides, b \in Stations, t \in 0 .. Week - 1, o \in Observations :
       \A p \in DOMAIN o : RawCorrection(e, b, t, o[p]) \in Int \cup {None}

VARIABLES base,          \* self.base
          ephemerides,   \* self.ephemerides
          prev,          \* self._prev: last epoch and raw correction per PRN
          pc,            \* where corrections() is: idle, read, emit, returned
          tow, prs,      \* its arguments
          todo,          \* satellites the running loop has still to visit
          used,          \* the local eph of each satellite that passed the gates
          raw,           \* raw[prn], meaningful where used[prn] # None
          rate,          \* raw_rate[prn], None where absent
          out,           \* the list of corrections built so far
          epoch,         \* ghost: GPS time of the epoch, not reduced to the week
          touched        \* ghost: PRNs whose ephemeris arrived during this call

gen   == <<base, ephemerides, prev>>
local == <<pc, tow, prs, todo, used, raw, rate, out>>
ghost == <<epoch, touched>>
dgpsVars == <<gen, local, ghost>>

-----------------------------------------------------------------------------
\* (v - w) / dt in units of 1 / RateScale.
Quotient(dv, dt) == IF dt > 0 THEN (dv * RateScale) \div dt ELSE (-dv * RateScale) \div (-dt)

\* Mutant: the classes counted from one.
udre_index_from_one(prc2) == 1 + Cardinality({b \in {2, 8, 16} : Abs(prc2) > b})

\* The UDRE indicator of a (doubled) correction.
udre_index(prc2) == LET m == Abs(prc2) IN IF m <= 2 THEN 0 ELSE IF m <= 8 THEN 1 ELSE IF m <= 16 THEN 2 ELSE 3

Selected == {p \in Prns : used[p] # None}
Rated    == {p \in Prns : rate[p] # None}

\* Mutants: the age is not taken absolute; the health flag is not looked at.
Usable_signed(eph, pr) ==
  eph # None /\ pr > 0 /\ eph.health = 0 /\ delta_t_week(tow - pr, eph.toe) <= max_iod_age_s
Usable_any_health(eph, pr) ==
  eph # None /\ pr > 0 /\ Abs(delta_t_week(tow - pr, eph.toe)) <= max_iod_age_s

\* Whether the satellite passes the gates in front of raw_correction.
Usable(eph, pr) ==
  /\ eph # None
  /\ pr > 0
  /\ eph.health = 0
  /\ Abs(delta_t_week(tow - pr, eph.toe)) <= max_iod_age_s

-----------------------------------------------------------------------------
DgpsInit ==
  /\ base = None
  /\ ephemerides = [p \in Prns |-> None]
  /\ prev = [p \in Prns |-> None]
  /\ pc = "idle" /\ tow = 0 /\ prs = <<>> /\ todo = {} /\ out = <<>>
  /\ used = [p \in Prns |-> None]
  /\ raw = [p \in Prns |-> 0]
  /\ rate = [p \in Prns |-> None]
  /\ epoch = 0 /\ touched = {}

\* Observation thread, between two epochs.
set_station(ecef) ==
  /\ pc = "idle"
  /\ base' = ecef
  /\ UNCHANGED <<ephemerides, prev, local, ghost>>

\* Ephemeris thread, at any moment.
add_ephemeris(eph) ==
  /\ ephemerides' = [ephemerides EXCEPT ![eph.prn] = eph]
  /\ touched' = IF pc \in {"read", "emit"} THEN touched \cup {eph.prn} ELSE touched
  /\ UNCHANGED <<base, prev, local, epoch>>

\* corrections() is called for the epoch at GPS time t.
corrections(t, obs) ==
  /\ pc = "idle"
  /\ pc' = IF base = None THEN "returned" ELSE "read"
  /\ tow' = t % Week /\ prs' = obs /\ todo' = DOMAIN obs
  /\ epoch' = t
  /\ UNCHANGED <<gen, used, raw, rate, out, touched>>

\* Both loops visit the satellites in PRN order: the first follows the order
\* of the cells of the 1077 message, the second sorts.
Visits(prn) == prn \in todo /\ \A p \in todo : prn <= p

\* Whether the turn for this satellite ends in an exception.
Raises(prn) ==
  LET eph == ephemerides[prn]
  IN  Usable(eph, prs[prn]) /\ RawCorrection(eph, base, tow, prs[prn]) = None

\* One turn of the first loop: look the ephemeris up, apply the gates.
read_ephemeris(prn) ==
  /\ pc = "read" /\ Visits(prn)
  /\ ~Raises(prn)
  /\ todo' = todo \ {prn}
  /\ LET eph == ephemerides[prn]
         ok  == Usable(eph, prs[prn])
     IN  /\ used' = IF ok THEN [used EXCEPT ![prn] = eph] ELSE used
         /\ raw' = IF ok THEN [raw EXCEPT ![prn] = RawCorrection(eph, base, tow, prs[prn])] ELSE raw
  /\ UNCHANGED <<gen, pc, tow, prs, rate, out, ghost>>

\* After the first loop: nothing left, or the rates since the previous epoch.
common_terms ==
  /\ pc = "read" /\ todo = {}
  /\ pc' = IF Selected = {} THEN "returned" ELSE "emit"
  /\ todo' = Selected
  /\ rate' = [p \in Prns |->
                IF used[p] # None /\ prev[p] # None /\ tow # prev[p].tow
                THEN Quotient(raw[p] - prev[p].raw, tow - prev[p].tow)
                ELSE None]
  /\ UNCHANGED <<gen, tow, prs, used, raw, out, ghost>>

\* Mutant: the mean in place of the median.
offset_mean == (2 * MapThenSumSet(LAMBDA p : raw[p], Selected)) \div Cardinality(Selected)

\* The medians of the raw corrections and of their rates, doubled.
offset == Median2(raw, Selected)
rate_offset == Median2(rate, Rated)

\* The Correction built for a selected satellite with this IOD.
NewCorrection(prn, prc, iod) ==
  [prn |-> prn, prc |-> prc, udre |-> udre_index(prc), iod |-> iod,
   rrc |-> IF prn \in Rated THEN 2 * rate[prn] - rate_offset ELSE 0]

\* Mutant: the IOD of the last ephemeris the first loop has used.
IodRead_leftover(prn) == used[Max(Selected)].iode

\* The IOD is read from the dict again.
IodRead(prn) == ephemerides[prn].iode

\* One turn of the output loop.
emit_correction(prn) ==
  /\ pc = "emit" /\ Visits(prn)
  /\ todo' = todo \ {prn}
  /\ pc' = IF todo' = {} THEN "returned" ELSE "emit"
  /\ prev' = [prev EXCEPT ![prn] = [tow |-> tow, raw |-> raw[prn]]]
  /\ LET prc == 2 * raw[prn] - offset
     IN  IF Abs(prc) > 2 * max_residual_m
         THEN UNCHANGED out
         ELSE out' = Append(out, NewCorrection(prn, prc, IodRead(prn)))
  /\ UNCHANGED <<base, ephemerides, tow, prs, used, raw, rate, epoch, touched>>

\* corrections() is left: its locals are gone.
leave_corrections ==
  /\ pc' = "idle" /\ tow' = 0 /\ prs' = <<>> /\ todo' = {} /\ out' = <<>>
  /\ used' = [p \in Prns |-> None]
  /\ raw' = [p \in Prns |-> 0]
  /\ rate' = [p \in Prns |-> None]
  /\ touched' = {}
  /\ UNCHANGED <<gen, epoch>>

\* corrections() returns out to its caller.
return == pc = "returned" /\ leave_corrections

\* raw_correction raises, and nobody in corrections() catches it.
raw_correction_raises(prn) ==
  /\ pc = "read" /\ Visits(prn)
  /\ Raises(prn)
  /\ leave_corrections

\* What the observation thread does inside corrections().
Computing ==
  \/ \E p \in Prns : read_ephemeris(p)
  \/ common_terms
  \/ \E p \in Prns : emit_correction(p)

\* The generator alone, under every sequence of calls of its two threads.
DgpsNext ==
  \/ \E b \in Stations : set_station(b)
  \/ \E e \in Ephemerides : add_ephemeris(e)
  \/ \E d \in EpochSteps, o \in Observations : epoch + d <= MaxTime /\ corrections(epoch + d, o)
  \/ Computing
  \/ \E p \in Prns : raw_correction_raises(p)
  \/ return

DgpsSpec == DgpsInit /\ [][DgpsNext]_dgpsVars

-----------------------------------------------------------------------------
Correction == [prn : Prns, prc : Int, rrc : Int, udre : 0 .. 3, iod : 0 .. 255]

DgpsTypeOK ==
  /\ base \in Stations \cup {None}
  /\ ephemerides \in [Prns -> Ephemerides \cup {None}]
  /\ \A p \in Prns : ephemerides[p] # None => ephemerides[p].prn = p
  /\ prev \in [Prns -> [tow : Int, raw : Int] \cup {None}]
  /\ pc \in {"idle", "read", "emit", "returned"}
  /\ tow \in 0 .. Week - 1
  /\ pc # "idle" => prs \in Observations
  /\ todo \in SUBSET Prns
  /\ pc = "read" => todo \subseteq DOMAIN prs
  /\ used \in [Prns -> Ephemerides \cup {None}]
  /\ raw \in [Prns -> Int]
  /\ rate \in [Prns -> Int \cup {None}]
  /\ out \in Seq(Correction)
  /\ epoch \in Nat
  /\ touched \in SUBSET Prns

\* The GPS time an ephemeris is for, and its age when the signal left the satellite.
ToeOf(eph) == eph.week * Week + eph.toe
Age(prn) == epoch - prs[prn] - ToeOf(used[prn])

\* conversion.md 1.8: the IOD "identifies which broadcast-ephemeris set the
\* correction was computed against".
IodIdentifiesEphemeris == \A i \in DOMAIN out : out[i].iod = used[out[i].prn].iode

\* A correction whose IOD is not that of the ephemeris behind its PRC exists
\* only for a satellite whose ephemeris was replaced while corrections() ran:
\* the second dict access of emit_correction is the only way to a mismatch.
IodMismatchOnlyByRace ==
  \A i \in DOMAIN out : out[i].iod # used[out[i].prn].iode => out[i].prn \in touched

\* dgps.py: "Satellites are skipped when their ephemeris is ... stale (older
\* than max_iod_age_s)".
FreshEphemeris == \A i \in DOMAIN out : Abs(Age(out[i].prn)) <= max_iod_age_s

\* What the staleness gate, which ignores the ephemeris week, does ensure:
\* the age of the ephemeris behind a correction is within max_iod_age_s of a
\* multiple of a week.  Older data can only slip in by aliasing.
FreshModuloWeek ==
  \A i \in DOMAIN out :
    LET m == Age(out[i].prn) % Week IN m <= max_iod_age_s \/ Week - m <= max_iod_age_s

\* conversion.md 2.3: any time difference, "the previous epoch" included, is
\* reduced into half a week either side.
RateOverWeekCorrectedInterval ==
  pc = "emit" => \A p \in todo \cap Rated :
    rate[p] = Quotient(raw[p] - prev[p].raw, delta_t_week(tow, prev[p].tow))

\* Every correction belongs to a satellite of this epoch that was observed,
\* and its ephemeris was healthy when it was read, whatever the other thread
\* has put in its place since; no satellite appears twice, PRNs ascend.
CorrectionsAreSelected ==
  \A i \in DOMAIN out :
    /\ out[i].prn \in DOMAIN prs /\ prs[out[i].prn] > 0
    /\ used[out[i].prn] # None /\ used[out[i].prn].health = 0
    /\ Abs(out[i].prc) <= 2 * max_residual_m
    /\ \A j \in DOMAIN out : i < j => out[i].prn < out[j].prn

\* conversion.md 1.6: the median "is robust to a single grossly wrong
\* satellite".  With three satellites or more, if all but one agree to within
\* max_residual_m, none of those that agree is dropped.
OneOutlierHarmsNoOther ==
  pc = "returned" /\ Cardinality(Selected) >= 3 =>
    \A bad \in Selected :
      (\A p, q \in Selected \ {bad} : raw[p] - raw[q] <= max_residual_m)
        => \A p \in Selected \ {bad} : \E i \in DOMAIN out : out[i].prn = p
=============================================================================
