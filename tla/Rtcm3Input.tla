----------------------------- MODULE Rtcm3Input -----------------------------
(***************************************************************************)
(* rtcm3_input.py: what the converter reads from RTCM3 messages.  The wire *)
(* format is decoded by pyrtcm, an external library: of an MSM7 message it *)
(* gives one numbered slot for each satellite of the satellite mask and    *)
(* one numbered cell for each signal of a satellite that is in the cell    *)
(* mask, both in ascending order.  A slot has the satellite's rough range  *)
(* (whole milliseconds, 255 for none, and a rest), a cell the signal's     *)
(* fine range, None for none.                                              *)
(*                                                                         *)
(* Ranges are integers in a unit that RestUnits of make a millisecond.     *)
(***************************************************************************)
EXTENDS Integers, Sequences, FiniteSets

CONSTANTS PRNs,         \* satellites
          Signals,      \* signals a satellite may have, in mask order
          Millis(_),    \* whole milliseconds of a satellite's range
          Rests, Fines, \* rests of rough ranges, and fine ranges
          RestUnits,    \* units in a millisecond
          Epochs,       \* epoch times, milliseconds
          None, NoCell

ASSUME InputAssumption ==
  /\ PRNs \subseteq 1 .. 64
  /\ Signals \in Seq(STRING) /\ Len(Signals) <= 32
  /\ \E s \in DOMAIN Signals : \A i \in DOMAIN Signals : Signals[i] = "1C" <=> i = s
  /\ \A p \in PRNs : Millis(p) \in 0 .. 254
  /\ RestUnits \in Nat \ {0} /\ Rests \subseteq 0 .. RestUnits - 1
  /\ Fines \subseteq Int /\ None \notin Fines /\ NoCell \notin Fines \cup {None}

VARIABLES sky,      \* what the base observed, by satellite
          message,  \* the pyrtcm message
          result    \* what parse_gps_msm7 returned

inVars == <<sky, message, result>>

\* A satellite the base puts in the mask, with a range or without, and a fine
\* range, none, or no cell at all for each signal.
Observation ==
  [ranged : BOOLEAN, rest : Rests, fine : [1 .. Len(Signals) -> Fines \cup {None, NoCell}]]

-----------------------------------------------------------------------------
\* The elements of S in ascending order of their keys.
Ascending(S, key) ==
  [i \in 1 .. Cardinality(S) |-> CHOOSE x \in S : Cardinality({y \in S : key[y] < key[x]}) = i - 1]

\* The slots of the satellite mask, and the cells of the cell mask.
Slots == Ascending(DOMAIN sky, [p \in DOMAIN sky |-> p])
Cells ==
  LET mask == {c \in (DOMAIN sky) \X (DOMAIN Signals) : sky[c[1]].fine[c[2]] # NoCell}
  IN  Ascending(mask, [c \in mask |-> 32 * c[1] + c[2]])

\* The message pyrtcm makes of it.
Message(tow) ==
  [DF004   |-> tow,
   PRN     |-> Slots,
   DF397   |-> [i \in DOMAIN Slots |-> IF sky[Slots[i]].ranged THEN Millis(Slots[i]) ELSE 255],
   DF398   |-> [i \in DOMAIN Slots |-> sky[Slots[i]].rest],
   CELLPRN |-> [i \in DOMAIN Cells |-> Cells[i][1]],
   CELLSIG |-> [i \in DOMAIN Cells |-> Signals[Cells[i][2]]],
   DF405   |-> [i \in DOMAIN Cells |-> sky[Cells[i][1]].fine[Cells[i][2]]]]

\* Mutant: the satellite of a slot inferred from the order of the cells.
Rough_by_cells(msg) ==
  LET named == {msg.CELLPRN[i] : i \in DOMAIN msg.CELLPRN}
      order == Ascending(named, [p \in named |-> p])
      valid == {i \in DOMAIN msg.DF397 : i <= Len(order) /\ msg.DF397[i] < 255}
      slot(p) == CHOOSE i \in valid : order[i] = p
  IN  [p \in {order[i] : i \in valid} |-> RestUnits * msg.DF397[slot(p)] + msg.DF398[slot(p)]]

\* rough: the range of each satellite that has one.
Rough(msg) ==
  LET valid == {i \in DOMAIN msg.DF397 : msg.DF397[i] < 255}
      slot(p) == CHOOSE i \in valid : msg.PRN[i] = p
  IN  [p \in {msg.PRN[i] : i \in valid} |-> RestUnits * msg.DF397[slot(p)] + msg.DF398[slot(p)]]

\* The epoch, and the L1 C/A pseudorange of each satellite with a valid cell.
parse_gps_msm7(msg) ==
  LET rough == Rough(msg)
      used == {i \in DOMAIN msg.DF405 : /\ msg.CELLSIG[i] = "1C"
                                        /\ msg.DF405[i] # None
                                        /\ msg.CELLPRN[i] \in DOMAIN rough}
      cell(p) == CHOOSE i \in used : msg.CELLPRN[i] = p
  IN  [tow |-> msg.DF004,
       ranges |-> [p \in {msg.CELLPRN[i] : i \in used} |-> rough[p] + msg.DF405[cell(p)]]]

InInit ==
  /\ sky \in UNION {[S -> Observation] : S \in SUBSET PRNs}
  /\ message = None /\ result = None

receive(tow) ==
  /\ message = None
  /\ message' = Message(tow)
  /\ UNCHANGED <<sky, result>>

on_msm7 ==
  /\ message # None /\ result = None
  /\ result' = parse_gps_msm7(message)
  /\ UNCHANGED <<sky, message>>

InNext == (\E tow \in Epochs : receive(tow)) \/ on_msm7

InSpec == InInit /\ [][InNext]_inVars

-----------------------------------------------------------------------------
\* rtcm3_input.py: "{PRN: L1 C/A pseudorange metres}": exactly the satellites
\* with a rough range and a fine L1 C/A one are returned, each with its own
\* range, whichever of the others are in the mask without cells, lack a range
\* or have other signals only.
ObservationsRecovered ==
  result # None =>
    LET l1ca == CHOOSE s \in DOMAIN Signals : Signals[s] = "1C" IN
    /\ result.tow = message.DF004
    /\ DOMAIN result.ranges = {p \in DOMAIN sky : sky[p].ranged /\ sky[p].fine[l1ca] \in Fines}
    /\ \A p \in DOMAIN result.ranges :
         result.ranges[p] = RestUnits * Millis(p) + sky[p].rest + sky[p].fine[l1ca]
=============================================================================
