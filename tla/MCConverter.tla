---------------------------- MODULE MCConverter ----------------------------
(***************************************************************************)
(* Two satellites; the N field holds the words of one (MaxDataWords = 2),  *)
(* so an epoch with both fails to encode.  Two stations; epochs at the     *)
(* same time (a second 1077 of one epoch), one tick or two apart.          *)
(***************************************************************************)
EXTENDS Converter, TLC

Eph(p) == [prn |-> p, week |-> 0, toe |-> 0, iode |-> p, health |-> 0]
\* The second satellite's first ephemeris has no orbit: raw_correction raises.
NoOrbit == [Eph(2) EXCEPT !.iode = 0]
MCEphemerides == {Eph(p) : p \in Prns} \cup {NoOrbit}
MCRawCorrection(e, b, t, pr) == IF e = NoOrbit THEN None ELSE e.iode - pr
MCParityAfter(s, t, n) == (s + t + n) % 4

One  == 1 :> 1
Both == 1 :> 1 @@ 2 :> 1
MCObservations == {One, Both}

Station(b) == [kind |-> "station", ecef |-> b]
Msm7(d, o) == [kind |-> "msm7", step |-> d, obs |-> o]
MCChunks ==
  {<<[kind |-> "ignored"], Station("A"), [kind |-> "broken"], Station("B")>>}
  \cup {<<Msm7(d, One)>> : d \in EpochSteps}
  \cup {<<Msm7(1, Both), Station("B"), Msm7(1, One)>>}
=============================================================================
