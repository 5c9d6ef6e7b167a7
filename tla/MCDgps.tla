------------------------------- MODULE MCDgps -------------------------------
(***************************************************************************)
(* Three satellites.  Each has two issues of ephemeris, the second of PRN  *)
(* 2 flagged unhealthy and the second of PRN 3 too old for every epoch but *)
(* one a week later; raw_correction raises for a third issue of PRN 2.     *)
(***************************************************************************)
EXTENDS DgpsGenerator, TLC

Eph(p, i, toe, h) == [prn |-> p, week |-> 0, toe |-> toe, iode |-> i, health |-> h]

NoOrbit == Eph(2, 0, 2, 0)
MCEphemerides == {Eph(1, 1, 2, 0), Eph(1, 2, 3, 0),
                  Eph(2, 1, 2, 0), Eph(2, 2, 2, 1), NoOrbit,
                  Eph(3, 1, 2, 0), Eph(3, 2, 10, 0)}

\* A raw correction shows the ephemeris and the station it was made with, and
\* a tick of pseudorange weighs 16 m.
MCRawCorrection(e, b, t, pr) == IF e = NoOrbit THEN None ELSE e.iode + b - 16 * pr

\* All satellites; one of them 32 m off; one missing; one 16 m off beside an
\* invalid range.
MCObservations == {<<1, 1, 1>>, <<1, 1, 3>>, 1 :> 1 @@ 3 :> 1, <<1, 0, 2>>}
=============================================================================
