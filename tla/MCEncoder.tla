------------------------------ MODULE MCEncoder ------------------------------
(***************************************************************************)
(* Messages whose corrections lie in the fine range, between the ranges,   *)
(* on ties and beyond both, with PRN 32 and with records that leave fill   *)
(* bits; a Type 3 with the position of docs and tests, negative            *)
(* coordinates and ties; the line inverts bits of one word.                *)
(***************************************************************************)
EXTENDS Rtcm2Encoder

Type1(zcount, seq, corrections) ==
  [type |-> 1, station_id |-> 1023, zcount |-> zcount, seq |-> seq, health |-> 0,
   corrections |-> corrections]
Corr(prn, prc, rrc, iod, udre) == [prn |-> prn, prc |-> prc, rrc |-> rrc, iod |-> iod, udre |-> udre]

MCMessages ==
  { Type1(5999, 7, <<Corr(32, -1230, 105, 255, 1)>>),
    Type1(1, 0, <<Corr(7, 655340, -2540, 0, 3), Corr(31, -655350, -2550, 128, 3)>>),
    Type1(2500, 3, <<Corr(1, -655360, -2560, 45, 3), Corr(2, 1000, 25600, 7, 0),
                     Corr(32, 20000000, -90000, 102, 2)>>),
    [type |-> 3, station_id |-> 513, zcount |-> 1000, seq |-> 4, health |-> 0,
     ecef |-> <<[cm |-> -392491730, rest |-> 50], [cm |-> 346274705, rest |-> 50],
                [cm |-> -1, rest |-> 99]>>] }

\* No bit, any one or two, or three within eight.
MCNoise ==
  {{}} \cup {{i, j} : i, j \in 1 .. 30}
  \cup {{i, i + j, i + k} : i \in 1 .. 23, j, k \in 1 .. 7}
=============================================================================
