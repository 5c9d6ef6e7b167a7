------------------------------ MODULE MCInput ------------------------------
(***************************************************************************)
(* Three satellites that differ in the milliseconds of their range, two    *)
(* signals of which the second is L1 C/A's neighbour in the mask.          *)
(***************************************************************************)
EXTENDS Rtcm3Input

MCSignals == <<"1C", "2W">>
MCMillis(p) == 66 + p
MCFines == {-7, 7}
=============================================================================
