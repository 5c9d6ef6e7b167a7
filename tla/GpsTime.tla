------------------------------ MODULE GpsTime ------------------------------
(***************************************************************************)
(* GPS time arithmetic shared by the correction generator and the          *)
(* converter: differences of times of week, and the RTCM 2.3 modified      *)
(* Z-count.  The unit of time is left to the user of the module, except in *)
(* the Z-count, which the source computes from milliseconds (DF004).       *)
(***************************************************************************)
EXTENDS Integers

CONSTANT Week          \* _WEEK / _WEEK_S: length of the GPS week

ASSUME WeekAssumption == Week \in Nat \ {0} /\ Week % 2 = 0

HalfWeek == Week \div 2

Abs(x) == IF x < 0 THEN -x ELSE x

\* Time from a time-of-week reference, corrected for ONE week rollover.
delta_t_week(t, ref) ==
  LET dt == t - ref
  IN  IF dt > HalfWeek THEN dt - Week
      ELSE IF dt < -HalfWeek THEN dt + Week
      ELSE dt

-----------------------------------------------------------------------------
ZUnit  == 600          \* 0.6 s in milliseconds
ZCount == 6000         \* Z-counts in an hour
Hour   == ZUnit * ZCount

\* The values modified_zcount may return for a time of week in milliseconds.
\* round() of the binary64 quotient (tow % 3600) / 0.6 is the nearest count;
\* at an exact half the rounding error of the division decides, so both
\* neighbours are possible.
modified_zcount(ms) ==
  LET q == (ms % Hour) \div ZUnit
      r == ms % ZUnit
  IN  {z % ZCount : z \in (IF 2 * r <= ZUnit THEN {q} ELSE {})
                     \cup (IF 2 * r >= ZUnit THEN {q + 1} ELSE {})}

\* Distance between two instants on the circle of one hour.
HourDistance(a, b) ==
  LET d == (a - b) % Hour IN IF 2 * d <= Hour THEN d ELSE Hour - d
=============================================================================
