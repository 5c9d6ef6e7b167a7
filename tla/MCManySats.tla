----------------------------- MODULE MCManySats -----------------------------
(***************************************************************************)
(* The source's own limits: 31 words in the N field and an epoch with 19   *)
(* healthy satellites in view.  The run starts when every ephemeris has    *)
(* arrived, which add_ephemeris calls reach from ConvInit, and leaves the  *)
(* ephemeris thread out.                                                   *)
(***************************************************************************)
EXTENDS Converter, TLC

Eph(p) == [prn |-> p, week |-> 0, toe |-> 0, iode |-> p, health |-> 0]
MCEphemerides == {Eph(p) : p \in Prns}
MCRawCorrection(e, b, t, pr) == e.iode - pr
MCParityAfter(s, t, n) == (s + t + n) % 4

InView(n) == [p \in 1 .. n |-> 1]
MCObservations == {InView(18), InView(19)}
MCChunks == {<<[kind |-> "station", ecef |-> "A"]>>}
            \cup {<<[kind |-> "msm7", step |-> 1, obs |-> o]>> : o \in MCObservations}

LoadedInit ==
  /\ base = None
  /\ ephemerides = [p \in Prns |-> Eph(p)]
  /\ prev = [p \in Prns |-> None]
  /\ pc = "idle" /\ tow = 0 /\ prs = <<>> /\ todo = {} /\ out = <<>>
  /\ used = [p \in Prns |-> None]
  /\ raw = [p \in Prns |-> 0]
  /\ rate = [p \in Prns |-> None]
  /\ epoch = 0 /\ touched = {}
  /\ frames = <<>> /\ stage = "frame" /\ seq = 0 /\ last_type3_tow = None
  /\ seed = Seed0 /\ feed = <<>> /\ fed = 0 /\ failures = 0 /\ since = 0

ObservationThread ==
  \/ \E c \in Chunks : feed_obs(c)
  \/ on_station_frame
  \/ on_msm7_frame
  \/ generator
  \/ on_no_corrections
  \/ maybe_emit_type3
  \/ emit_type1

LoadedSpec == LoadedInit /\ [][ObservationThread]_convVars
=============================================================================
