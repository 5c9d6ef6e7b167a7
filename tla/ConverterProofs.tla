-------------------------- MODULE ConverterProofs --------------------------
(***************************************************************************)
(* Invariants of Converter for every set of chunks a caster may send, and  *)
(* any number of messages: the generator's invariants hold of it too, and  *)
(* to them ConvInd adds where a frame's handling stands, and how the       *)
(* encoder's state follows from what has been published.                   *)
(***************************************************************************)
EXTENDS Converter, DgpsProofs

\* Where _on_obs_frame stands.
StageInv ==
  /\ pc # "idle" => frames # <<>>
  /\ stage = "type1" =>
       /\ out # <<>>
       /\ last_type3_tow # None
       /\ (tow - last_type3_tow) % Week < Type3Interval

\* _last_type3_tow is that of the latest Type 3 message published.
Type3Inv ==
  /\ \A i \in DOMAIN feed : feed[i].tow = feed[i].at % Week /\ feed[i].at <= epoch
  /\ \A i \in DOMAIN feed : feed[i].type = 3 =>
       /\ last_type3_tow # None
       /\ \E j \in DOMAIN feed : /\ feed[j].type = 3 /\ feed[j].tow = last_type3_tow
                                 /\ feed[i].at <= feed[j].at
  /\ last_type3_tow # None =>
       \E j \in DOMAIN feed : feed[j].type = 3 /\ feed[j].tow = last_type3_tow

StreamInv ==
  /\ ConvTypeOK /\ StageInv /\ Type3Inv
  /\ ParityChain /\ SeqSkipsOnlyFailures /\ Type3PrecedesType1 /\ Type3NotTooOften

ConvInd == DgpsInd /\ StreamInv

-----------------------------------------------------------------------------
LEMMA ConvInitInd == ConvInit => ConvInd
<1> SUFFICES ASSUME ConvInit PROVE ConvInd
  OBVIOUS
<1>1. DgpsInd
  BY InitInd DEF ConvInit
<1> USE ConverterAssumption, DgpsAssumption DEF ConvInit, DgpsInit
<1>2. ConvTypeOK
  BY <1>1 DEF ConvTypeOK, DgpsInd
<1>3. StageInv /\ Type3Inv /\ ParityChain /\ SeqSkipsOnlyFailures
  BY DEF StageInv, Type3Inv, ParityChain, SeqSkipsOnlyFailures
<1>4. Type3PrecedesType1 /\ Type3NotTooOften
  BY DEF Type3PrecedesType1, Type3NotTooOften
<1> QED
  BY <1>1, <1>2, <1>3, <1>4 DEF ConvInd, StreamInv

\* What the arithmetic below needs to know of the published messages.
LEMMA FeedTyped ==
  ASSUME ConvInd
  PROVE  /\ feed \in Seq(MessageSet) /\ epoch \in Nat /\ seq \in 0 .. 7
         /\ tow \in 0 .. Week - 1 /\ failures \in Nat /\ since \in Nat
         /\ \A i \in DOMAIN feed : feed[i] \in MessageSet /\ feed[i].at \in Nat
<1>1. /\ feed \in Seq(MessageSet) /\ epoch \in Nat /\ seq \in 0 .. 7
      /\ tow \in 0 .. Week - 1 /\ failures \in Nat /\ since \in Nat
  BY DEF ConvInd, StreamInv, ConvTypeOK, DgpsTypeOK
<1>2. \A i \in DOMAIN feed : feed[i] \in MessageSet
  BY <1>1
<1> QED
  BY <1>1, <1>2 DEF MessageSet

\* A step that publishes nothing, takes no number and leaves a message half
\* emitted alone only has to keep the types.
LEMMA QuietInd ==
  ASSUME ConvInd, DgpsInd', epoch' >= epoch,
         frames' \in Seq(Frame), fed' \in Nat, since' \in Nat, since' <= epoch',
         UNCHANGED <<stage, seq, last_type3_tow, seed, feed, failures>>,
         pc' # "idle" => frames' # <<>>,
         stage = "type1" => pc' = "returned" /\ out' = out /\ tow' = tow
  PROVE  ConvInd'
<1>1. DgpsTypeOK'
  BY DEF DgpsInd
<1>2. ConvTypeOK'
  BY <1>1 DEF ConvInd, StreamInv, ConvTypeOK
<1>3. StageInv'
  BY DEF ConvInd, StreamInv, StageInv
<1>4. Type3Inv'
  <2>1. \A i \in DOMAIN feed : feed[i].at <= epoch => feed[i].at <= epoch'
    BY <1>1, FeedTyped DEF DgpsTypeOK
  <2> QED
    BY <2>1 DEF ConvInd, StreamInv, Type3Inv
<1>5. (ParityChain /\ SeqSkipsOnlyFailures /\ Type3PrecedesType1 /\ Type3NotTooOften)'
  BY DEF ConvInd, StreamInv, ParityChain, SeqSkipsOnlyFailures, Type3PrecedesType1, Type3NotTooOften
<1> QED
  BY <1>2, <1>3, <1>4, <1>5 DEF ConvInd, StreamInv

LEMMA feed_obsInd ==
  ASSUME ConvInd, NEW c \in Chunks, feed_obs(c)
  PROVE  ConvInd'
<1>1. DgpsInd'
  BY StutterInd DEF ConvInd, feed_obs
<1>2. c \in Seq(Frame) /\ fed' \in Nat /\ pc' = "idle"
  BY ConverterAssumption DEF ConvInd, StreamInv, ConvTypeOK, feed_obs, dgpsVars, local
<1> QED
  BY <1>1, <1>2, QuietInd, FeedTyped
     DEF ConvInd, StreamInv, ConvTypeOK, feed_obs, dgpsVars, local, ghost

LEMMA HeadFrame ==
  ASSUME ConvInd, frames # <<>>
  PROVE  /\ Tail(frames) \in Seq(Frame)
         /\ Head(frames).kind = "station" => Head(frames).ecef \in Stations
         /\ Head(frames).kind = "msm7" => /\ Head(frames).step \in EpochSteps
                                          /\ Head(frames).obs \in Observations
<1>1. frames \in Seq(Frame)
  BY DEF ConvInd, StreamInv, ConvTypeOK
<1>2. Head(frames) \in Frame /\ Tail(frames) \in Seq(Frame)
  BY <1>1
<1> QED
  BY <1>2 DEF Frame

LEMMA on_ignored_frameInd ==
  ASSUME ConvInd, on_ignored_frame
  PROVE  ConvInd'
<1>1. DgpsInd'
  BY StutterInd DEF ConvInd, on_ignored_frame
<1> QED
  BY <1>1, HeadFrame, QuietInd, FeedTyped
     DEF ConvInd, StreamInv, ConvTypeOK, on_ignored_frame, dgpsVars, local, ghost

LEMMA on_broken_frameInd ==
  ASSUME ConvInd, on_broken_frame
  PROVE  ConvInd'
<1>1. DgpsInd'
  BY StutterInd DEF ConvInd, on_broken_frame
<1> QED
  BY <1>1, QuietInd, FeedTyped
     DEF ConvInd, StreamInv, ConvTypeOK, on_broken_frame, dgpsVars, local, ghost

LEMMA on_station_frameInd ==
  ASSUME ConvInd, on_station_frame
  PROVE  ConvInd'
<1>1. DgpsInd'
  BY HeadFrame, set_stationInd DEF ConvInd, on_station_frame
<1>2. since' \in Nat /\ since' <= epoch' /\ epoch' >= epoch
  BY FeedTyped DEF ConvInd, StreamInv, ConvTypeOK, on_station_frame, set_station, ghost
<1>3. Tail(frames) \in Seq(Frame) /\ fed \in Nat /\ stage # "type1" /\ pc' = "idle"
  BY HeadFrame DEF on_station_frame, set_station, local, ConvInd, StreamInv, ConvTypeOK
<1> QED
  BY <1>1, <1>2, <1>3, QuietInd DEF on_station_frame, set_station, local

LEMMA on_msm7_frameInd ==
  ASSUME ConvInd, on_msm7_frame
  PROVE  ConvInd'
<1>1. PICK t \in Nat : /\ t >= epoch
                       /\ \E obs \in Observations : corrections(t, obs)
  <2>1. Head(frames).step \in Nat /\ Head(frames).obs \in Observations
    BY HeadFrame, DgpsAssumption DEF on_msm7_frame
  <2>2. epoch + Head(frames).step \in Nat /\ epoch + Head(frames).step >= epoch
    BY <2>1, FeedTyped
  <2> QED
    BY <2>1, <2>2 DEF on_msm7_frame
<1>2. DgpsInd'
  BY <1>1, correctionsInd DEF ConvInd
<1>3. epoch' = t /\ pc = "idle"
  BY <1>1 DEF corrections
<1>4. UNCHANGED <<stream, since>>
  BY DEF on_msm7_frame
<1>5. stage # "type1" /\ frames' \in Seq(Frame) /\ fed' \in Nat /\ frames' # <<>>
  BY <1>3, <1>4 DEF ConvInd, StreamInv, ConvTypeOK, stream, on_msm7_frame
<1>6. since' \in Nat /\ since' <= epoch' /\ epoch' >= epoch
  BY <1>1, <1>3, <1>4, FeedTyped DEF ConvInd, StreamInv, ConvTypeOK
<1> QED
  BY <1>2, <1>4, <1>5, <1>6, QuietInd DEF stream

LEMMA generatorInd ==
  ASSUME ConvInd, generator
  PROVE  ConvInd'
<1>1. DgpsInd'
  BY ComputingInd DEF ConvInd, generator
<1>2. pc # "returned" /\ epoch' = epoch
  BY DEF generator, Computing, read_ephemeris, common_terms, emit_correction, ghost
<1>3. stage = "type1" => pc = "returned"
  BY DEF ConvInd, StreamInv, ConvTypeOK
<1>4. UNCHANGED stream /\ since' = since
  BY DEF generator
<1>5. frames' \in Seq(Frame) /\ fed' \in Nat /\ since' \in Nat /\ since' <= epoch'
  BY <1>2, <1>4 DEF stream, ConvInd, StreamInv, ConvTypeOK
<1>6. frames' # <<>>
  <2>1. pc # "idle"
    BY DEF generator, Computing, read_ephemeris, common_terms, emit_correction
  <2> QED
    BY <2>1, <1>4 DEF stream, ConvInd, StreamInv, StageInv
<1> QED
  BY <1>1, <1>2, <1>3, <1>4, <1>5, <1>6, QuietInd, FeedTyped DEF stream

LEMMA generator_raisesInd ==
  ASSUME ConvInd, generator_raises
  PROVE  ConvInd'
<1>1. pc = "read" /\ leave_corrections
  BY DEF generator_raises, raw_correction_raises
<1>2. DgpsInd' /\ pc' = "idle" /\ epoch' = epoch
  BY <1>1, leave_correctionsInd DEF ConvInd, leave_corrections
<1>3. stage # "type1"
  BY <1>1 DEF ConvInd, StreamInv, ConvTypeOK
<1>4. frames' = <<>> /\ UNCHANGED <<stage, seq, last_type3_tow, seed, feed, fed, failures, since>>
  BY DEF generator_raises
<1>5. since' \in Nat /\ since' <= epoch' /\ fed' \in Nat
  BY <1>2, <1>4 DEF ConvInd, StreamInv, ConvTypeOK
<1> QED
  BY <1>2, <1>3, <1>4, <1>5, QuietInd, FeedTyped

LEMMA on_eph_frameInd ==
  ASSUME ConvInd, on_eph_frame
  PROVE  ConvInd'
<1>1. PICK e \in Ephemerides : add_ephemeris(e)
  BY DEF on_eph_frame
<1>2. DgpsInd'
  BY <1>1, add_ephemerisInd DEF ConvInd
<1> QED
  BY <1>1, <1>2, QuietInd, FeedTyped
     DEF ConvInd, StreamInv, ConvTypeOK, StageInv, on_eph_frame, add_ephemeris, stream, local

LEMMA on_no_correctionsInd ==
  ASSUME ConvInd, on_no_corrections
  PROVE  ConvInd'
<1>1. DgpsInd' /\ pc' = "idle" /\ frames # <<>>
  BY leave_correctionsInd
     DEF ConvInd, StreamInv, StageInv, on_no_corrections, return, leave_corrections
<1>2. frames' \in Seq(Frame) /\ fed' \in Nat /\ since' \in Nat
  BY <1>1, HeadFrame DEF ConvInd, StreamInv, ConvTypeOK, on_no_corrections
<1>3. epoch' = epoch /\ since' = since /\ since <= epoch /\ stage # "type1"
  BY DEF ConvInd, StreamInv, ConvTypeOK, on_no_corrections, return, leave_corrections
<1> QED
  BY <1>1, <1>2, <1>3, QuietInd, FeedTyped DEF on_no_corrections

-----------------------------------------------------------------------------
\* DivMod for the week, as a choice of quotient and remainder.
LEMMA WeekDivMod ==
  ASSUME NEW x \in Int
  PROVE  \E d \in Int, r \in 0 .. Week - 1 : x = Week * d + r /\ x % Week = r
<1>1. Week \in Nat \ {0}
  BY WeekAssumption
<1>2. /\ x \div Week \in Int /\ x % Week \in 0 .. Week - 1
      /\ x = Week * (x \div Week) + (x % Week)
  BY <1>1, DivMod
<1> QED
  BY <1>2

\* Reducing two times to the week and subtracting never gives more than the
\* time between them.
LEMMA ElapsedInWeek ==
  ASSUME NEW s \in Nat, NEW t \in Nat, s <= t
  PROVE  ((t % Week) - (s % Week)) % Week <= t - s
<1>0. s \in Int /\ t \in Int /\ t - s \in Int
  OBVIOUS
<1>1. PICK d \in Int, r \in 0 .. Week - 1 : s = Week * d + r /\ s % Week = r
  BY <1>0, WeekDivMod
<1>2. PICK e \in Int, q \in 0 .. Week - 1 : t = Week * e + q /\ t % Week = q
  BY <1>0, WeekDivMod
<1>3. q - r \in Int /\ e - d \in Int /\ t - s = (q - r) + Week * (e - d)
  BY <1>1, <1>2, WeekAssumption
<1>4. (t - s) % Week = (q - r) % Week
  BY <1>3, ModShift, WeekAssumption
<1>5. PICK f \in Int, m \in 0 .. Week - 1 : t - s = Week * f + m /\ (t - s) % Week = m
  BY <1>0, WeekDivMod
<1>6. f >= 0
  <2>1. Week \in Nat \ {0} /\ t - s >= 0
    BY WeekAssumption
  <2>2. CASE f <= -1
    <3>1. Week * f <= -Week
      BY <2>1, <2>2
    <3> QED
      BY <1>5, <2>1, <3>1
  <2> QED
    BY <2>2
<1>7. Week * f >= 0
  BY <1>6, WeekAssumption
<1> QED
  BY <1>1, <1>2, <1>4, <1>5, <1>7, WeekAssumption

\* publish appends a message that continues the chain and the numbering.
LEMMA PublishInd ==
  ASSUME ConvInd, NEW type \in {1, 3}, out # <<>>,
         publish(Message(type)), seq' = next_seq, failures' = failures
  PROVE  /\ seq' \in 0 .. 7 /\ seed' \in Seeds /\ feed' \in Seq(MessageSet)
         /\ feed' = Append(feed, Message(type))
         /\ Message(type).tow = Message(type).at % Week
         /\ ParityChain' /\ SeqSkipsOnlyFailures'
<1> DEFINE m == Message(type)
<1>1. feed \in Seq(MessageSet) /\ seq \in 0 .. 7 /\ failures \in Nat /\ seed \in Seeds
  BY FeedTyped DEF ConvInd, StreamInv, ConvTypeOK
<1>2. next_seq \in 0 .. 7
  BY <1>1 DEF next_seq
<1>3. /\ base \in Stations /\ epoch \in Nat /\ since \in Nat /\ tow \in 0 .. Week - 1
      /\ tow = epoch % Week
  BY FeedTyped DEF ConvInd, DgpsInd, DgpsTypeOK, CallInv
<1>4. m \in MessageSet /\ m.to \in Seeds
  BY <1>1, <1>2, <1>3, ConverterAssumption DEF Message, MessageSet
<1>5. m.from = seed /\ m.seq = next_seq /\ m.fails = failures /\ m.tow = tow /\ m.at = epoch
  BY DEF Message
<1>6. feed' = Append(feed, m) /\ seed' = m.to
  BY DEF publish
<1> HIDE DEF m
<1>7. /\ Len(feed') = Len(feed) + 1 /\ DOMAIN feed' = 1 .. Len(feed) + 1
      /\ \A i \in 1 .. Len(feed) : feed'[i] = feed[i]
      /\ feed'[Len(feed) + 1] = m /\ Len(feed) \in Nat /\ DOMAIN feed = 1 .. Len(feed)
  BY <1>1, <1>4, <1>6
<1>8. ParityChain'
  <2>1. \A i \in 1 .. Len(feed) - 1 : feed[i + 1].from = feed[i].to
    BY DEF ConvInd, StreamInv, ParityChain
  <2>2. feed # <<>> => feed[1].from = Seed0 /\ seed = feed[Len(feed)].to
    BY DEF ConvInd, StreamInv, ParityChain
  <2>3. feed = <<>> => seed = Seed0
    BY DEF ConvInd, StreamInv, ParityChain
  <2>4. ASSUME NEW i \in 1 .. Len(feed) PROVE feed'[i + 1].from = feed'[i].to
    <3>1. CASE i < Len(feed)
      BY <1>7, <2>1, <3>1
    <3>2. CASE i = Len(feed)
      BY <1>1, <1>5, <1>7, <2>2, <3>2
    <3>3. i < Len(feed) \/ i = Len(feed)
      <4>1. Len(feed) \in Nat
        BY <1>1
      <4> QED
        BY <4>1
    <3> QED
      BY <3>1, <3>2, <3>3
  <2>5. feed'[1].from = Seed0 /\ seed' = feed'[Len(feed')].to
    <3>1. CASE feed = <<>>
      BY <1>5, <1>6, <1>7, <2>3, <3>1
    <3>2. CASE feed # <<>>
      BY <1>1, <1>5, <1>6, <1>7, <2>2, <3>2
    <3> QED
      BY <3>1, <3>2
  <2>6. feed' # <<>> /\ Len(feed') - 1 = Len(feed)
    BY <1>1, <1>4, <1>6, <1>7
  <2>7. \A i \in 1 .. Len(feed') - 1 : feed'[i + 1].from = feed'[i].to
    BY <2>4, <2>6
  <2> QED
    BY <2>5, <2>6, <2>7 DEF ParityChain
<1>9. SeqSkipsOnlyFailures'
  <2>1. \A i \in 1 .. Len(feed) : feed[i].seq = (i + feed[i].fails) % 8
    BY <1>7 DEF ConvInd, StreamInv, SeqSkipsOnlyFailures
  <2>2. next_seq = (Len(feed) + 1 + failures) % 8
    BY <1>1, <1>7 DEF next_seq, ConvInd, StreamInv, SeqSkipsOnlyFailures
  <2>3. ASSUME NEW i \in DOMAIN feed' PROVE feed'[i].seq = (i + feed'[i].fails) % 8
    <3>1. CASE i \in 1 .. Len(feed)
      BY <1>7, <2>1, <3>1
    <3>2. CASE i = Len(feed) + 1
      BY <1>5, <1>7, <2>2, <3>2
    <3> QED
      BY <1>7, <3>1, <3>2
  <2> QED
    BY <1>7, <2>2, <2>3 DEF SeqSkipsOnlyFailures
<1> QED
  BY <1>1, <1>2, <1>3, <1>4, <1>5, <1>6, <1>8, <1>9 DEF m
LEMMA maybe_emit_type3Ind ==
  ASSUME ConvInd, maybe_emit_type3
  PROVE  ConvInd'
<1>1. DgpsInd'
  BY StutterInd DEF ConvInd, maybe_emit_type3
<1>2. /\ UNCHANGED <<epoch, tow, out, pc, frames, fed, since, failures>>
      /\ out # <<>> /\ stage' = "type1" /\ pc = "returned"
  BY DEF maybe_emit_type3, dgpsVars, local, ghost
<1>3. /\ DgpsTypeOK' /\ frames' \in Seq(Frame) /\ frames' # <<>> /\ fed' \in Nat
      /\ failures' \in Nat /\ since' \in Nat /\ since' <= epoch'
  BY <1>1, <1>2 DEF ConvInd, DgpsInd, StreamInv, StageInv, ConvTypeOK
<1>4. Type3Interval \in Nat \ {0}
  BY ConverterAssumption
<1>5. CASE ~Type3Due
  <2>1. UNCHANGED <<seq, last_type3_tow, seed, feed>>
    BY <1>5 DEF maybe_emit_type3
  <2>2. ConvTypeOK'
    BY <1>2, <1>3, <2>1 DEF ConvInd, StreamInv, ConvTypeOK
  <2>3. StageInv'
    <3>1. last_type3_tow # None /\ ~ (tow - last_type3_tow) % Week >= Type3Interval
      BY <1>5 DEF Type3Due
    <3>2. tow - last_type3_tow \in Int
      BY <3>1, FeedTyped, WeekAssumption DEF ConvInd, StreamInv, ConvTypeOK
    <3>3. (tow - last_type3_tow) % Week \in Int
      BY <3>2, WeekDivMod
    <3> QED
      BY <1>2, <1>3, <1>4, <2>1, <3>1, <3>3 DEF StageInv
  <2>4. (Type3Inv /\ ParityChain /\ SeqSkipsOnlyFailures)'
    BY <1>2, <2>1 DEF ConvInd, StreamInv, Type3Inv, ParityChain, SeqSkipsOnlyFailures
  <2>5. (Type3PrecedesType1 /\ Type3NotTooOften)'
    BY <2>1 DEF ConvInd, StreamInv, Type3PrecedesType1, Type3NotTooOften
  <2> QED
    BY <1>1, <2>2, <2>3, <2>4, <2>5 DEF ConvInd, StreamInv
<1>6. CASE Type3Due
  <2> DEFINE m == Message(3)
  <2>1. publish(Message(3)) /\ seq' = next_seq /\ last_type3_tow' = tow
    BY <1>6 DEF maybe_emit_type3
  <2>2. /\ seq' \in 0 .. 7 /\ seed' \in Seeds /\ feed' \in Seq(MessageSet)
        /\ feed' = Append(feed, m) /\ m.tow = m.at % Week
        /\ ParityChain' /\ SeqSkipsOnlyFailures'
    BY <1>2, <2>1, PublishInd
  <2>3. tow \in 0 .. Week - 1 /\ tow \in Int /\ epoch \in Nat
    BY FeedTyped, WeekAssumption
  <2>4. last_type3_tow' \in 0 .. Week - 1 /\ last_type3_tow' # None
    BY <2>1, <2>3, DgpsAssumption
  <2>5. ConvTypeOK'
    BY <1>2, <1>3, <2>2, <2>4 DEF ConvTypeOK
  <2>6. StageInv'
    <3>1. (tow - tow) % Week = 0
      BY <2>3, WeekAssumption
    <3> QED
      BY <1>2, <1>3, <1>4, <2>1, <2>4, <3>1 DEF StageInv
  <2>7. m.type = 3 /\ m.tow = tow /\ m.at = epoch
    BY DEF Message
  <2> HIDE DEF m
  <2>8. /\ Len(feed) \in Nat /\ DOMAIN feed = 1 .. Len(feed) /\ DOMAIN feed' = 1 .. Len(feed) + 1
        /\ \A i \in 1 .. Len(feed) : feed'[i] = feed[i]
        /\ feed'[Len(feed) + 1] = m
    BY <2>2, FeedTyped
  <2>9. \A i \in DOMAIN feed : /\ feed[i].tow = feed[i].at % Week
                               /\ feed[i].at <= epoch /\ feed[i].at \in Nat
    BY FeedTyped DEF ConvInd, StreamInv, Type3Inv
  <2>10. \A i \in DOMAIN feed' : /\ feed'[i].tow = feed'[i].at % Week
                                 /\ feed'[i].at <= epoch
    BY <2>2, <2>3, <2>7, <2>8, <2>9
  <2>11. Type3Inv'
    <3>1. \E j \in DOMAIN feed' : j = Len(feed) + 1
      BY <2>8
    <3> QED
      BY <1>2, <2>1, <2>4, <2>7, <2>8, <2>10, <3>1 DEF Type3Inv
  <2>12. Type3PrecedesType1'
    <3>1. ASSUME NEW i \in DOMAIN feed', feed'[i].type = 1
          PROVE  \E j \in 1 .. i - 1 :
                   feed'[j].type = 3 /\ (feed'[i].tow - feed'[j].tow) % Week < Type3Interval
      <4>1. i \in 1 .. Len(feed)
        BY <2>7, <2>8, <3>1
      <4>2. PICK j \in 1 .. i - 1 :
              feed[j].type = 3 /\ (feed[i].tow - feed[j].tow) % Week < Type3Interval
        BY <2>8, <3>1, <4>1 DEF ConvInd, StreamInv, Type3PrecedesType1
      <4>3. j \in 1 .. Len(feed)
        BY <2>8, <4>1
      <4> QED
        BY <2>8, <4>1, <4>2, <4>3
    <3> QED
      BY <3>1 DEF Type3PrecedesType1
  <2>13. \A i \in DOMAIN feed : feed[i].type = 3 => epoch - feed[i].at >= Type3Interval
    <3>1. ASSUME NEW i \in DOMAIN feed, feed[i].type = 3
          PROVE  epoch - feed[i].at >= Type3Interval
      <4>1. PICK j \in DOMAIN feed : /\ feed[j].type = 3 /\ feed[j].tow = last_type3_tow
                                     /\ feed[i].at <= feed[j].at
        BY <3>1 DEF ConvInd, StreamInv, Type3Inv
      <4>2. (tow - feed[j].tow) % Week >= Type3Interval
        <5>1. last_type3_tow # None
          BY <3>1 DEF ConvInd, StreamInv, Type3Inv
        <5> QED
          BY <1>6, <4>1, <5>1 DEF Type3Due
      <4>3. tow = epoch % Week
        BY <1>2 DEF ConvInd, DgpsInd, CallInv
      <4>4. (tow - feed[j].tow) % Week <= epoch - feed[j].at
        BY <2>3, <2>9, <4>3, ElapsedInWeek
      <4>5. (tow - feed[j].tow) % Week \in Int
        <5>1. feed[j].tow \in Int
          BY FeedTyped, WeekAssumption DEF MessageSet
        <5>2. tow - feed[j].tow \in Int
          BY <2>3, <5>1
        <5> QED
          BY <5>2, WeekDivMod
      <4>6. epoch - feed[j].at >= Type3Interval
        BY <1>4, <2>3, <2>9, <4>2, <4>4, <4>5
      <4> QED
        BY <1>4, <2>3, <2>9, <4>1, <4>6
    <3> QED
      BY <3>1
  <2>14. Type3NotTooOften'
    <3>1. ASSUME NEW i \in DOMAIN feed', NEW j \in DOMAIN feed',
                 i < j, feed'[i].type = 3, feed'[j].type = 3
          PROVE  feed'[j].at - feed'[i].at >= Type3Interval
      <4>1. i \in 1 .. Len(feed)
        BY <2>8, <3>1
      <4>2. CASE j \in 1 .. Len(feed)
        BY <2>8, <3>1, <4>1, <4>2 DEF ConvInd, StreamInv, Type3NotTooOften
      <4>3. CASE j = Len(feed) + 1
        BY <2>7, <2>8, <2>13, <3>1, <4>1, <4>3
      <4> QED
        BY <2>8, <4>2, <4>3
    <3> QED
      BY <3>1 DEF Type3NotTooOften
  <2> QED
    BY <1>1, <2>2, <2>5, <2>6, <2>11, <2>12, <2>14 DEF ConvInd, StreamInv
<1> QED
  BY <1>5, <1>6

LEMMA emit_type1Ind ==
  ASSUME ConvInd, emit_type1
  PROVE  ConvInd'
<1>1. DgpsInd'
  BY leave_correctionsInd DEF ConvInd, emit_type1, return
<1>2. /\ stage = "type1" /\ stage' = "frame" /\ pc' = "idle" /\ epoch' = epoch
      /\ seq' = next_seq /\ UNCHANGED <<last_type3_tow, fed, since>>
  BY DEF emit_type1, return, leave_corrections
<1>3. out # <<>> /\ frames # <<>>
  BY <1>2 DEF ConvInd, StreamInv, ConvTypeOK, StageInv
<1>4. /\ frames' \in Seq(Frame)
      /\ DgpsTypeOK' /\ fed' \in Nat /\ since' \in Nat /\ since' <= epoch'
      /\ last_type3_tow' \in 0 .. Week - 1 \cup {None} /\ next_seq \in 0 .. 7
  <2>1. Tail(frames) \in Seq(Frame)
    BY <1>3, HeadFrame
  <2>2. next_seq \in 0 .. 7
    BY FeedTyped DEF next_seq
  <2>3. frames' \in Seq(Frame)
    <3>1. frames' = Tail(frames) \/ frames' = <<>>
      BY DEF emit_type1
    <3>2. <<>> \in Seq(Frame)
      OBVIOUS
    <3> QED
      BY <2>1, <3>1, <3>2
  <2>4. DgpsTypeOK'
    BY <1>1 DEF DgpsInd
  <2> QED
    BY <1>2, <2>2, <2>3, <2>4 DEF ConvInd, StreamInv, ConvTypeOK
<1>5. StageInv'
  BY <1>2 DEF StageInv
<1>6. CASE ~Encodable(out)
  <2>1. failures' = failures + 1 /\ UNCHANGED <<seed, feed>>
    BY <1>6 DEF emit_type1
  <2>2. ConvTypeOK'
    BY <1>2, <1>4, <2>1, FeedTyped DEF ConvInd, StreamInv, ConvTypeOK
  <2>3. SeqSkipsOnlyFailures'
    <3>1. seq = (Len(feed) + failures) % 8 /\ Len(feed) \in Nat /\ failures \in Nat
      BY FeedTyped DEF ConvInd, StreamInv, SeqSkipsOnlyFailures
    <3>2. seq' = (Len(feed) + (failures + 1)) % 8
      BY <1>2, <3>1 DEF next_seq
    <3> QED
      BY <2>1, <3>2 DEF ConvInd, StreamInv, SeqSkipsOnlyFailures
  <2>4. (Type3Inv /\ ParityChain /\ Type3PrecedesType1 /\ Type3NotTooOften)'
    BY <1>2, <2>1 DEF ConvInd, StreamInv, Type3Inv, ParityChain, Type3PrecedesType1, Type3NotTooOften
  <2> QED
    BY <1>1, <1>5, <2>2, <2>3, <2>4 DEF ConvInd, StreamInv
<1>7. CASE Encodable(out)
  <2> DEFINE m == Message(1)
  <2>1. publish(Message(1)) /\ failures' = failures
    BY <1>7 DEF emit_type1
  <2>2. /\ seq' \in 0 .. 7 /\ seed' \in Seeds /\ feed' \in Seq(MessageSet)
        /\ feed' = Append(feed, m) /\ m.tow = m.at % Week
        /\ ParityChain' /\ SeqSkipsOnlyFailures'
    BY <1>2, <1>3, <2>1, PublishInd
  <2>3. ConvTypeOK'
    BY <1>2, <1>4, <2>1, <2>2, FeedTyped DEF ConvTypeOK
  <2>4. m.type = 1 /\ m.tow = tow /\ m.at = epoch
    BY DEF Message
  <2> HIDE DEF m
  <2>5. /\ Len(feed) \in Nat /\ DOMAIN feed = 1 .. Len(feed) /\ DOMAIN feed' = 1 .. Len(feed) + 1
        /\ \A i \in 1 .. Len(feed) : feed'[i] = feed[i]
        /\ feed'[Len(feed) + 1] = m
    BY <2>2, FeedTyped
  <2>6. \A i \in DOMAIN feed : feed[i].tow = feed[i].at % Week /\ feed[i].at <= epoch
    BY DEF ConvInd, StreamInv, Type3Inv
  <2>7. \A i \in DOMAIN feed' : feed'[i].tow = feed'[i].at % Week /\ feed'[i].at <= epoch
    BY <2>2, <2>4, <2>5, <2>6, FeedTyped
  <2>8. Type3Inv'
    <3>1. ASSUME NEW j \in DOMAIN feed PROVE j \in DOMAIN feed' /\ feed'[j] = feed[j]
      BY <2>5
    <3>2. \A i \in DOMAIN feed' : feed'[i].type = 3 => i \in DOMAIN feed
      BY <2>4, <2>5
    <3> QED
      BY <1>2, <2>7, <3>1, <3>2 DEF ConvInd, StreamInv, Type3Inv
  <2>9. Type3PrecedesType1'
    <3>1. ASSUME NEW i \in DOMAIN feed', feed'[i].type = 1
          PROVE  \E j \in 1 .. i - 1 :
                   feed'[j].type = 3 /\ (feed'[i].tow - feed'[j].tow) % Week < Type3Interval
      <4>1. CASE i \in 1 .. Len(feed)
        <5>1. PICK j \in 1 .. i - 1 :
                feed[j].type = 3 /\ (feed[i].tow - feed[j].tow) % Week < Type3Interval
          BY <2>5, <3>1, <4>1 DEF ConvInd, StreamInv, Type3PrecedesType1
        <5>2. j \in 1 .. Len(feed)
          BY <2>5, <4>1
        <5> QED
          BY <2>5, <4>1, <5>1, <5>2
      <4>2. CASE i = Len(feed) + 1
        <5>1. last_type3_tow # None /\ (tow - last_type3_tow) % Week < Type3Interval
          BY <1>2 DEF ConvInd, StreamInv, StageInv
        <5>2. PICK j \in DOMAIN feed : feed[j].type = 3 /\ feed[j].tow = last_type3_tow
          BY <5>1 DEF ConvInd, StreamInv, Type3Inv
        <5>3. j \in 1 .. i - 1 /\ feed'[j] = feed[j]
          BY <2>5, <4>2
        <5> QED
          BY <2>4, <2>5, <4>2, <5>1, <5>2, <5>3
      <4> QED
        BY <2>5, <4>1, <4>2
    <3> QED
      BY <3>1 DEF Type3PrecedesType1
  <2>10. Type3NotTooOften'
    <3>1. \A i \in DOMAIN feed' : feed'[i].type = 3 => i \in DOMAIN feed /\ feed'[i] = feed[i]
      BY <2>4, <2>5
    <3> QED
      BY <3>1 DEF ConvInd, StreamInv, Type3NotTooOften
  <2> QED
    BY <1>1, <1>5, <2>2, <2>3, <2>8, <2>9, <2>10 DEF ConvInd, StreamInv
<1> QED
  BY <1>6, <1>7

LEMMA ConvStepInd == ConvInd /\ [ConvNext]_convVars => ConvInd'
<1> SUFFICES ASSUME ConvInd, [ConvNext]_convVars PROVE ConvInd'
  OBVIOUS
<1>1. CASE UNCHANGED convVars
  <2>1. DgpsInd'
    BY <1>1, StutterInd DEF ConvInd, convVars
  <2>2. UNCHANGED <<stream, since, epoch, pc, out, tow>>
    BY <1>1 DEF convVars, dgpsVars, local, ghost
  <2> QED
    BY <2>1, <2>2, QuietInd, FeedTyped DEF ConvInd, StreamInv, ConvTypeOK, StageInv, stream
<1> QED
  BY <1>1, feed_obsInd, on_ignored_frameInd, on_broken_frameInd, on_station_frameInd,
     on_msm7_frameInd, generatorInd, generator_raisesInd, on_eph_frameInd, on_no_correctionsInd, maybe_emit_type3Ind,
     emit_type1Ind
     DEF ConvNext

-----------------------------------------------------------------------------
\* Where the handling of a frame stands and what has been published determine
\* the sequence number, the parity seed and _last_type3_tow, whatever the
\* frames received and whichever encodings raised.
THEOREM ConvInvariant == ConvSpec => []ConvInd
BY ConvInitInd, ConvStepInd, PTL DEF ConvSpec

\* Every variable of service.py's Converter and of its generator keeps its type.
THEOREM ConvTyping == ConvSpec => []ConvTypeOK
<1>1. ConvInd => ConvTypeOK
  BY DEF ConvInd, StreamInv
<1> QED
  BY <1>1, ConvInvariant, PTL

\* rtcm2.py's parity seed chains through every message published, Type 3 and
\* Type 1 alike, over any number of failed encodings in between.
THEOREM ParityChained == ConvSpec => []ParityChain
<1>1. ConvInd => ParityChain
  BY DEF ConvInd, StreamInv
<1> QED
  BY <1>1, ConvInvariant, PTL

\* A gap in the sequence numbers is exactly the encodings that raised.
THEOREM SequenceNumbers == ConvSpec => []SeqSkipsOnlyFailures
<1>1. ConvInd => SeqSkipsOnlyFailures
  BY DEF ConvInd, StreamInv
<1> QED
  BY <1>1, ConvInvariant, PTL

\* service.py:116-118: a Type 1 message always finds a Type 3 message of the
\* last Type3Interval of time of week before it on the feed.
THEOREM BaseAdvertised == ConvSpec => []Type3PrecedesType1
<1>1. ConvInd => Type3PrecedesType1
  BY DEF ConvInd, StreamInv
<1> QED
  BY <1>1, ConvInvariant, PTL

\* service.py:113: two Type 3 messages are Type3Interval of stream apart,
\* although the code compares times of week only.
THEOREM BaseNotTooOften == ConvSpec => []Type3NotTooOften
<1>1. ConvInd => Type3NotTooOften
  BY DEF ConvInd, StreamInv
<1> QED
  BY <1>1, ConvInvariant, PTL

-----------------------------------------------------------------------------
\* How the base at hand and the time of its last change follow from the feed:
\* what was published since the change carries it, and the last Type 3 message
\* is the one _last_type3_tow is about.
BaseInv ==
  /\ \A i \in DOMAIN feed : feed[i].at > since => feed[i].base = base
  /\ \A j \in DOMAIN feed :
       feed[j].type = 3 /\ (\A k \in j + 1 .. Len(feed) : feed[k].type = 1)
         => feed[j].tow = last_type3_tow
  /\ AdvertisedBaseIsCurrent

\* Within a week, the time between two epochs is that between their times of
\* week, reduced.
LEMMA ElapsedExact ==
  ASSUME NEW s \in Nat, NEW t \in Nat, s <= t, t - s < Week
  PROVE  ((t % Week) - (s % Week)) % Week = t - s
<1>0. s \in Int /\ t \in Int /\ t - s \in Int
  OBVIOUS
<1>1. PICK d \in Int, r \in 0 .. Week - 1 : s = Week * d + r /\ s % Week = r
  BY <1>0, WeekDivMod
<1>2. PICK e \in Int, q \in 0 .. Week - 1 : t = Week * e + q /\ t % Week = q
  BY <1>0, WeekDivMod
<1>3. q - r \in Int /\ e - d \in Int /\ t - s = (q - r) + Week * (e - d)
  BY <1>1, <1>2, WeekAssumption
<1>4. (t - s) % Week = (q - r) % Week
  BY <1>3, ModShift, WeekAssumption
<1>5. t - s \in 0 .. Week - 1
  BY WeekAssumption
<1>6. (t - s) % Week = t - s
  BY <1>5, WeekAssumption
<1> QED
  BY <1>1, <1>2, <1>4, <1>6

LEMMA QuietBase ==
  ASSUME BaseInv, UNCHANGED <<feed, last_type3_tow, base, since>>
  PROVE  BaseInv'
BY DEF BaseInv, AdvertisedBaseIsCurrent

\* A new position is in force from now on, when nothing has been published
\* with it; the same position again changes nothing.
LEMMA StationBase ==
  ASSUME ConvInd, BaseInv, on_station_frame
  PROVE  BaseInv'
<1>1. /\ UNCHANGED <<feed, last_type3_tow, epoch>>
      /\ since' = IF base' = base THEN since ELSE epoch
  BY DEF on_station_frame, set_station, local, ghost
<1>2. CASE base' = base
  BY <1>1, <1>2, QuietBase
<1>3. CASE base' # base
  <2>1. \A i \in DOMAIN feed : ~(feed[i].at > epoch)
    <3>1. \A i \in DOMAIN feed : feed[i].at <= epoch /\ feed[i].at \in Nat
      BY FeedTyped DEF ConvInd, StreamInv, Type3Inv
    <3> QED
      BY <3>1, FeedTyped
  <2> QED
    BY <1>1, <1>3, <2>1 DEF BaseInv, AdvertisedBaseIsCurrent
<1> QED
  BY <1>2, <1>3

\* A Type 1 message is published within Type3Interval of the last Type 3; if
\* the position is older than that, so is the Type 3 message younger than it.
LEMMA PublishBase ==
  ASSUME ConvInd, BaseInv, NEW type \in {1, 3}, publish(Message(type)),
         UNCHANGED <<base, since>>,
         type = 3 => last_type3_tow' = tow,
         type = 1 => last_type3_tow' = last_type3_tow /\ stage = "type1"
  PROVE  BaseInv'
<1>1. PICK m : m = Message(type)
  OBVIOUS
<1>2. m.type = type /\ m.tow = tow /\ m.at = epoch /\ m.base = base /\ m.since = since
  BY <1>1 DEF Message
<1>3. /\ Len(feed) \in Nat /\ Len(feed') = Len(feed) + 1
      /\ DOMAIN feed = 1 .. Len(feed) /\ DOMAIN feed' = 1 .. Len(feed) + 1
      /\ \A i \in 1 .. Len(feed) : feed'[i] = feed[i]
      /\ feed'[Len(feed) + 1] = m
  BY <1>1, FeedTyped DEF publish
<1>4. \A i \in DOMAIN feed' : feed'[i].at > since => feed'[i].base = base
  BY <1>2, <1>3 DEF BaseInv
<1>5. ASSUME NEW j \in DOMAIN feed', feed'[j].type = 3,
             \A k \in j + 1 .. Len(feed') : feed'[k].type = 1
      PROVE  feed'[j].tow = last_type3_tow'
  <2>1. CASE type = 3
    <3>1. j = Len(feed) + 1
      <4>1. feed'[Len(feed) + 1].type # 1
        BY <1>2, <1>3, <2>1
      <4>2. Len(feed) + 1 \notin j + 1 .. Len(feed) + 1
        BY <1>3, <1>5, <4>1
      <4> QED
        BY <1>3, <4>2
    <3> QED
      BY <1>2, <1>3, <2>1, <3>1
  <2>2. CASE type = 1
    <3>1. j \in 1 .. Len(feed)
      BY <1>2, <1>3, <1>5, <2>2
    <3>2. \A k \in j + 1 .. Len(feed) : k \in j + 1 .. Len(feed') /\ k \in 1 .. Len(feed)
      BY <1>3, <3>1
    <3>3. \A k \in j + 1 .. Len(feed) : feed[k].type = 1
      BY <1>3, <1>5, <3>2
    <3> QED
      BY <1>3, <1>5, <2>2, <3>1, <3>3 DEF BaseInv
  <2> QED
    BY <2>1, <2>2
<1>6. ASSUME NEW i \in DOMAIN feed', NEW j \in DOMAIN feed',
             j < i, feed'[j].type = 3, feed'[i].type = 1,
             \A k \in j + 1 .. i : feed'[k].type = 1,
             feed'[i].at - feed'[i].since >= Type3Interval,
             feed'[i].at - feed'[j].at < Week
      PROVE  feed'[j].base = feed'[i].base
  <2>1. j \in 1 .. Len(feed) /\ feed'[j] = feed[j]
    BY <1>3, <1>6
  <2>2. CASE i \in 1 .. Len(feed)
    <3>1. \A k \in j + 1 .. i : k \in 1 .. Len(feed)
      BY <1>3, <2>1, <2>2
    <3>2. \A k \in j + 1 .. i : feed[k].type = 1
      BY <1>3, <1>6, <3>1
    <3>3. feed'[i] = feed[i]
      BY <1>3, <2>2
    <3> QED
      BY <1>3, <1>6, <2>1, <2>2, <3>2, <3>3 DEF BaseInv, AdvertisedBaseIsCurrent
  <2>3. CASE i = Len(feed) + 1
    <3>1. type = 1 /\ feed'[i] = m
      BY <1>2, <1>3, <1>6, <2>3
    <3>2. feed[j].tow = last_type3_tow
      <4>1. feed'[j].tow = last_type3_tow'
        BY <1>3, <1>5, <1>6, <2>3
      <4> QED
        BY <2>1, <3>1, <4>1
    <3>3. (tow - last_type3_tow) % Week < Type3Interval
      BY <3>1 DEF ConvInd, StreamInv, StageInv
    <3>4. tow = epoch % Week
      <4>1. stage = "type1" => pc = "returned"
        BY DEF ConvInd, StreamInv, ConvTypeOK
      <4> QED
        BY <3>1, <4>1 DEF ConvInd, DgpsInd, CallInv
    <3>5. PICK a \in Nat : /\ a = feed[j].at /\ a <= epoch /\ feed[j].tow = a % Week
      BY <1>3, <2>1, FeedTyped DEF ConvInd, StreamInv, Type3Inv
    <3>6. epoch \in Nat /\ since \in Nat /\ Type3Interval \in Nat
      BY FeedTyped, ConverterAssumption
    <3>7. epoch - a < Week /\ epoch - since >= Type3Interval
      BY <1>2, <1>6, <2>1, <3>1, <3>5
    <3>8. ((epoch % Week) - (a % Week)) % Week = epoch - a
      BY <3>5, <3>6, <3>7, ElapsedExact
    <3>9. epoch - a < Type3Interval
      BY <3>2, <3>3, <3>4, <3>5, <3>8
    <3>10. a > since
      BY <3>6, <3>7, <3>9
    <3>11. feed[j].base = base
      BY <1>3, <2>1, <3>5, <3>10 DEF BaseInv
    <3> QED
      BY <1>2, <2>1, <3>1, <3>11
  <2> QED
    BY <1>3, <2>2, <2>3
<1> QED
  BY <1>4, <1>5, <1>6 DEF BaseInv, AdvertisedBaseIsCurrent

LEMMA BaseStep == ConvInd /\ BaseInv /\ [ConvNext]_convVars => BaseInv'
<1> SUFFICES ASSUME ConvInd, BaseInv, [ConvNext]_convVars PROVE BaseInv'
  OBVIOUS
<1>1. CASE UNCHANGED convVars
  BY <1>1, QuietBase DEF convVars, stream, dgpsVars, gen
<1>2. CASE (\E c \in Chunks : feed_obs(c)) \/ on_ignored_frame \/ on_broken_frame
  BY <1>2, QuietBase DEF feed_obs, on_ignored_frame, on_broken_frame, dgpsVars, gen
<1>3. CASE on_station_frame
  BY <1>3, StationBase
<1>4. CASE on_msm7_frame
  <2>1. base' = base
    BY <1>4 DEF on_msm7_frame, corrections, gen
  <2> QED
    BY <1>4, <2>1, QuietBase DEF on_msm7_frame, stream
<1>5. CASE generator
  <2>1. base' = base
    BY <1>5 DEF generator, Computing, read_ephemeris, common_terms, emit_correction, gen
  <2> QED
    BY <1>5, <2>1, QuietBase DEF generator, stream
<1>6. CASE on_eph_frame
  <2>1. base' = base
    BY <1>6 DEF on_eph_frame, add_ephemeris
  <2> QED
    BY <1>6, <2>1, QuietBase DEF on_eph_frame, stream
<1>7. CASE on_no_corrections
  <2>1. base' = base
    BY <1>7 DEF on_no_corrections, return, leave_corrections, gen
  <2> QED
    BY <1>7, <2>1, QuietBase DEF on_no_corrections
<1>8. CASE maybe_emit_type3
  <2>1. UNCHANGED <<base, since>>
    BY <1>8 DEF maybe_emit_type3, dgpsVars, gen
  <2>2. CASE ~Type3Due
    BY <1>8, <2>1, <2>2, QuietBase DEF maybe_emit_type3
  <2>3. CASE Type3Due
    <3>1. publish(Message(3)) /\ last_type3_tow' = tow
      BY <1>8, <2>3 DEF maybe_emit_type3
    <3> QED
      BY <2>1, <3>1, PublishBase
  <2> QED
    BY <2>2, <2>3
<1>9. CASE emit_type1
  <2>1. UNCHANGED <<base, since, last_type3_tow>> /\ stage = "type1"
    BY <1>9 DEF emit_type1, return, leave_corrections, gen
  <2>2. CASE ~Encodable(out)
    BY <1>9, <2>1, <2>2, QuietBase DEF emit_type1
  <2>3. CASE Encodable(out)
    <3>1. publish(Message(1))
      BY <1>9, <2>3 DEF emit_type1
    <3> QED
      BY <2>1, <3>1, PublishBase
  <2> QED
    BY <2>2, <2>3
<1>10. CASE generator_raises
  <2>1. base' = base
    BY <1>10 DEF generator_raises, raw_correction_raises, leave_corrections, gen
  <2> QED
    BY <1>10, <2>1, QuietBase DEF generator_raises
<1> QED
  BY <1>1, <1>2, <1>3, <1>4, <1>5, <1>6, <1>7, <1>8, <1>9, <1>10 DEF ConvNext

\* service.py:117 looks at elapsed time only, yet the position a rover was told
\* is never out of date by Type3Interval, for any sequence of frames.
THEOREM BaseCurrent == ConvSpec => []AdvertisedBaseIsCurrent
<1>1. ConvInit => BaseInv
  BY DEF ConvInit, BaseInv, AdvertisedBaseIsCurrent
<1>2. BaseInv => AdvertisedBaseIsCurrent
  BY DEF BaseInv
<1> QED
  BY <1>1, <1>2, BaseStep, ConvInvariant, PTL DEF ConvSpec
=============================================================================
