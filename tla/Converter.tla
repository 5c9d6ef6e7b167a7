----------------------------- MODULE Converter -----------------------------
(***************************************************************************)
(* Converter (service.py): the observation thread takes the RTCM3 frames a *)
(* recv completed, keeps the station position, runs the generator for each *)
(* GPS MSM7 epoch and publishes RTCM 2.3 Type 3 and Type 1 messages; the   *)
(* ephemeris thread stores the 1019 messages.  The generator's own steps   *)
(* come from DgpsGenerator, the byte framing is FrameExtractor's.          *)
(*                                                                         *)
(* An exception raised while a frame is handled (its fields are not as     *)
(* expected, raw_correction, the encoder) leaves feed_obs through          *)
(* NtripClient.stream: the frames extracted with it are gone, what was     *)
(* already done (sequence number, Type 3) stays done.                      *)
(*                                                                         *)
(* The RTCM 3 feed, to which feed_obs first publishes every chunk as it    *)
(* is, has no part in the conversion and is not kept here: what publish    *)
(* does with it is Caster's, and it raises nothing.                        *)
(*                                                                         *)
(* Message contents are kept as far as the properties tell them apart: the *)
(* parity seed D29*/D30* is a member of Seeds, and encoding a message with *)
(* a type and a sequence number moves it to ParityAfter(seed, type, seq),  *)
(* a constant operator: nothing here depends on which function it is.      *)
(***************************************************************************)
EXTENDS DgpsGenerator

CONSTANTS Chunks,          \* frame lists one recv may complete
          Type3Interval,   \* _TYPE3_INTERVAL_S
          MaxDataWords,    \* largest count the 5-bit N field holds
          Seeds, Seed0,    \* values of the parity seed, and the encoder's first
          ParityAfter(_, _, _),
          MaxChunks        \* bound on the number of recvs

\* A frame as _on_obs_frame sees it: unparsable or of no interest, one whose
\* fields parse_station or parse_gps_msm7 cannot take, a station position, or
\* an epoch of pseudoranges some time after the previous one.
Frame == [kind : {"ignored", "broken"}]
         \cup [kind : {"station"}, ecef : Stations]
         \cup [kind : {"msm7"}, step : EpochSteps, obs : Observations]

ASSUME ConverterAssumption ==
  /\ Chunks \subseteq Seq(Frame)
  /\ Type3Interval \in Nat \ {0}
  /\ MaxDataWords \in Nat
  /\ Seed0 \in Seeds
  /\ \A s \in Seeds, t \in {1, 3}, n \in 0 .. 7 : ParityAfter(s, t, n) \in Seeds
  /\ MaxChunks \in Nat

VARIABLES frames,          \* frames of the current chunk not handled yet
          stage,           \* "frame", or "type1" once _maybe_emit_type3 is done
          seq,             \* self._seq
          last_type3_tow,  \* self._last_type3_tow
          seed,            \* the encoder's _d29, _d30
          feed,            \* everything published on the RTCM 2.3 feed
          fed,             \* chunks received
          failures,        \* ghost: encodings that raised
          since            \* ghost: time of the last change of the base

stream   == <<frames, stage, seq, last_type3_tow, seed, feed, fed, failures>>
convVars == <<dgpsVars, stream, since>>

-----------------------------------------------------------------------------
\* Mutants: the 3-bit field is not wrapped; 0 is skipped.
next_seq_unbounded == seq + 1
next_seq_no_zero == (seq % 7) + 1

next_seq == (seq + 1) % 8

\* 24-bit words for n satellite records of 40 bits.
DataWords(n) == (40 * n + 23) \div 24

\* Whether _pack_type1_body accepts the corrections.
Encodable(corrs) ==
  /\ \A i \in DOMAIN corrs : corrs[i].prn \in 1 .. 32
  /\ DataWords(Len(corrs)) <= MaxDataWords

\* A message as it leaves the encoder, with ghosts at, base, since and fails.
Message(type) ==
  [type |-> type, seq |-> next_seq, tow |-> tow,
   from |-> seed, to |-> ParityAfter(seed, type, next_seq),
   at |-> epoch, base |-> base, since |-> since, fails |-> failures]

\* Mutant: an encoder of its own for Type 3, so its seed never reaches Type 1.
publish_own_encoder(message) ==
  /\ seed' = IF message.type = 3 THEN seed ELSE message.to
  /\ feed' = Append(feed, message)

publish(message) ==
  /\ seed' = message.to
  /\ feed' = Append(feed, message)

ConvInit ==
  /\ DgpsInit
  /\ frames = <<>> /\ stage = "frame" /\ seq = 0 /\ last_type3_tow = None
  /\ seed = Seed0 /\ feed = <<>> /\ fed = 0 /\ failures = 0 /\ since = 0

\* recv returned data that completes these frames.
feed_obs(chunk) ==
  /\ pc = "idle" /\ frames = <<>> /\ fed < MaxChunks
  /\ frames' = chunk
  /\ fed' = fed + 1
  /\ UNCHANGED <<dgpsVars, stage, seq, last_type3_tow, seed, feed, failures, since>>

\* A parse error is counted and forgotten, another message is not for us.
on_ignored_frame ==
  /\ pc = "idle" /\ frames # <<>> /\ Head(frames).kind = "ignored"
  /\ frames' = Tail(frames)
  /\ UNCHANGED <<dgpsVars, stage, seq, last_type3_tow, seed, feed, fed, failures, since>>

\* parse_station or parse_gps_msm7 raises.
on_broken_frame ==
  /\ pc = "idle" /\ frames # <<>> /\ Head(frames).kind = "broken"
  /\ frames' = <<>>
  /\ UNCHANGED <<dgpsVars, stage, seq, last_type3_tow, seed, feed, fed, failures, since>>

on_station_frame ==
  /\ frames # <<>> /\ Head(frames).kind = "station"
  /\ set_station(Head(frames).ecef)
  /\ since' = IF base' = base THEN since ELSE epoch
  /\ frames' = Tail(frames)
  /\ UNCHANGED <<stage, seq, last_type3_tow, seed, feed, fed, failures>>

on_msm7_frame ==
  /\ frames # <<>> /\ Head(frames).kind = "msm7"
  /\ epoch + Head(frames).step <= MaxTime
  /\ corrections(epoch + Head(frames).step, Head(frames).obs)
  /\ UNCHANGED <<stream, since>>

\* corrections() inside on_msm7_frame, and the ephemeris thread beside it.
generator ==
  /\ Computing
  /\ UNCHANGED <<stream, since>>

\* The exception passes on_msm7_frame.
generator_raises ==
  /\ \E p \in Prns : raw_correction_raises(p)
  /\ frames' = <<>>
  /\ UNCHANGED <<stage, seq, last_type3_tow, seed, feed, fed, failures, since>>

on_eph_frame ==
  /\ \E e \in Ephemerides : add_ephemeris(e)
  /\ UNCHANGED <<stream, since>>

\* No correction, no message.
on_no_corrections ==
  /\ stage = "frame" /\ out = <<>>
  /\ return
  /\ frames' = Tail(frames)
  /\ UNCHANGED <<stage, seq, last_type3_tow, seed, feed, fed, failures, since>>

\* Mutants: > for >=; the elapsed time taken absolute; not reduced to the week.
Type3Due_late == last_type3_tow # None => (tow - last_type3_tow) % Week > Type3Interval
Type3Due_absolute == last_type3_tow # None => Abs(tow - last_type3_tow) >= Type3Interval
Type3Due_rollover == last_type3_tow # None => tow - last_type3_tow >= Type3Interval

Type3Due == last_type3_tow # None => (tow - last_type3_tow) % Week >= Type3Interval

\* _maybe_emit_type3, which finds the base known.
maybe_emit_type3 ==
  /\ pc = "returned" /\ stage = "frame" /\ out # <<>>
  /\ stage' = "type1"
  /\ \/ /\ ~Type3Due
        /\ UNCHANGED <<seq, last_type3_tow, seed, feed>>
     \/ /\ Type3Due
        /\ publish(Message(3))
        /\ seq' = next_seq
        /\ last_type3_tow' = tow
  /\ UNCHANGED <<dgpsVars, frames, fed, failures, since>>

\* encode_type1 and publish; the sequence number is taken before the encoder
\* can raise, the parity seed moves only when it does not.
emit_type1 ==
  /\ stage = "type1"
  /\ stage' = "frame"
  /\ seq' = next_seq
  /\ return
  /\ \/ /\ Encodable(out)
        /\ publish(Message(1))
        /\ frames' = Tail(frames)
        /\ UNCHANGED failures
     \/ /\ ~Encodable(out)
        /\ frames' = <<>>
        /\ failures' = failures + 1
        /\ UNCHANGED <<seed, feed>>
  /\ UNCHANGED <<last_type3_tow, fed, since>>

ConvNext ==
  \/ \E c \in Chunks : feed_obs(c)
  \/ on_ignored_frame
  \/ on_broken_frame
  \/ on_station_frame
  \/ on_msm7_frame
  \/ generator
  \/ generator_raises
  \/ on_eph_frame
  \/ on_no_corrections
  \/ maybe_emit_type3
  \/ emit_type1

ConvSpec == ConvInit /\ [][ConvNext]_convVars

-----------------------------------------------------------------------------
MessageSet ==
  [type : {1, 3}, seq : 0 .. 7, tow : 0 .. Week - 1, from : Seeds, to : Seeds,
   at : Nat, base : Stations, since : Nat, fails : Nat]

ConvTypeOK ==
  /\ DgpsTypeOK
  /\ frames \in Seq(Frame)
  /\ stage \in {"frame", "type1"}
  /\ stage = "type1" => pc = "returned"
  /\ seq \in 0 .. 7
  /\ last_type3_tow \in 0 .. Week - 1 \cup {None}
  /\ seed \in Seeds
  /\ feed \in Seq(MessageSet)
  /\ fed \in Nat /\ failures \in Nat /\ since \in Nat
  /\ since <= epoch

\* rtcm2.py: the D29*/D30* seed chains "across every word and every message":
\* each published message starts from the seed the one before it ended with,
\* Type 3 and Type 1 alike, also past an encoding that raised.
ParityChain ==
  /\ \A i \in 1 .. Len(feed) - 1 : feed[i + 1].from = feed[i].to
  /\ feed # <<>> => feed[1].from = Seed0
  /\ seed = IF feed = <<>> THEN Seed0 ELSE feed[Len(feed)].to

\* The sequence numbers a rover sees advance by one, except across Type 1
\* encodings that raised after taking a number: it misses exactly those.
SeqSkipsOnlyFailures ==
  /\ \A i \in DOMAIN feed : feed[i].seq = (i + feed[i].fails) % 8
  /\ seq = (Len(feed) + failures) % 8

\* A rover that receives a Type 1 message was told the station position
\* less than Type3Interval of stream time before (times of week compared, as
\* in the code: modulo a week), in the same feed.
Type3PrecedesType1 ==
  \A i \in DOMAIN feed : feed[i].type = 1 =>
    \E j \in 1 .. i - 1 : feed[j].type = 3 /\ (feed[i].tow - feed[j].tow) % Week < Type3Interval

\* service.py: a Type 3 message "at most every ~60 s of stream", also across
\* week rollovers and failed encodings, while the stream's time does not go
\* back: an epoch before that of the last Type 3 makes one due at once.
Type3NotTooOften ==
  \A i, j \in DOMAIN feed :
    i < j /\ feed[i].type = 3 /\ feed[j].type = 3 => feed[j].at - feed[i].at >= Type3Interval

\* The last Type 3 before a Type 1 carries the position the corrections were
\* computed for, once that position has been in force for Type3Interval:
\* _maybe_emit_type3 does not look at the position, but a change is never
\* advertised later than that.  It holds while the last Type 3 is less than a
\* week old; after a longer silence elapsed aliases, see Type3PrecedesType1.
AdvertisedBaseIsCurrent ==
  \A i, j \in DOMAIN feed :
    /\ j < i /\ feed[j].type = 3 /\ feed[i].type = 1
    /\ \A k \in j + 1 .. i : feed[k].type = 1
    /\ feed[i].at - feed[i].since >= Type3Interval
    /\ feed[i].at - feed[j].at < Week
    => feed[j].base = feed[i].base

\* service.py: the observations are "per GPS epoch, converted to RTCM 2.3
\* Type 1 corrections": no epoch with corrections fails to be published.
EveryEpochConverted == failures = 0
=============================================================================
