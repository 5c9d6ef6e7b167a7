# A TLA+ model of ntrip-rtcm3-to-rtcm2p3

The program pulls two NTRIP streams from an upstream caster: RTCM 3
observations with the position of a reference station, and broadcast
ephemerides. It serves the observations again unchanged, and converts each GPS
epoch into RTCM 2.3 differential corrections (Type 1, with the station position
as Type 3 about once a minute), on two mounts of its own caster.

This directory models the parts of it that keep state, checks them with TLC on
small instances, and proves the invariants with TLAPS for every value of the
constants. Source paths below are relative to `src/rtcm3to2p3/`.

## 1. Inventory

Threads of a running service (`service.py`, `ntrip.py`): the observation client,
the ephemeris client, one listener per bind address, one handler per accepted
connection, and the main thread, which waits for the stop event.

| part | state | operations | interacts with | what makes it correct |
|---|---|---|---|---|
| `DgpsGenerator` (`dgps.py`) | base, ephemerides, previous raw values | `set_station`, `add_ephemeris`, `corrections` | called by *both* client threads, without a lock | a correction belongs to an observed, healthy, fresh, plausible satellite; its IOD is that of the ephemeris behind it; one bad satellite harms no other |
| `Converter` (`service.py`) | byte buffers, sequence number, time of the last Type 3, the encoder's parity seed | `feed_obs`, `feed_eph` | `recv` of the clients, generator, encoder, feeds | parity chains over all messages; numbers have no unexplained gap; a rover knows the base before it gets corrections |
| framing (`extract_rtcm3_frames`) | the buffer | called on every chunk | `recv` boundaries, reconnects | the frames do not depend on the chunks; nothing is lost while the stream is aligned; bounded buffer |
| `Feed`, `NtripCaster` (`ntrip.py`) | subscriber set, a bounded queue per client, listening sockets, stop flag | `publish`, `subscribe`, `unsubscribe`, `_handle`, `_serve_on`, `stop` | the observation thread publishes (both feeds), handler threads consume | order and completeness for each client; a slow or dead client stalls nobody; `stop` ends every thread |
| `Rtcm2Encoder` (`rtcm2.py`, `parity.py`, `bits.py`) | D29\*/D30\* | `encode_type1`, `encode_type3` | Converter | the bits decode to what was encoded; ranges are respected or refused |
| `NtripClient` (`ntrip.py`) | connection, backoff | `stream` | upstream caster, stop event, Converter | it always reconnects, ends after stop, does not hammer the caster, keeps few sockets open |
| `Service`, `cli.py` | threads | `run`, signal handlers | all of the above | shutdown ends everything (through `Caster.stop` and the client's stop event) |
| `rtcm3_input.py` | none | `parse_*` | pyrtcm | the pseudorange is the L1 C/A one of the right satellite, invalid values are left out |
| `ephemeris.py` orbit and clock | none | `satellite_position`, `satellite_clock_bias` | generator | numerical accuracy |

Hard behaviours, each listed at its line in `PROJECT.json` ("hazards"): the two
client threads interleave inside `corrections()`; times of week wrap, so ages
and intervals are known modulo a week only; an exception in the middle of a
chunk loses the frames behind it but not the state changes before it; a partial
frame survives a reconnect; a header may end early or never; clients come and
go between the copy of the subscriber set and the puts; queues fill up; peers
die silently; the stop flag is only polled.

## 2. Modules

| module | models | state and actions in terms of the code |
|---|---|---|
| `GpsTime` | `_delta_t_week`, `modified_zcount` | pure operators |
| `Median` | `statistics.median` | pure operators, values doubled to stay integer |
| `DgpsGenerator` | `dgps.py` | `corrections` is the call; `read_ephemeris(prn)` one turn of the first loop; `common_terms` what lies between the loops; `emit_correction(prn)` one turn of the second loop, with its second look-up of the ephemeris; `return` gives `out` back, and `raw_correction_raises(prn)` ends the call with the exception of an orbit that cannot be computed (`sqrt_a` = 0, say). `pc` says where the call is. `add_ephemeris` may come between any two of these steps, `set_station` only between calls (same thread) |
| `Converter` | `service.py` `Converter` | `feed_obs` takes the frames a chunk completes; `on_ignored_frame`, `on_station_frame`, `on_msm7_frame` handle the first one, `on_broken_frame` is a `parse_station` or `parse_gps_msm7` that raises; the generator's own steps run inside (`generator`, `generator_raises`); `on_no_corrections`, `maybe_emit_type3` and `emit_type1` are the rest of `_on_obs_frame`. An exception, of a failed encoding too, drops the other frames of the chunk |
| `FrameExtractor` | `extract_rtcm3_frames` and its callers, on bytes | `recv(n)`; `extract_frame` and `extract_done` are the turns of the loop; `handle_frame` / `handle_raises` the calls of `_on_*_frame`; `connect` and `drop_connection` the life of a connection in `NtripClient.stream` |
| `NtripClient` | `NtripClient.stream`, `_connect` | `pc` says where `stream` is: `check` the outer loop, `connect` / `connect_fails` the socket and request, `read_status`, `refuse`, `accept_status`, `read_header`, `header_ends_early` the rest of `_connect`, `connected` its return (backoff reset, old socket dropped), `inner` and `recv` the inner loop, `on_data_returns` / `on_data_raises` the callback, `failed`, `wait_over`, `wait_stopped` the exception handler. `outage` and `header_goes_on` are the upstream, `set_stop` the main thread |
| `Rtcm2Encoder` | `rtcm2.py`, `parity.py`, `bits.py` | `encode(m)` is `encode_type1` or `encode_type3`, down to the bytes; `receive(noise)` one word at the receiver of `tests/test_rtcm2.py` |
| `Rtcm3Input` | `parse_gps_msm7` (`rtcm3_input.py`) | `receive` is pyrtcm decoding a 1077, `on_msm7` the call |
| `LossyFeed` | what a feed promises, abstractly | subscribers join, are offered every message once and in order, take or refuse it, get what they took in order, leave |
| `Caster` | `Feed`, `NtripCaster` | publisher: `publish`, `snapshot` (the copy under the lock), `put(c)`, `publish_returns`; handler: `request` ... `unsubscribe`, with `hpc` its line; listener: `serve_on`, `accept`, `accept_fails`; `leave` is the peer, `stop` is `stop()` |
| `MC*` | instances for TLC | constants only, except `MCManySats`, which also starts in a state where all ephemerides have arrived |
| `*Proofs` | theorems | section 5 |

`Converter` EXTENDS `DgpsGenerator`, which EXTENDS `GpsTime` and `Median`;
the other modules stand alone, except that `Caster` is shown to implement
`LossyFeed`. A chunk in `Converter` is a list of frames; how bytes become frames
is `FrameExtractor`'s subject, and what the parity seed is and how a message
becomes words is that of `Rtcm2Encoder`.

The refinement. `Caster` instantiates `LossyFeed` with a mapping: a client is a
member while its handler is in `get` or `send`; what waits for it is the message
its handler holds and then its queue; it is next offered the current message
until `publish` has put it there or passed it by, and the following one after
that; what it got is what `sendall` sent to a peer still there. So the lock, the
copy of the subscriber set, the order of the puts, timeouts and listeners are
invisible, and `LossyFeed` allows a loss in two ways only: the queue is full, or
the client is dropped. Two details of the code show in the abstract
specification: a client that joins while a message is being published may or may
not get that one, and one message more than the queue holds may wait, the one
being sent.

What is abstracted. The geometry (`raw_correction`) is a constant operator
`RawCorrection`, the parity computation a constant operator `ParityAfter`:
nothing that is stated depends on which functions they are, so the proofs hold
for the real ones, up to floating-point rounding: ranges, corrections and times
are integers in the model (the speed of light is 1, rates are in fixed point).
Messages carry type, sequence number, time and parity seed, not their bits.
Encoding a message and publishing it are one step: one thread does both, and
`publish` raises nothing.
Logging and counters for logging are left out. So is, in `Converter`, the RTCM 3
feed, to which `feed_obs` publishes each chunk as it is before anything else
(`service.py:89`): it does not touch the conversion, `publish` raises nothing,
and what becomes of a message published is `Caster`'s subject, for either feed.
Stream time does not go back from one epoch to the next (`EpochSteps` are
naturals). The code has no check for it: after an epoch older than the last
Type 3 message the elapsed time, taken modulo a week, is nearly a week, and a
Type 3 message goes out at once. Ghost variables (marked so in
the modules) record what a property must remember; no guard reads one, except
for the counters that bound a run (`epoch` with `MaxTime`, `fed` with
`MaxChunks`, `cuts` with `MaxConnects`, `published` with `MaxMessages`, `hits`
with `MaxHits`; `fails` stops counting at `MaxFails`).

`FrameExtractor` takes a stream as bytes with the set of positions where frames
start; `MCFrames` puts them together from frames. `NtripClient` reduces what
the caster sends to lines: a status line of one of four kinds, header fields,
the blank line, body. While the upstream is up it accepts connections, answers
with a good header and keeps the data coming; while it is down anything may
fail or time out, at any of the waits, and a status line or a header may go on
for ever. A connection that fails after its socket was made (TLS, request)
keeps that socket until its exception is gone, as one that fails later does.
`Rtcm2Encoder` has corrections in millimetres and rates in 0.1 mm/s, so that
both scales are integers, and rounds ties to the even neighbour as `round`
does. Its receiver is in step with the words (the tests' own one also searches
for the preamble bit by bit, `tests/test_rtcm2.py:63-82`, which is left out); a
receiver that joins anywhere starts with a seed of its own, which counts as a
hit of the line if it is not the encoder's. Six parity bits cannot find every
error, so the line inverts only what they are sure to find (`NoiseAssumption`,
evaluated by TLC: in the instance up to two bits of a word, or three within
eight of each other); `NothingWrongDecoded` is then a statement about the
encoder. A message is encoded only if no field of it is refused (`Packable`);
what a refusal does is in `Converter`. `Rtcm3Input` describes the message
pyrtcm makes (slots and cells in mask order, `None` for an invalid fine range);
whether pyrtcm does give `None` for the invalid value of DF405 is not visible
here.

Operators named with the suffix of the definition they stand beside and
introduced as "Mutant" are wrong on purpose: each shows that a property can
fail (see `PROJECT.json`, "mutants").

## 3. Runs

All passing runs stop when their bounds are reached, so deadlock is not checked
in them; a thread waiting for ever inside the bounds is what the liveness
properties of `caster` and `client` look for.

| run | instance | distinct states | shows |
|---|---|---|---|
| `dgps` | 3 satellites with 2 or 3 ephemerides each (healthy, unhealthy, stale, without an orbit), 4 kinds of epoch (agreeing, one outlier, one missing, invalid range), 2 epochs, at the same or a later time | 593 000 | selection, IOD, freshness and outlier properties under every interleaving |
| `converter` | 2 satellites of which only one fits into a message, 2 station positions, week of 6 ticks, Type 3 every 3 ticks, an ephemeris without an orbit, chunks with up to 4 frames | 2 041 000 | parity chain, sequence numbers, Type 3 before Type 1, not too often, and current |
| `frames` | real header format, payloads of 0 to 2 bytes, 2 connections, start offsets 0, 2, 4, chunks of 1 to 7 bytes | 127 000 | framing |
| `caster` | 2 clients, queues of 2, 3 messages, one bind address, one message taken by the kernel for a peer that is gone | 335 000 | order, completeness, refusal only of a client that is behind, refinement of `LossyFeed`, liveness |
| `client` | 3 good answers (both protocol versions), 4 others (sourcetable, 404, headers that end early), any of them kept going, the real waits 2 to 30 s, failures counted to 7 | 31 000 | what reaches the callback, backoff, sockets, stop, liveness |
| `encoder` | 4 messages (limits and ties of both scales, PRN 32, fill bits, negative coordinates), any order, any receiver seed, one word hit | 864 | what a receiver decodes is what was encoded |
| `input` | 3 satellites, each observed or not, ranged or not, 2 signals with a fine range, none, or no cell | 108 000 | the pseudoranges returned are those observed |
| `iod_race` | as `dgps` | | violation, see 4 |
| `rate_week`, `fresh_week` | as `dgps`, with epochs a week apart | | violations, see 4 |
| `endless_header` | as `client` | | violation, see 4 |
| `many_sats` | 18 and 19 satellites, the real limit of 31 words | | violation, see 4 |

Why the bounds are enough. An outlier can only be outvoted by two others, so
three satellites are the smallest interesting set, and the races involve one
satellite and one replaced ephemeris at a time. In `converter` the small week
makes the rollover happen within the run; one chunk holds an epoch whose encoding,
or, after the ephemeris without an orbit, whose raw correction raises in
mid-chunk, another a frame that cannot be read. In `frames` a second
connection is what it takes to splice a frame, and one payload holds a
preamble byte followed by a plausible length, one CRC ends with a preamble. In
`caster` a queue of two fills, refuses the third message or is drained and takes
it; the theorems of section 5 speak of any number. In
`client` seven failures take the wait past its limit, and outages are not
bounded. In `encoder` the state after a message is its seed alone, and the four
messages reach all four seeds. In `input` a satellite without cells can
precede, follow or separate two with cells.
Symmetry is not used.

What the properties say, besides one type invariant per module:

* `IodMismatchOnlyByRace`, `FreshModuloWeek`, `CorrectionsAreSelected`,
  `OneOutlierHarmsNoOther` (generator);
* `ParityChain`, `SeqSkipsOnlyFailures`, `Type3PrecedesType1`,
  `Type3NotTooOften`, `AdvertisedBaseIsCurrent` (converter); the last one holds
  while less than a week passes between two Type 3 messages, since the elapsed
  time is computed modulo a week;
* `FramesAreReceivedRuns`, `NoPreambleDropped`,
  `PartialFrameOnly`, `ChunksDoNotMatter`, `AlignedStreamLosesNothing`,
  `OnlySplicesSwallow`, `HandledOnceInOrder` (framing). A preamble byte inside
  a payload can mislead the scan after a splice; `OnlySplicesSwallow` says what
  is lost when payloads are free of it;
* `DeliveredInOrder`, `NothingMissed`, `RefusedOnlyWhenBehind`,
  `SubscribersAreServed`, and the liveness properties `PublishReturns`,
  `GoneClientLeaves`, `StopEndsAll` (caster); `ImplementsLossyFeed` is the
  refinement. `RefusedOnlyWhenBehind` is about the moment of a refusal: the ghost
  `lost` records with each message refused the last one the handler had taken by
  then (`taken`), and between the two there must be `QueueSize` messages that the
  queue had accepted, all of which therefore waited;
* `OnlyBodyDelivered`, `WaitMatchesFailures`, `AtMostOneCallAfterStop`,
  `SocketsDoNotPileUp`, and the liveness properties `StreamsAgain` and
  `StopEndsStream` (client). The latter assumes that every header is left some
  time (`HeadersAreLeft`) and nothing else of the upstream; that it cannot do
  without is what `endless_header` shows. A failed connection's socket is not
  closed by the code but collected; `SocketsDoNotPileUp` says that this never
  keeps more than one of them beside the current one;
* `NothingWrongDecoded`, `CleanMessagesDecoded`, `NoSentinelSent` (encoder);
* `ObservationsRecovered` (RTCM 3 decoding).

Fairness (`CasterFairness`): weak fairness of the publisher inside a publish, of
each handler and of each listener. The code justifies it: the puts do not
block, and every wait of a handler or listener has a timeout (`settimeout(15)`,
`get(timeout=10)`, `settimeout(1.0)`). Nothing is assumed of peers, of the
upstream, or of when `publish` and `stop` are called.

`ClientSpec`: weak fairness of the client's own steps together (`Client`). Each
wait of the thread ends: connecting and `recv` have `self.timeout`, the wait
before a reconnect its backoff, and the callback is `feed_obs` or `feed_eph`,
which end. Nothing is assumed of the upstream: `StreamsAgain` speaks of periods
in which it is up, and `StopEndsStream` has its condition in the formula.

## 4. Where code and documentation differ

* `iod_race`: the IOD is read from the dict again (`dgps.py:138`); if the
  ephemeris was replaced meanwhile it names an ephemeris that was not used.
* `rate_week`: the interval of a rate is not reduced to half a week
  (`dgps.py:125`), which docs/conversion.md section 2.3 says of any time
  difference.
* `fresh_week`: the age of an ephemeris is compared modulo a week
  (`dgps.py:106`), so one that is a week old passes.
* `endless_header`: the loops that read the status line and the HTTP header
  (`ntrip.py:111`, `127`) have no limit and do not look at the stop event, and the
  timeout is one for each byte: a caster that goes on sending header keeps
  `stream` from returning after the stop, which its docstring promises. The
  process ends all the same, since the thread is a daemon.
* `many_sats`: 19 or more corrections need 32 data words, which the 5-bit field
  cannot hold (`rtcm2.py:107`): the encoder raises, the epoch is not published
  and the upstream connection is dropped.

## 5. Proofs

TLAPS proves every invariant of the passing runs, and the refinement, for every
instance that satisfies the named assumptions of the modules:

| assumption | says |
|---|---|
| `WeekAssumption`, `DgpsAssumption`, `ConverterAssumption`, `ClientAssumption`, `CasterAssumption`, `InputAssumption` | what the constants are: a week is an even number of ticks, limits are not negative, queues hold something, an answer that announces a stream is a header and a body, the masks of an MSM7 name at most 32 signals of which "1C" is one |
| `ExtractorAssumption` | a stream is any sequence of bytes; needed by everything about framing |
| `StreamAssumption` | the marked frames of a stream start with a preamble, are complete and follow each other without a gap: what a caster sends. Only `AlignedLosesNothing` and `SplicesSwallow` use it |
| `EncAssumption` | messages are records of Type 1 or Type 3 with integers of any size in their fields |
| `NoiseAssumption` | every error the line makes fails at least one of the six checks: behind the right seed, and behind any other one if more than one word may be hit. The instance takes all errors of up to two bits and bursts of eight |

| module | proves |
|---|---|
| `NumberProofs` | what the others need of numbers: least elements, division with remainder, powers of two |
| `DgpsProofs` | `delta_t_week` changes a difference by at most one whole week and reduces it to half a week either side; the modified Z-count is below 6000 and the nearest one; the k-th smallest value exists; the median of three or more values is within a tolerance of all but one of them if those agree to within it (`MedianRobust`). Then `DgpsInvariant`, and from it the invariants of the `dgps` run |
| `ConverterProofs` | `ConvInvariant`, and from it those of the `converter` run |
| `FrameProofs` | `ExtInvariant` and `StartInvariant`, and from them those of the `frames` run, for any streams, any chunks and any number of connections |
| `CasterProofs` | `CasterInvariant`, from it those of the `caster` run, and `FeedRefines`, the refinement of `LossyFeed` |
| `ClientProofs` | `ClientInvariant`, and from it those of the `client` run |
| `EncoderProofs` | the record sent stands for the correction (`RecordStandsForCorrection`) and holds no reserved value (`NoSentinel`); the words of a message hold its records with less than a word of fill (`WordsHoldRecords`) and decode to it (`BodyReadsBack`); `EncInvariant`, and from it the invariants of the `encoder` run |
| `InputProofs` | `Observations`: `ObservationsRecovered` for every sky |

The inductive invariants:

* `DgpsInd` = types, `CallInv` (what `todo`, `tow` and the locals are at each
  `pc`), `SelectedInv` (a satellite in `used` passed every gate, and its entry in
  the dict is the same unless it was touched during the call) and `OutInv` (what
  has been built so far, and why each other satellite was left out). It is needed
  because a correction's properties were established in the first loop, when its
  ephemeris was read, and the second loop relies on them while the other thread
  changes the dict.
* `ConvInd` = `DgpsInd` (the generator's steps are the same), `StageInv` (between
  `_maybe_emit_type3` and `encode_type1` the last Type 3 is recent), `Type3Inv`
  (`_last_type3_tow` is that of the last Type 3 on the feed) and the properties
  themselves. The step from times of week to times, for `Type3NotTooOften`, is
  the lemma `ElapsedInWeek`. For `AdvertisedBaseIsCurrent`, `BaseInv` adds that
  what was published since the base changed carries it; `ElapsedExact` then
  turns the recent time of week of the last Type 3 into a recent time.
* `ExtInv`: the buffer is the end of what was received (`BufferIsSuffix`), so a
  position in the buffer is one in the stream; the frames taken are runs of the
  stream before it, apart from each other (`RunsInv`); those waiting to be
  handled are among them and behind those handled (`HandlingInv`).
* `StartInv`, on top of `ExtInv`: the frames sent stand in the bytes received
  and those still on the line together, each before the next unless a reconnect
  cut it (`StartsInv`), without gaps on the first connection (`Gapless`); and
  while that connection began with a frame, the buffer begins with one and every
  earlier one was taken (`InStep`).
* `CasterInv`: what a client was sent, what its handler holds and what its queue
  holds ascend and lie between the message at which it joined and the current
  one; every message in between that is not among them was refused, or is the
  one `publish` is about to put there. `Behind` places `taken` among them: nothing
  the handler took is above it, everything in the queue is above it and was
  accepted, so a full queue is a set of `QueueSize` accepted messages ahead of
  `taken` (`AscendingFits`).
* `ClientInd`: where in the answer the thread is (`ReadInv`), which sockets are
  open (`SocketInv`), and that the inner loop is not entered after the stop
  (`LateInv`). `BackoffInv` says of each `pc` which power of two `backoff` is:
  it is doubled after the wait, so while waiting it is one behind the failures.
* `EncInv`: there are seed bits behind which the message now travelling was
  encoded, such that the wire holds its last words behind their chained seeds;
  a receiver that has not lost its place holds the words before those and stands
  behind the same seed, and so does any receiver after a word that passed
  (`Journey`). It needs the seeds of all words, not only the encoder's last one,
  because the receiver is some words behind.
* `InputInv`: the message is the one the sky makes.

The arguments that carry most:

* Freshness rests on `ModSmall`, `ModShift` and `DeltaCongruent`,
  `OutlierContained` on `MedianRobust`.
* `Chunks`: `Scan` is a recursive function over positions. A list of positions
  is the scan of a sequence exactly if they are complete frames with no preamble
  in the gaps and nothing complete behind the last one (`IsScan`, `ScanFound`);
  the invariant says just this of the frames taken.
* `NothingWrong`: `WordPasses` shows that a word passes the receiver exactly if
  it is undisturbed and the seeds agree where the checks can tell; `BodyReadsBack`
  that fields written one after another are read back from the bits
  (two's complement and the clamped counts included), whatever their widths;
  the preamble and the length field then decide how many words belong together.
* `Observations`: the slots in mask order number the observed satellites, each
  once (`AscendingEnumerates`), and the cells number the pairs behind them.
* `FeedRefines` is proved per action of `Caster`: each is one action of
  `LossyFeed` under the mapping, or changes none of its variables.

Inductions over positions, words and failures are made with least elements:
`LeastNatural` gives the least natural of a non-empty set, and the set is that
of the counterexamples. That the recursive functions `Scan` and `Seeds` exist is
proved in the same way (`ScanExists`, `SeedsExist`), and the powers of two come
from the number of subsets of a set.

Only model-checked: liveness (`PublishReturns`, `GoneClientLeaves`, `StopEndsAll`,
`StreamsAgain`, `StopEndsStream`), since fairness and ENABLED are out of the
prover's reach. Of `ImplementsLossyFeed`, the run `caster` and the theorem
`FeedRefines` speak of safety alike; the abstract specification has no fairness.
The violations of section 4 are TLC's by nature.

## 6. Not modelled

* The orbit and clock computation (`ephemeris.py`): floating point; a constant
  operator here, so nothing is said about its accuracy.
* `parse_station` and `parse_ephemeris`: copies of single fields with unit
  factors, without state or choice.
* `Service.run` and `cli.py`: `run` starts the threads modelled elsewhere and
  waits for the stop event; the effect of the stop on each of them is in `Caster`
  and `NtripClient`. Since all threads are daemons, the process ends with the
  main thread whether or not they have noticed. Options and password loading are
  plain I/O.
* TLS, HTTP details beyond the status line and the end of the header, the
  sourcetable's text, logging.
* Packaging, deployment and scripts: no state of the service.

Open: a history of raw values that says which previous value a rate may use. The
code keeps the value of a satellite it dropped, and one from before a gap or a
change of base; neither the docs nor the tests say what is intended, so there is
nothing to check it against.
