--------------------------- MODULE FrameExtractor ---------------------------
(***************************************************************************)
(* One RTCM3 input of the Converter (service.py): the chunks that recv     *)
(* returns are appended to a byte buffer (_obs_buf or _eph_buf), every     *)
(* complete frame is cut off its front, and the frames are handled one by  *)
(* one.  Handling may raise, which ends the connection; the buffer is not  *)
(* cleared, so after a reconnect the new stream continues whatever partial *)
(* frame the old one left.                                                 *)
(*                                                                         *)
(* The upstream caster is environment: a connection delivers the bytes of  *)
(* a stream of frames, possibly starting in the middle of one, cut into    *)
(* chunks at will.                                                         *)
(* Ghost variables keep all bytes ever received and refer to frames by     *)
(* their position in them.                                                 *)
(***************************************************************************)
EXTENDS Integers, Sequences, FiniteSets, FiniteSetsExt, SequencesExt

CONSTANTS Streams,      \* what a connection may deliver: bytes, and where frames start
          Offsets,      \* how far into the first frame it may start
          MaxRecv,      \* the argument of recv
          MaxConnects   \* bound on the number of connections

Byte == 0 .. 255
Preamble == 211         \* 0xD3
MaxFrame == 3 + 1023 + 3

ASSUME ExtractorAssumption ==
  /\ Streams \subseteq [bytes : Seq(Byte), starts : SUBSET (Nat \ {0})]
  /\ Offsets \subseteq Nat
  /\ MaxRecv \in Nat \ {0}
  /\ MaxConnects \in Nat

VARIABLES pc,          \* down, recv, extract, handle
          line,        \* bytes the connection has still to deliver
          buf,         \* self._obs_buf
          frames,      \* frames extracted and not handled yet
          received,    \* ghost: every byte received
          starts,      \* ghost: positions in received where a sent frame starts
          cuts,        \* ghost: Len(received) at each connect
          taken,       \* ghost: position and bytes of every frame extracted
          handled      \* ghost: positions of the frames handled

vars == <<pc, line, buf, frames, received, starts, cuts, taken, handled>>

-----------------------------------------------------------------------------
Preambles(s) == {i \in DOMAIN s : s[i] = Preamble}
From(s, i) == SubSeq(s, i, Len(s))

\* Length of the frame whose preamble is s[i]: header, 10-bit length, CRC.
FrameLen(s, i) == 3 + 256 * (s[i + 1] % 4) + s[i + 2] + 3

\* Whether s holds all of the frame that starts at i.
Complete(s, i) == i + 2 <= Len(s) /\ i + FrameLen(s, i) - 1 <= Len(s)

\* Mutants: the noise in front of a preamble is kept; the last preamble is sought.
Trimmed_noise_kept(s) == s
Trimmed_last(s) == From(s, Max(Preambles(s)))

\* The buffer without the noise before its first preamble.
Trimmed(s) == From(s, Min(Preambles(s)))

Consumed == Len(received) - Len(buf)   \* bytes that have left the buffer

\* What the upstream sends is frames, one after the other: at a start stands a
\* whole frame, and it ends where the next one starts, or with the stream.
ASSUME StreamAssumption ==
  \A s \in Streams : \A i \in s.starts :
    /\ i \in Preambles(s.bytes) /\ Complete(s.bytes, i)
    /\ i + FrameLen(s.bytes, i) \in s.starts \cup {Len(s.bytes) + 1}
    /\ \A j \in s.starts : i < j => i + FrameLen(s.bytes, i) <= j

-----------------------------------------------------------------------------
ExtInit ==
  /\ pc = "down" /\ line = <<>> /\ buf = <<>> /\ frames = <<>>
  /\ received = <<>> /\ starts = {} /\ cuts = {} /\ taken = <<>> /\ handled = <<>>

\* A connection is established that delivers stream from byte skip + 1 on.
connect(stream, skip) ==
  /\ pc = "down" /\ Cardinality(cuts) < MaxConnects
  /\ LET shift == Len(received) - skip
     IN  starts' = starts \cup {shift + i : i \in {j \in stream.starts : j > skip}}
  /\ line' = From(stream.bytes, skip + 1)
  /\ cuts' = cuts \cup {Len(received)}
  /\ pc' = "recv"
  /\ UNCHANGED <<buf, frames, received, taken, handled>>

\* Mutants: bytes taken as signed; a chunk without a preamble taken for noise.
Extended_signed(data) == buf \o [i \in DOMAIN data |-> IF data[i] > 127 THEN data[i] - 256 ELSE data[i]]
Extended_scanned(data) == IF Preambles(data) = {} THEN buf ELSE buf \o data

Extended(data) == buf \o data

\* recv returned n bytes; feed_obs appends them.
recv(n) ==
  /\ pc = "recv" /\ n <= Len(line)
  /\ buf' = Extended(SubSeq(line, 1, n))
  /\ received' = received \o SubSeq(line, 1, n)
  /\ line' = From(line, n + 1)
  /\ pc' = "extract"
  /\ UNCHANGED <<frames, starts, cuts, taken, handled>>

\* The connection fails between two recvs: what it had still to deliver,
\* frame starts included, is never received.
drop_connection ==
  /\ pc = "recv"
  /\ pc' = "down" /\ line' = <<>>
  /\ starts' = {i \in starts : i <= Len(received)}
  /\ UNCHANGED <<buf, frames, received, cuts, taken, handled>>

\* Mutants: the partial frame is cleared too; the noise before it stays.
Leftover_cleared(s) == <<>>
Leftover_untrimmed(s) == s

\* What stays in the buffer when no complete frame is left.
Leftover(s) == IF Preambles(s) = {} THEN <<>> ELSE Trimmed(s)

\* extract_rtcm3_frames returns: no preamble, or a frame still incomplete.
extract_done ==
  /\ pc = "extract"
  /\ Preambles(buf) # {} => ~Complete(Trimmed(buf), 1)
  /\ buf' = Leftover(buf)
  /\ pc' = "handle"
  /\ UNCHANGED <<line, frames, received, starts, cuts, taken, handled>>

\* One turn of its loop that finds a frame.
extract_frame ==
  /\ pc = "extract" /\ Preambles(buf) # {} /\ Complete(Trimmed(buf), 1)
  /\ LET trimmed == Trimmed(buf)
         total   == FrameLen(trimmed, 1)
         frame   == [at |-> Len(received) - Len(trimmed) + 1, bytes |-> SubSeq(trimmed, 1, total)]
     IN  /\ frames' = Append(frames, frame)
         /\ taken' = Append(taken, frame)
         /\ buf' = From(trimmed, total + 1)
  /\ UNCHANGED <<pc, line, received, starts, cuts, handled>>

\* Mutant: the frames are popped off the end of the list.
handle_frame_last ==
  /\ pc = "handle" /\ frames # <<>>
  /\ handled' = Append(handled, Last(frames).at)
  /\ frames' = Front(frames)
  /\ UNCHANGED <<pc, line, buf, received, starts, cuts, taken>>

\* _on_obs_frame or _on_eph_frame returns normally.
handle_frame ==
  /\ pc = "handle" /\ frames # <<>>
  /\ handled' = Append(handled, Head(frames).at)
  /\ frames' = Tail(frames)
  /\ UNCHANGED <<pc, line, buf, received, starts, cuts, taken>>

\* It raises: the frames extracted with it are lost, stream() reconnects.
handle_raises ==
  /\ pc = "handle" /\ frames # <<>>
  /\ frames' = <<>>
  /\ pc' = "down" /\ line' = <<>>
  /\ starts' = {i \in starts : i <= Len(received)}
  /\ UNCHANGED <<buf, received, cuts, taken, handled>>

\* feed_obs returns.
feed_done ==
  /\ pc = "handle" /\ frames = <<>>
  /\ pc' = "recv"
  /\ UNCHANGED <<line, buf, frames, received, starts, cuts, taken, handled>>

ExtNext ==
  \/ \E s \in Streams, k \in Offsets : connect(s, k)
  \/ \E n \in 1 .. MaxRecv : recv(n)
  \/ drop_connection
  \/ extract_done
  \/ extract_frame
  \/ handle_frame
  \/ handle_raises
  \/ feed_done

ExtSpec == ExtInit /\ [][ExtNext]_vars

-----------------------------------------------------------------------------
TakenFrame == [at : Nat \ {0}, bytes : Seq(Byte)]

ExtTypeOK ==
  /\ pc \in {"down", "recv", "extract", "handle"}
  /\ line \in Seq(Byte) /\ buf \in Seq(Byte) /\ received \in Seq(Byte)
  /\ frames \in Seq(TakenFrame) /\ taken \in Seq(TakenFrame)
  /\ starts \in SUBSET Int /\ cuts \in SUBSET Nat
  /\ handled \in Seq(Nat)

Covers(t, i) == t.at <= i /\ i < t.at + Len(t.bytes)

\* Every frame handed on is a run of received bytes that starts with the
\* preamble and has the length its header says; frames do not overlap and
\* come in the order of the stream, over all connections.
FramesAreReceivedRuns ==
  \A k \in DOMAIN taken :
    LET t == taken[k]
    IN  /\ t.bytes = SubSeq(received, t.at, t.at + Len(t.bytes) - 1)
        /\ t.bytes[1] = Preamble /\ Len(t.bytes) = FrameLen(t.bytes, 1)
        /\ t.at + Len(t.bytes) - 1 <= Consumed
        /\ \A j \in 1 .. k - 1 : taken[j].at + Len(taken[j].bytes) <= t.at

\* No preamble byte is dropped as noise: each one that has left the buffer
\* did so inside a frame.
NoPreambleDropped ==
  \A i \in 1 .. Consumed :
    received[i] = Preamble => \E k \in DOMAIN taken : Covers(taken[k], i)

\* Between two recvs the buffer holds nothing or the beginning of one frame,
\* so it stays below 1029 bytes.
PartialFrameOnly ==
  pc \in {"handle", "recv", "down"} =>
    \/ buf = <<>>
    \/ buf[1] = Preamble /\ ~Complete(buf, 1) /\ Len(buf) < MaxFrame

\* Positions of the frames found by one scan over s, in order.
Scan(s) ==
  LET from[i \in 1 .. Len(s) + 1] ==
        IF i > Len(s) THEN <<>>
        ELSE IF s[i] # Preamble THEN from[i + 1]
        ELSE IF ~Complete(s, i) THEN <<>>
        ELSE <<i>> \o from[i + FrameLen(s, i)]
  IN  from[1]

\* The frames found do not depend on how the stream was cut into chunks: they
\* are those of one scan over all bytes received.
ChunksDoNotMatter ==
  pc # "extract" => [k \in DOMAIN taken |-> taken[k].at] = Scan(received)

\* A frame the upstream sent and that arrived whole on one connection.
Intact(i) ==
  /\ i \in starts /\ Complete(received, i)
  /\ \A c \in cuts : ~(i <= c /\ c < i + FrameLen(received, i) - 1)

\* While the first connection lasts, and if it starts with a frame, no frame
\* that arrived is missed, whatever the payloads contain.
AlignedStreamLosesNothing ==
  cuts = {0} /\ 1 \in starts /\ pc # "extract" =>
    \A i \in starts : Intact(i) => \E k \in DOMAIN taken : taken[k].at = i

\* Resynchronisation: if the preamble byte occurs only where frames start,
\* then of the whole frames that have left the buffer only those are missed
\* that a frame spliced together at a reconnect has swallowed.
OnlySplicesSwallow ==
  pc # "extract" /\ Preambles(received) \subseteq starts =>
    \A i \in starts : Intact(i) /\ i <= Consumed =>
      \E k \in DOMAIN taken :
        LET t == taken[k]
        IN  t.at = i \/ (Covers(t, i) /\ \E c \in cuts : t.at <= c /\ Covers(t, c + 1))

\* Frames are handled in the order extracted and each at most once, across
\* exceptions and reconnects.
HandledOnceInOrder ==
  /\ \A j, k \in DOMAIN handled : j < k => handled[j] < handled[k]
  /\ \A k \in DOMAIN frames, j \in DOMAIN handled : handled[j] < frames[k].at
  /\ \A j \in DOMAIN handled : \E k \in DOMAIN taken : taken[k].at = handled[j]
=============================================================================
