----------------------------- MODULE FrameProofs -----------------------------
(***************************************************************************)
(* Proofs about FrameExtractor, for any streams, any cut into chunks and   *)
(* any number of connections.  The argument: the buffer is the end of what *)
(* was received, so a position in the buffer is a position in the stream,  *)
(* and what leaves the buffer is noise without a preamble or a frame.      *)
(*                                                                         *)
(* Then what the extractor makes of the whole stream: its frames are those *)
(* of one scan over the bytes received, however they were cut into chunks, *)
(* and for a stream that consists of frames it misses none but where a     *)
(* reconnect splices two streams.  That part begins with the function Scan *)
(* alone, by induction over positions, and relates the frames the upstream *)
(* sent to the bytes received or still on the line.                        *)
(***************************************************************************)
EXTENDS FrameExtractor, NumberProofs, SequenceTheorems

-----------------------------------------------------------------------------
\* The buffer is what was received last, byte for byte, whatever was cut off.
BufferIsSuffix ==
  /\ Len(buf) <= Len(received)
  /\ \A i \in 1 .. Len(buf) : buf[i] = received[Consumed + i]

\* A frame cut off is a run of received bytes that have left the buffer.
IsRun(t) ==
  /\ Len(t.bytes) >= 6
  /\ t.at + Len(t.bytes) - 1 <= Consumed
  /\ \A i \in 1 .. Len(t.bytes) : t.bytes[i] = received[t.at + i - 1]
  /\ t.bytes[1] = Preamble /\ Len(t.bytes) = FrameLen(t.bytes, 1)

Apart(s) == \A j, k \in DOMAIN s : j < k => s[j].at + Len(s[j].bytes) <= s[k].at

RunsInv ==
  /\ \A k \in DOMAIN taken : IsRun(taken[k])
  /\ Apart(taken)

\* The frames that wait are among those taken, in order, and after all those
\* handled.
HandlingInv ==
  /\ \A k \in DOMAIN frames : \E l \in DOMAIN taken : taken[l] = frames[k]
  /\ \A j, k \in DOMAIN frames : j < k => frames[j].at < frames[k].at
  /\ HandledOnceInOrder

ExtInv ==
  /\ ExtTypeOK /\ BufferIsSuffix /\ RunsInv /\ NoPreambleDropped
  /\ PartialFrameOnly /\ HandlingInv

-----------------------------------------------------------------------------
\* The least of a set of positions.
LEMMA MinIsLeast ==
  ASSUME NEW T \in SUBSET Nat, T # {}
  PROVE  Min(T) \in T /\ \A y \in T : Min(T) <= y
BY LeastNatural DEF Min

\* A header says a length of 6 to 1029.
LEMMA FrameLenRange ==
  ASSUME NEW s \in Seq(Byte), NEW i \in Nat, i >= 1, i + 2 <= Len(s)
  PROVE  FrameLen(s, i) \in Nat /\ 6 <= FrameLen(s, i) /\ FrameLen(s, i) <= 1029
<1>1. i + 1 \in 1 .. Len(s) /\ i + 2 \in 1 .. Len(s) OBVIOUS
<1>2. s[i + 1] \in Byte /\ s[i + 2] \in Byte BY <1>1, ElementOfSeq
<1>3. \A x \in Byte : x \in Int /\ x >= 0 /\ x <= 255 BY DEF Byte
<1>4. ASSUME NEW x \in Int PROVE x % 4 \in 0 .. 3 OBVIOUS
<1>5. s[i + 1] % 4 \in 0 .. 3 BY <1>2, <1>3, <1>4
<1>6. ASSUME NEW q \in 0 .. 3, NEW a \in Int, a >= 0, a <= 255
      PROVE  /\ 3 + 256 * q + a + 3 \in Nat
             /\ 6 <= 3 + 256 * q + a + 3 /\ 3 + 256 * q + a + 3 <= 1029
  BY <1>6
<1>7. s[i + 2] \in Int /\ s[i + 2] >= 0 /\ s[i + 2] <= 255 BY <1>2, <1>3
<1>8. PICK q \in 0 .. 3, a \in Int : q = s[i + 1] % 4 /\ a = s[i + 2] /\ a >= 0 /\ a <= 255
  BY <1>5, <1>7
<1>9. FrameLen(s, i) = 3 + 256 * q + a + 3 BY <1>8 DEF FrameLen
<1>10. /\ 3 + 256 * q + a + 3 \in Nat
       /\ 6 <= 3 + 256 * q + a + 3 /\ 3 + 256 * q + a + 3 <= 1029
  <2>1. a >= 0 /\ a <= 255 BY <1>8
  <2> QED BY <1>6, <2>1
<1>11. PICK v \in Nat : v = 3 + 256 * q + a + 3 /\ 6 <= v /\ v <= 1029 BY <1>10
<1>12. FrameLen(s, i) = v BY <1>9, <1>11
<1> QED BY <1>11, <1>12

LEMMA FromFacts ==
  ASSUME NEW S, NEW s \in Seq(S), NEW i \in 1 .. Len(s) + 1
  PROVE  /\ From(s, i) \in Seq(S) /\ Len(From(s, i)) = Len(s) - i + 1
         /\ \A k \in 1 .. Len(s) - i + 1 : From(s, i)[k] = s[i + k - 1]
<1>1. \A k \in i .. Len(s) : s[k] \in S OBVIOUS
<1>2. i \in Int /\ Len(s) \in Int OBVIOUS
<1>3. /\ SubSeq(s, i, Len(s)) \in Seq(S)
      /\ Len(SubSeq(s, i, Len(s))) = IF i <= Len(s) THEN Len(s) - i + 1 ELSE 0
      /\ \A k \in 1 .. Len(s) - i + 1 : SubSeq(s, i, Len(s))[k] = s[i + k - 1]
  BY <1>1, <1>2, SubSeqProperties
<1> QED BY <1>3 DEF From

\* The trimmed buffer starts at the first preamble.
LEMMA TrimmedFacts ==
  ASSUME NEW s \in Seq(Byte), Preambles(s) # {}
  PROVE  \E n \in 0 .. Len(s) - 1 :
           /\ Trimmed(s) \in Seq(Byte) /\ Len(Trimmed(s)) = Len(s) - n
           /\ \A k \in 1 .. Len(s) - n : Trimmed(s)[k] = s[n + k]
           /\ Trimmed(s)[1] = Preamble
           /\ \A k \in 1 .. n : s[k] # Preamble
<1> DEFINE m == Min(Preambles(s))
<1>1. Preambles(s) \in SUBSET Nat BY DEF Preambles
<1>2. m \in Preambles(s) /\ \A k \in Preambles(s) : m <= k BY <1>1, MinIsLeast
<1>3. m \in 1 .. Len(s) /\ s[m] = Preamble BY <1>2 DEF Preambles
<1>4. ASSUME NEW k \in 1 .. m - 1 PROVE s[k] # Preamble
  <2>1. k \in 1 .. Len(s) /\ ~(m <= k) BY <1>3
  <2> QED BY <1>2, <2>1 DEF Preambles
<1> HIDE DEF m
<1>5. m \in 1 .. Len(s) + 1 BY <1>3
<1>6. /\ From(s, m) \in Seq(Byte) /\ Len(From(s, m)) = Len(s) - m + 1
      /\ \A k \in 1 .. Len(s) - m + 1 : From(s, m)[k] = s[m + k - 1]
  BY <1>5, FromFacts
<1>7. Trimmed(s) = From(s, m) BY DEF Trimmed, m
<1>8. \A k \in 1 .. Len(s) - (m - 1) : k \in 1 .. Len(s) - m + 1 /\ m + k - 1 = (m - 1) + k
  BY <1>3
<1>9. Len(s) - (m - 1) = Len(s) - m + 1 BY <1>3
<1>10. \A k \in 1 .. Len(s) - (m - 1) : From(s, m)[k] = s[(m - 1) + k]
  BY <1>6, <1>8
<1>11. 1 \in 1 .. Len(s) - (m - 1) /\ (m - 1) + 1 = m BY <1>3
<1>12. From(s, m)[1] = Preamble BY <1>3, <1>10, <1>11
<1>13. m - 1 \in 0 .. Len(s) - 1 BY <1>3
<1> QED BY <1>4, <1>6, <1>7, <1>9, <1>10, <1>12, <1>13

-----------------------------------------------------------------------------
LEMMA ExtInitInv == ExtInit => ExtInv
BY DEF ExtInit, ExtInv, ExtTypeOK, BufferIsSuffix, RunsInv, Apart, NoPreambleDropped,
       PartialFrameOnly, HandlingInv, HandledOnceInOrder, Consumed

\* Dropping the first n bytes of the buffer.
LEMMA Shrunk ==
  ASSUME ExtTypeOK, BufferIsSuffix, NEW n \in 0 .. Len(buf), received' = received,
         buf' \in Seq(Byte), Len(buf') = Len(buf) - n,
         \A k \in 1 .. Len(buf) - n : buf'[k] = buf[n + k]
  PROVE  BufferIsSuffix' /\ Consumed' = Consumed + n
<1>1. Len(buf) \in Nat /\ Len(received) \in Nat BY DEF ExtTypeOK
<1>2. Consumed' = Consumed + n BY <1>1 DEF Consumed
<1>3. ASSUME NEW k \in 1 .. Len(buf') PROVE buf'[k] = received'[Consumed' + k]
  <2>1. n + k \in 1 .. Len(buf) /\ k \in 1 .. Len(buf) - n BY <1>1
  <2>2. buf[n + k] = received[Consumed + (n + k)] BY <2>1 DEF BufferIsSuffix
  <2>3. Consumed + (n + k) = (Consumed + n) + k BY <1>1 DEF Consumed
  <2> QED BY <1>2, <2>1, <2>2, <2>3
<1>4. Len(buf') <= Len(received') BY <1>1 DEF BufferIsSuffix
<1> QED BY <1>2, <1>3, <1>4 DEF BufferIsSuffix

\* What was taken stays a run while the stream grows and the buffer shrinks.
LEMMA RunStays ==
  ASSUME ExtTypeOK, BufferIsSuffix, Consumed' \in Int, Consumed <= Consumed', NEW t \in TakenFrame, IsRun(t),
         \A i \in 1 .. Len(received) : received'[i] = received[i]
  PROVE  IsRun(t)'
<1>1. /\ t.at \in Nat /\ t.at >= 1 /\ Len(t.bytes) \in Nat /\ Len(buf) \in Nat /\ Len(received) \in Nat
  BY DEF TakenFrame, ExtTypeOK
<1>2. t.at + Len(t.bytes) - 1 <= Consumed /\ Consumed <= Len(received) /\ Consumed \in Int
  BY <1>1 DEF IsRun, Consumed
<1>3. \A i \in 1 .. Len(t.bytes) : t.at + i - 1 \in 1 .. Len(received)
  BY <1>1, <1>2
<1>4. \A i \in 1 .. Len(t.bytes) : t.bytes[i] = received'[t.at + i - 1]
  BY <1>3 DEF IsRun
<1>5. t.at + Len(t.bytes) - 1 <= Consumed' BY <1>1, <1>2
<1> QED BY <1>4, <1>5 DEF IsRun

LEMMA ConsumedType ==
  ASSUME ExtTypeOK, BufferIsSuffix
  PROVE  Consumed \in Nat /\ Consumed <= Len(received) /\ Len(received) = Consumed + Len(buf)
BY DEF ExtTypeOK, BufferIsSuffix, Consumed

\* A step that moves no byte and takes no frame.
LEMMA BufferStays ==
  ASSUME ExtInv, UNCHANGED <<buf, received, taken>>
  PROVE  BufferIsSuffix' /\ RunsInv' /\ NoPreambleDropped'
<1>1. Consumed' = Consumed BY DEF Consumed
<1>2. BufferIsSuffix' BY <1>1 DEF ExtInv, BufferIsSuffix
<1>3. RunsInv' BY <1>1 DEF ExtInv, RunsInv, IsRun, Apart
<1>4. NoPreambleDropped' BY <1>1 DEF ExtInv, NoPreambleDropped
<1> QED BY <1>2, <1>3, <1>4

LEMMA ConnectStep ==
  ASSUME ExtInv, NEW s \in Streams, NEW k \in Offsets, connect(s, k)
  PROVE  ExtInv'
<1>1. s.bytes \in Seq(Byte) /\ s.starts \subseteq Nat /\ k \in Nat BY ExtractorAssumption
<1>2. ExtTypeOK'
  <2>1. line' \in Seq(Byte)
    <3>1. line' = SubSeq(s.bytes, k + 1, Len(s.bytes)) BY DEF connect, From
    <3>2. \A i \in k + 1 .. Len(s.bytes) : s.bytes[i] \in Byte BY <1>1
    <3>3. k + 1 \in Int /\ Len(s.bytes) \in Int BY <1>1
    <3> QED BY <3>1, <3>2, <3>3, SubSeqProperties
  <2>2. Len(received) \in Nat BY DEF ExtInv, ExtTypeOK
  <2>3. starts' \in SUBSET Int
    <3>1. starts' = starts \cup {(Len(received) - k) + i : i \in {j \in s.starts : j > k}}
      BY DEF connect
    <3>2. \A i \in s.starts : (Len(received) - k) + i \in Int BY <1>1, <2>2
    <3> QED BY <3>1, <3>2 DEF ExtInv, ExtTypeOK
  <2>4. cuts' \in SUBSET Nat BY <2>2 DEF connect, ExtInv, ExtTypeOK
  <2> QED BY <2>1, <2>3, <2>4 DEF connect, ExtInv, ExtTypeOK
<1>3. BufferIsSuffix' /\ RunsInv' /\ NoPreambleDropped' BY BufferStays DEF connect
<1>4. PartialFrameOnly' BY DEF connect, ExtInv, PartialFrameOnly
<1>5. HandlingInv' BY DEF connect, ExtInv, HandlingInv, HandledOnceInOrder
<1> QED BY <1>2, <1>3, <1>4, <1>5 DEF ExtInv

LEMMA RecvStep ==
  ASSUME ExtInv, NEW n \in 1 .. MaxRecv, recv(n)
  PROVE  ExtInv'
<1> DEFINE data == SubSeq(line, 1, n)
<1>1. /\ buf \in Seq(Byte) /\ received \in Seq(Byte) /\ line \in Seq(Byte)
      /\ n \in Nat /\ n >= 1 /\ n <= Len(line)
  BY ExtractorAssumption DEF ExtInv, ExtTypeOK, recv
<1>2. data \in Seq(Byte) /\ Len(data) = n
  <2>1. \A i \in 1 .. n : line[i] \in Byte BY <1>1
  <2> QED BY <1>1, <2>1, SubSeqProperties
<1>3. buf' = buf \o data /\ received' = received \o data /\ taken' = taken
  BY DEF recv, Extended
<1> HIDE DEF data
<1>4. /\ buf' \in Seq(Byte) /\ Len(buf') = Len(buf) + n
      /\ received' \in Seq(Byte) /\ Len(received') = Len(received) + n
      /\ \A i \in 1 .. Len(buf) : buf'[i] = buf[i]
      /\ \A i \in 1 .. n : buf'[Len(buf) + i] = data[i]
      /\ \A i \in 1 .. Len(received) : received'[i] = received[i]
      /\ \A i \in 1 .. n : received'[Len(received) + i] = data[i]
  BY <1>1, <1>2, <1>3
<1>5. Len(buf) \in Nat /\ Len(received) \in Nat /\ Consumed \in Nat /\ Consumed <= Len(received)
      /\ Len(received) = Consumed + Len(buf)
  BY <1>1, ConsumedType DEF ExtInv
<1>6. Consumed' = Consumed BY <1>1, <1>4, <1>5 DEF Consumed
<1>7. BufferIsSuffix'
  <2>1. ASSUME NEW i \in 1 .. Len(buf') PROVE buf'[i] = received'[Consumed + i]
    <3>1. CASE i <= Len(buf)
      <4>1. i \in 1 .. Len(buf) /\ Consumed + i \in 1 .. Len(received) BY <1>4, <1>5, <3>1
      <4> QED BY <1>4, <4>1 DEF ExtInv, BufferIsSuffix
    <3>2. CASE i > Len(buf)
      <4>1. PICK c \in Nat, b \in Nat, m \in Nat :
              /\ c = Consumed /\ b = Len(buf) /\ m = n
              /\ i \in 1 .. b + m /\ i > b /\ Len(received) = c + b
        BY <1>1, <1>4, <1>5, <3>2
      <4>2. i - b \in 1 .. m /\ i = b + (i - b) /\ c + i = (c + b) + (i - b)
        BY <4>1
      <4>3. /\ i - Len(buf) \in 1 .. n /\ i = Len(buf) + (i - Len(buf))
            /\ Consumed + i = Len(received) + (i - Len(buf))
        BY <4>1, <4>2
      <4>4. /\ buf'[Len(buf) + (i - Len(buf))] = data[i - Len(buf)]
            /\ received'[Len(received) + (i - Len(buf))] = data[i - Len(buf)]
        BY <1>4, <4>3
      <4> QED BY <4>3, <4>4
    <3> QED BY <1>5, <3>1, <3>2
  <2> QED BY <1>4, <1>5, <1>6, <1>1, <2>1 DEF BufferIsSuffix
<1>8. RunsInv'
  <2>1. ASSUME NEW k \in DOMAIN taken PROVE IsRun(taken[k])'
    <3>1. taken[k] \in TakenFrame /\ IsRun(taken[k]) BY DEF ExtInv, ExtTypeOK, RunsInv
    <3>2. Consumed' \in Int /\ Consumed <= Consumed' BY <1>5, <1>6
    <3> QED BY <1>3, <1>4, <3>1, <3>2, RunStays DEF ExtInv, IsRun
  <2> QED BY <1>3, <2>1 DEF RunsInv, ExtInv, Apart
<1>9. NoPreambleDropped' BY <1>3, <1>4, <1>5, <1>6 DEF NoPreambleDropped, ExtInv
<1>10. PartialFrameOnly' BY DEF recv, PartialFrameOnly
<1>11. HandlingInv' BY DEF recv, ExtInv, HandlingInv, HandledOnceInOrder
<1>12. ExtTypeOK'
  <2>1. line' \in Seq(Byte)
    <3>1. n + 1 \in 1 .. Len(line) + 1 BY <1>1
    <3> QED BY <1>1, <3>1, FromFacts DEF recv
  <2> QED BY <1>4, <2>1 DEF recv, ExtInv, ExtTypeOK
<1> QED BY <1>7, <1>8, <1>9, <1>10, <1>11, <1>12 DEF ExtInv

LEMMA ExtractDoneStep ==
  ASSUME ExtInv, extract_done
  PROVE  ExtInv'
<1>1. buf \in Seq(Byte) /\ Len(buf) \in Nat /\ received' = received /\ taken' = taken
  BY DEF ExtInv, ExtTypeOK, extract_done
<1>2. PICK n \in 0 .. Len(buf) :
        /\ buf' \in Seq(Byte) /\ Len(buf') = Len(buf) - n
        /\ \A k \in 1 .. Len(buf) - n : buf'[k] = buf[n + k]
        /\ \A k \in 1 .. n : buf[k] # Preamble
        /\ buf' # <<>> => buf'[1] = Preamble /\ ~Complete(buf', 1)
  <2>1. CASE Preambles(buf) = {}
    <3>1. buf' = <<>> BY <2>1 DEF extract_done, Leftover
    <3>2. \A k \in 1 .. Len(buf) : buf[k] # Preamble BY <1>1, <2>1 DEF Preambles
    <3> QED BY <1>1, <3>1, <3>2
  <2>2. CASE Preambles(buf) # {}
    <3>1. buf' = Trimmed(buf) /\ ~Complete(Trimmed(buf), 1) BY <2>2 DEF extract_done, Leftover
    <3>2. PICK n \in 0 .. Len(buf) - 1 :
            /\ Trimmed(buf) \in Seq(Byte) /\ Len(Trimmed(buf)) = Len(buf) - n
            /\ \A k \in 1 .. Len(buf) - n : Trimmed(buf)[k] = buf[n + k]
            /\ Trimmed(buf)[1] = Preamble
            /\ \A k \in 1 .. n : buf[k] # Preamble
      BY <1>1, <2>2, TrimmedFacts
    <3>3. n \in 0 .. Len(buf) BY <1>1
    <3> QED BY <3>1, <3>2, <3>3
  <2> QED BY <2>1, <2>2
<1>3. BufferIsSuffix' /\ Consumed' = Consumed + n
  BY <1>1, <1>2, Shrunk DEF ExtInv
<1>4. Consumed \in Nat /\ Consumed <= Len(received) BY ConsumedType DEF ExtInv
<1>5. RunsInv'
  <2>1. ASSUME NEW k \in DOMAIN taken PROVE IsRun(taken[k])'
    <3>1. taken[k] \in TakenFrame /\ IsRun(taken[k]) BY DEF ExtInv, ExtTypeOK, RunsInv
    <3>2. Consumed' \in Int /\ Consumed <= Consumed' BY <1>3, <1>4
    <3> QED BY <1>1, <3>1, <3>2, RunStays DEF ExtInv, IsRun
  <2> QED BY <1>1, <2>1 DEF RunsInv, ExtInv, Apart
<1>6. NoPreambleDropped'
  <2> SUFFICES ASSUME NEW i \in 1 .. Consumed', received[i] = Preamble
               PROVE  \E k \in DOMAIN taken : Covers(taken[k], i)
    BY <1>1 DEF NoPreambleDropped
  <2>1. CASE i <= Consumed BY <1>4, <2>1 DEF ExtInv, NoPreambleDropped
  <2>2. CASE i > Consumed
    <3>1. i - Consumed \in 1 .. n /\ i = Consumed + (i - Consumed) BY <1>3, <1>4, <2>2
    <3>2. i - Consumed \in 1 .. Len(buf) BY <3>1
    <3>3. buf[i - Consumed] = received[i] BY <3>1, <3>2 DEF ExtInv, BufferIsSuffix
    <3> QED BY <1>2, <3>1, <3>3
  <2> QED BY <1>3, <1>4, <2>1, <2>2
<1>7. PartialFrameOnly'
  <2> SUFFICES ASSUME buf' # <<>> PROVE Len(buf') < MaxFrame
    BY <1>2 DEF PartialFrameOnly
  <2>1. Len(buf') \in Nat /\ (3 > Len(buf') \/ FrameLen(buf', 1) > Len(buf') \/ FrameLen(buf', 1) \notin Int)
    BY <1>2 DEF Complete
  <2>2. CASE 3 > Len(buf') BY <2>1, <2>2 DEF MaxFrame
  <2>3. CASE 3 <= Len(buf')
    <3>1. FrameLen(buf', 1) \in Nat /\ FrameLen(buf', 1) <= 1029 BY <1>2, <2>3, FrameLenRange
    <3>2. FrameLen(buf', 1) > Len(buf') BY <2>1, <2>3, <3>1
    <3>3. MaxFrame = 1029 BY DEF MaxFrame
    <3> QED BY <2>1, <3>1, <3>2, <3>3
  <2> QED BY <2>1, <2>2, <2>3
<1>8. HandlingInv' BY DEF extract_done, ExtInv, HandlingInv, HandledOnceInOrder
<1>9. ExtTypeOK' BY <1>2 DEF extract_done, ExtInv, ExtTypeOK
<1> QED BY <1>3, <1>5, <1>6, <1>7, <1>8, <1>9 DEF ExtInv

\* A turn of the loop drops n bytes of noise and then cuts off the frame t.
LEMMA FrameCut ==
  ASSUME ExtInv, extract_frame
  PROVE  \E t \in TakenFrame, n \in Nat :
           /\ frames' = Append(frames, t) /\ taken' = Append(taken, t)
           /\ t.at = Consumed + n + 1
           /\ Len(t.bytes) \in Nat /\ 6 <= Len(t.bytes) /\ n + Len(t.bytes) <= Len(buf)
           /\ t.bytes[1] = Preamble /\ Len(t.bytes) = FrameLen(t.bytes, 1)
           /\ \A i \in 1 .. Len(t.bytes) : t.bytes[i] = buf[n + i]
           /\ \A k \in 1 .. n : buf[k] # Preamble
           /\ buf' \in Seq(Byte) /\ Len(buf') = Len(buf) - (n + Len(t.bytes))
           /\ \A k \in 1 .. Len(buf) - (n + Len(t.bytes)) : buf'[k] = buf[(n + Len(t.bytes)) + k]
<1>1. buf \in Seq(Byte) /\ Len(buf) \in Nat /\ received \in Seq(Byte) /\ Len(received) \in Nat
  BY DEF ExtInv, ExtTypeOK
<1>2. PICK s \in Seq(Byte), total \in {FrameLen(Trimmed(buf), 1)} : s = Trimmed(buf) /\ total = FrameLen(s, 1)
  <2>1. Trimmed(buf) \in Seq(Byte) BY <1>1, TrimmedFacts DEF extract_frame
  <2> QED BY <2>1
<1>3. PICK t : t = [at |-> Len(received) - Len(s) + 1, bytes |-> SubSeq(s, 1, total)]
  OBVIOUS
<1>4. /\ Preambles(buf) # {} /\ Complete(s, 1)
      /\ frames' = Append(frames, t) /\ taken' = Append(taken, t)
      /\ buf' = From(s, total + 1)
  BY <1>2, <1>3 DEF extract_frame
<1>5. PICK n \in 0 .. Len(buf) - 1 :
        /\ Len(s) = Len(buf) - n
        /\ \A k \in 1 .. Len(buf) - n : s[k] = buf[n + k]
        /\ s[1] = Preamble
        /\ \A k \in 1 .. n : buf[k] # Preamble
  BY <1>1, <1>2, <1>4, TrimmedFacts
<1>6. Len(received) = Consumed + Len(buf) /\ Consumed \in Nat BY ConsumedType DEF ExtInv
<1>7. total \in Nat /\ 6 <= total /\ total <= Len(s) /\ Len(s) \in Nat
  <2>1. 3 <= Len(s) /\ Len(s) \in Nat BY <1>4 DEF Complete
  <2>2. total \in Nat /\ 6 <= total BY <1>2, <2>1, FrameLenRange
  <2>3. 1 + total - 1 <= Len(s) BY <1>2, <1>4 DEF Complete
  <2> QED BY <2>1, <2>2, <2>3
<1>8. /\ SubSeq(s, 1, total) \in Seq(Byte) /\ Len(SubSeq(s, 1, total)) = total
      /\ \A i \in 1 .. total : SubSeq(s, 1, total)[i] = s[i]
  <2>1. \A i \in 1 .. total : s[i] \in Byte BY <1>7
  <2>2. total \in Int /\ 1 \in Int /\ 1 <= total BY <1>7
  <2>3. /\ SubSeq(s, 1, total) \in Seq(Byte)
        /\ Len(SubSeq(s, 1, total)) = IF 1 <= total THEN total - 1 + 1 ELSE 0
        /\ \A i \in 1 .. total - 1 + 1 : SubSeq(s, 1, total)[i] = s[1 + i - 1]
    BY <2>1, <2>2, SubSeqProperties
  <2> QED BY <2>2, <2>3
<1>9. t.at = Consumed + n + 1 /\ t.bytes = SubSeq(s, 1, total)
  <2>1. t.at = Len(received) - Len(s) + 1 /\ t.bytes = SubSeq(s, 1, total) BY <1>3
  <2>2. Len(s) = Len(buf) - n /\ n \in Int BY <1>5
  <2>3. Len(received) - Len(s) + 1 = Consumed + n + 1 BY <1>1, <1>6, <2>2
  <2> QED BY <2>1, <2>3
<1>10. t \in TakenFrame /\ Len(t.bytes) = total
  BY <1>3, <1>6, <1>8, <1>9 DEF TakenFrame
<1>11. t.bytes[1] = Preamble /\ Len(t.bytes) = FrameLen(t.bytes, 1)
  <2>1. 1 \in 1 .. total /\ 1 + 1 \in 1 .. total /\ 1 + 2 \in 1 .. total BY <1>7
  <2>2. t.bytes[1] = s[1] /\ t.bytes[1 + 1] = s[1 + 1] /\ t.bytes[1 + 2] = s[1 + 2]
    BY <1>8, <1>9, <2>1
  <2>3. FrameLen(t.bytes, 1) = FrameLen(s, 1) BY <2>2, Zenon DEF FrameLen
  <2> QED BY <1>2, <1>5, <1>10, <2>2, <2>3
<1>12. \A i \in 1 .. total : t.bytes[i] = buf[n + i]
  <2> TAKE i \in 1 .. total
  <2>1. i \in 1 .. Len(buf) - n BY <1>5, <1>7
  <2> QED BY <1>5, <1>8, <1>9, <2>1
<1>13. /\ buf' \in Seq(Byte) /\ Len(buf') = Len(buf) - (n + total)
       /\ \A k \in 1 .. Len(buf) - (n + total) : buf'[k] = buf[(n + total) + k]
  <2>1. total + 1 \in 1 .. Len(s) + 1 BY <1>7
  <2>2. /\ buf' \in Seq(Byte) /\ Len(buf') = Len(s) - (total + 1) + 1
        /\ \A k \in 1 .. Len(s) - (total + 1) + 1 : buf'[k] = s[(total + 1) + k - 1]
    BY <1>4, <2>1, FromFacts
  <2>3. Len(s) - (total + 1) + 1 = Len(buf) - (n + total) BY <1>1, <1>5, <1>7
  <2>4. ASSUME NEW k \in 1 .. Len(buf) - (n + total) PROVE buf'[k] = buf[(n + total) + k]
    <3>1. /\ (total + 1) + k - 1 = total + k /\ total + k \in 1 .. Len(buf) - n
          /\ n + (total + k) = (n + total) + k
      BY <1>1, <1>5, <1>7
    <3>2. buf'[k] = s[total + k] BY <2>2, <2>3, <3>1
    <3> QED BY <1>5, <3>1, <3>2
  <2> QED BY <2>2, <2>3, <2>4
<1>14. n + total <= Len(buf) /\ n \in Nat BY <1>1, <1>5, <1>7
<1> QED BY <1>4, <1>5, <1>7, <1>9, <1>10, <1>11, <1>12, <1>13, <1>14

LEMMA ExtractFrameStep ==
  ASSUME ExtInv, extract_frame
  PROVE  ExtInv'
<1>1. /\ buf \in Seq(Byte) /\ Len(buf) \in Nat /\ received \in Seq(Byte) /\ Len(received) \in Nat
      /\ taken \in Seq(TakenFrame) /\ frames \in Seq(TakenFrame)
  BY DEF ExtInv, ExtTypeOK
<1>2. PICK t \in TakenFrame, n \in Nat :
           /\ frames' = Append(frames, t) /\ taken' = Append(taken, t)
           /\ t.at = Consumed + n + 1
           /\ Len(t.bytes) \in Nat /\ 6 <= Len(t.bytes) /\ n + Len(t.bytes) <= Len(buf)
           /\ t.bytes[1] = Preamble /\ Len(t.bytes) = FrameLen(t.bytes, 1)
           /\ \A i \in 1 .. Len(t.bytes) : t.bytes[i] = buf[n + i]
           /\ \A k \in 1 .. n : buf[k] # Preamble
           /\ buf' \in Seq(Byte) /\ Len(buf') = Len(buf) - (n + Len(t.bytes))
           /\ \A k \in 1 .. Len(buf) - (n + Len(t.bytes)) : buf'[k] = buf[(n + Len(t.bytes)) + k]
  BY FrameCut
<1>3. UNCHANGED <<pc, line, received, starts, cuts, handled>> /\ pc = "extract"
  BY DEF extract_frame
<1>4. /\ Consumed \in Nat /\ Consumed <= Len(received) /\ Len(received) = Consumed + Len(buf)
  BY ConsumedType DEF ExtInv
<1>5. BufferIsSuffix' /\ Consumed' = Consumed + (n + Len(t.bytes))
  <2>1. n + Len(t.bytes) \in 0 .. Len(buf) BY SMTT(30), <1>1, <1>2
  <2> QED BY <1>2, <1>3, <2>1, Shrunk DEF ExtInv
<1>cm. PICK c \in Nat, m \in Nat :
        /\ c = Consumed /\ m = Len(t.bytes)
        /\ t.at = c + n + 1 /\ t.at \in Nat /\ 6 <= m /\ n + m <= Len(buf)
        /\ Consumed' = c + n + m /\ Len(received) = c + Len(buf)
  <2>1. Consumed + n + 1 \in Nat BY <1>4
  <2>2. Consumed + (n + Len(t.bytes)) = Consumed + n + Len(t.bytes) BY <1>2, <1>4, <2>1
  <2> QED BY <1>2, <1>4, <1>5, <2>1, <2>2
<1>6. Consumed' \in Nat /\ Consumed <= Consumed' /\ t.at + Len(t.bytes) - 1 = Consumed'
  <2>1. c + n + m \in Nat /\ c <= c + n + m /\ c + n + 1 + m - 1 = c + n + m OBVIOUS
  <2> QED BY <1>cm, <2>1
<1>7. IsRun(t)'
  <2>1. ASSUME NEW i \in 1 .. Len(t.bytes) PROVE t.bytes[i] = received'[t.at + i - 1]
    <3>1. n + i \in 1 .. Len(buf) /\ Consumed + (n + i) = t.at + i - 1
      <4>1. i \in Nat /\ 1 <= i /\ i <= m /\ n + m <= Len(buf) BY <1>cm
      <4>2. n + i \in 1 .. Len(buf) /\ c + (n + i) = c + n + 1 + i - 1 BY <1>1, <4>1
      <4> QED BY <1>cm, <4>2
    <3>2. buf[n + i] = received[Consumed + (n + i)] BY <3>1 DEF ExtInv, BufferIsSuffix
    <3> QED BY <1>2, <1>3, <3>1, <3>2
  <2>2. t.at + Len(t.bytes) - 1 <= Consumed' BY <1>6
  <2> QED BY <1>2, <2>1, <2>2 DEF IsRun
<1>8. /\ Len(taken) \in Nat /\ Len(taken') = Len(taken) + 1 /\ taken'[Len(taken) + 1] = t
      /\ \A k \in 1 .. Len(taken) : taken'[k] = taken[k]
      /\ DOMAIN taken' = 1 .. Len(taken) + 1 /\ DOMAIN taken = 1 .. Len(taken)
  BY SMTT(30), <1>1, <1>2
<1>9. /\ Len(frames) \in Nat /\ Len(frames') = Len(frames) + 1 /\ frames'[Len(frames) + 1] = t
      /\ \A k \in 1 .. Len(frames) : frames'[k] = frames[k]
      /\ DOMAIN frames' = 1 .. Len(frames) + 1 /\ DOMAIN frames = 1 .. Len(frames)
  BY SMTT(30), <1>1, <1>2
<1>10. ASSUME NEW k \in 1 .. Len(taken)
       PROVE  /\ taken[k] \in TakenFrame /\ IsRun(taken[k]) /\ Len(taken[k].bytes) \in Nat
              /\ taken[k].at + Len(taken[k].bytes) <= t.at /\ taken[k].at < t.at
              /\ taken[k].at \in Nat
  <2>1. taken[k] \in TakenFrame BY <1>1
  <2>2. IsRun(taken[k]) BY <1>8 DEF ExtInv, RunsInv
  <2>3. taken[k].at \in Nat /\ Len(taken[k].bytes) \in Nat BY <2>1 DEF TakenFrame
  <2>4. taken[k].at + Len(taken[k].bytes) - 1 <= Consumed /\ Len(taken[k].bytes) >= 6
    BY <2>2 DEF IsRun
  <2>5. PICK p \in Nat : p = t.at /\ p = c + n + 1 BY <1>cm
  <2>7. p >= c + 1 BY <2>5
  <2>6. ASSUME NEW a \in Nat, NEW l \in Nat, NEW b \in Nat, a + l - 1 <= c, l >= 6, b >= c + 1
        PROVE  a + l <= b /\ a < b
    BY <2>6
  <2>8. taken[k].at + Len(taken[k].bytes) - 1 <= c BY <1>cm, <2>4
  <2>9. taken[k].at + Len(taken[k].bytes) <= p /\ taken[k].at < p
    BY <2>3, <2>4, <2>6, <2>7, <2>8
  <2> QED BY <2>1, <2>2, <2>3, <2>5, <2>9
<1>11. RunsInv'
  <2>1. ASSUME NEW k \in 1 .. Len(taken) PROVE IsRun(taken[k])'
    <3>1. PICK u \in TakenFrame : u = taken[k] BY <1>10
    <3>2. IsRun(u) BY <1>10, <3>1
    <3>3. IsRun(u)' BY <1>3, <1>6, <3>2, RunStays DEF ExtInv
    <3> QED BY <1>8, <3>1, <3>3
  <2>2. ASSUME NEW k \in DOMAIN taken' PROVE IsRun(taken[k])'
    <3>1. CASE k \in 1 .. Len(taken) BY <2>1, <3>1
    <3>2. CASE k = Len(taken) + 1 BY <1>7, <1>8, <3>2 DEF IsRun
    <3> QED BY <1>8, <3>1, <3>2
  <2>3. ASSUME NEW j \in DOMAIN taken', NEW k \in DOMAIN taken', j < k
        PROVE  taken'[j].at + Len(taken'[j].bytes) <= taken'[k].at
    <3>1. CASE k \in 1 .. Len(taken)
      <4>1. j \in 1 .. Len(taken) BY <1>8, <2>3, <3>1
      <4> QED BY <1>8, <2>3, <3>1, <4>1 DEF ExtInv, RunsInv, Apart
    <3>2. CASE k = Len(taken) + 1
      <4>1. j \in 1 .. Len(taken) BY <1>8, <2>3, <3>2
      <4> QED BY <1>8, <1>10, <3>2, <4>1
    <3> QED BY <1>8, <3>1, <3>2
  <2> QED BY <2>2, <2>3 DEF RunsInv, Apart
<1>12. NoPreambleDropped'
  <2> SUFFICES ASSUME NEW i \in 1 .. Consumed', received[i] = Preamble
               PROVE  \E k \in DOMAIN taken' : Covers(taken'[k], i)
    BY <1>3 DEF NoPreambleDropped
  <2>0. i \in Nat /\ i >= 1 /\ i <= c + n + m
    <3>1. i \in 1 .. c + n + m BY <1>cm
    <3> QED BY <3>1
  <2>1. CASE i <= c
    <3>0. i \in 1 .. Consumed BY <1>cm, <2>0, <2>1
    <3>1. PICK k \in DOMAIN taken : Covers(taken[k], i)
      BY <3>0 DEF ExtInv, NoPreambleDropped
    <3> QED BY <1>8, <3>1
  <2>2. CASE i > c /\ i <= c + n
    <3>1. i - c \in 1 .. n /\ i = c + (i - c) BY <2>0, <2>2
    <3>2. i - c \in 1 .. Len(buf)
      <4>1. n <= Len(buf) BY <1>1, <1>cm
      <4> QED BY <1>1, <2>0, <3>1, <4>1
    <3>3. buf[i - c] = received[i] BY <1>cm, <3>1, <3>2 DEF ExtInv, BufferIsSuffix
    <3> QED BY <1>2, <3>1, <3>3
  <2>3. CASE i > c + n
    <3>0. c + n + 1 <= i /\ i < c + n + 1 + m BY <2>0, <2>3
    <3>1. t.at <= i /\ i < t.at + Len(t.bytes) BY <1>cm, <3>0
    <3>2. Len(taken) + 1 \in DOMAIN taken' BY <1>8
    <3> QED BY <1>8, <3>1, <3>2 DEF Covers
  <2> QED BY <2>0, <2>1, <2>2, <2>3
<1>13. PartialFrameOnly' BY <1>3 DEF PartialFrameOnly
<1>14. HandlingInv'
  <2>1. ASSUME NEW k \in DOMAIN frames' PROVE \E l \in DOMAIN taken' : taken'[l] = frames'[k]
    <3>1. CASE k \in 1 .. Len(frames)
      <4>1. PICK l \in DOMAIN taken : taken[l] = frames[k] BY <1>9, <3>1 DEF ExtInv, HandlingInv
      <4>2. l \in DOMAIN taken' /\ taken'[l] = taken[l] BY <1>8
      <4> QED BY <1>9, <3>1, <4>1, <4>2
    <3>2. CASE k = Len(frames) + 1
      <4>1. Len(taken) + 1 \in DOMAIN taken' BY <1>8
      <4> QED BY <1>8, <1>9, <3>2, <4>1
    <3> QED BY <1>9, <3>1, <3>2
  <2>2. ASSUME NEW j \in DOMAIN frames', NEW k \in DOMAIN frames', j < k
        PROVE  frames'[j].at < frames'[k].at
    <3>1. CASE k \in 1 .. Len(frames)
      <4>1. j \in 1 .. Len(frames) BY <1>9, <2>2, <3>1
      <4> QED BY <1>9, <2>2, <3>1, <4>1 DEF ExtInv, HandlingInv
    <3>2. CASE k = Len(frames) + 1
      <4>1. j \in 1 .. Len(frames) BY <1>9, <2>2, <3>2
      <4>2. PICK l \in DOMAIN taken : taken[l] = frames[j] BY <1>9, <4>1 DEF ExtInv, HandlingInv
      <4> QED BY <1>8, <1>9, <1>10, <3>2, <4>1, <4>2
    <3> QED BY <1>9, <3>1, <3>2
  <2>3. ASSUME NEW k \in DOMAIN frames', NEW j \in DOMAIN handled
        PROVE  handled[j] < frames'[k].at
    <3>1. CASE k \in 1 .. Len(frames) BY <1>9, <3>1 DEF ExtInv, HandlingInv, HandledOnceInOrder
    <3>2. CASE k = Len(frames) + 1
      <4>1. PICK l \in DOMAIN taken : taken[l].at = handled[j]
        BY DEF ExtInv, HandlingInv, HandledOnceInOrder
      <4> QED BY <1>8, <1>9, <1>10, <3>2, <4>1
    <3> QED BY <1>9, <3>1, <3>2
  <2>4. ASSUME NEW j \in DOMAIN handled PROVE \E k \in DOMAIN taken' : taken'[k].at = handled[j]
    <3>1. PICK l \in DOMAIN taken : taken[l].at = handled[j]
      BY DEF ExtInv, HandlingInv, HandledOnceInOrder
    <3> QED BY <1>8, <3>1
  <2>5. \A j, k \in DOMAIN handled : j < k => handled[j] < handled[k]
    BY DEF ExtInv, HandlingInv, HandledOnceInOrder
  <2> QED BY <1>3, <2>1, <2>2, <2>3, <2>4, <2>5 DEF HandlingInv, HandledOnceInOrder
<1>15. ExtTypeOK' BY <1>1, <1>2, <1>3 DEF ExtInv, ExtTypeOK
<1> QED BY <1>5, <1>11, <1>12, <1>13, <1>14, <1>15 DEF ExtInv

\* The first of the frames that wait is handled: it is after all those handled
\* and before all those that still wait.
LEMMA HandleFrameStep ==
  ASSUME ExtInv, handle_frame
  PROVE  ExtInv'
<1>1. frames \in Seq(TakenFrame) /\ frames # <<>> /\ handled \in Seq(Nat)
  BY DEF ExtInv, ExtTypeOK, handle_frame
<1>2. PICK t \in TakenFrame, a \in Nat : t = frames[1] /\ a = t.at
  <2>1. frames[1] \in TakenFrame BY <1>1
  <2>2. frames[1].at \in Nat BY <2>1 DEF TakenFrame
  <2> QED BY <2>1, <2>2
<1>3. handled' = Append(handled, a) /\ frames' = Tail(frames)
      /\ UNCHANGED <<pc, line, buf, received, starts, cuts, taken>>
  BY <1>1, <1>2 DEF handle_frame
<1>4. /\ Len(frames) \in Nat /\ frames' \in Seq(TakenFrame) /\ Len(frames') = Len(frames) - 1
      /\ \A k \in 1 .. Len(frames) - 1 : frames'[k] = frames[k + 1]
      /\ DOMAIN frames' = 1 .. Len(frames) - 1 /\ DOMAIN frames = 1 .. Len(frames)
      /\ Len(frames) >= 1
  BY <1>1, <1>3
<1>5. /\ Len(handled) \in Nat /\ handled' \in Seq(Nat) /\ Len(handled') = Len(handled) + 1
      /\ \A k \in 1 .. Len(handled) : handled'[k] = handled[k]
      /\ handled'[Len(handled) + 1] = a
      /\ DOMAIN handled' = 1 .. Len(handled) + 1 /\ DOMAIN handled = 1 .. Len(handled)
  BY <1>1, <1>3
<1>6. ASSUME NEW k \in DOMAIN frames'
      PROVE  k + 1 \in DOMAIN frames /\ frames'[k] = frames[k + 1] /\ 1 \in DOMAIN frames /\ 1 < k + 1
  BY <1>4
<1>7. BufferIsSuffix' /\ RunsInv' /\ NoPreambleDropped' BY <1>3, BufferStays
<1>8. PartialFrameOnly' BY <1>3 DEF ExtInv, PartialFrameOnly
<1>9. HandlingInv'
  <2>1. \A k \in DOMAIN frames' : \E l \in DOMAIN taken : taken[l] = frames'[k]
    BY <1>6 DEF ExtInv, HandlingInv
  <2>2. ASSUME NEW j \in DOMAIN frames', NEW k \in DOMAIN frames', j < k
        PROVE  frames'[j].at < frames'[k].at
    <3>1. j + 1 < k + 1 BY <1>4, <2>2
    <3>2. frames[j + 1].at < frames[k + 1].at BY <1>6, <3>1 DEF ExtInv, HandlingInv
    <3> QED BY <1>6, <3>2
  <2>3. ASSUME NEW j \in DOMAIN handled PROVE handled[j] < a
    <3>1. 1 \in DOMAIN frames BY <1>4
    <3> QED BY <1>2, <3>1 DEF ExtInv, HandlingInv, HandledOnceInOrder
  <2>4. ASSUME NEW k \in DOMAIN frames' PROVE a < frames'[k].at
    BY <1>2, <1>6 DEF ExtInv, HandlingInv
  <2>5. ASSUME NEW k \in DOMAIN frames', NEW j \in DOMAIN handled'
        PROVE  handled'[j] < frames'[k].at
    <3>1. CASE j \in 1 .. Len(handled)
      <4>1. handled[j] < frames[k + 1].at BY <1>5, <1>6, <3>1 DEF ExtInv, HandlingInv, HandledOnceInOrder
      <4> QED BY <1>5, <1>6, <3>1, <4>1
    <3>2. CASE j = Len(handled) + 1 BY <1>5, <2>4, <3>2
    <3> QED BY <1>5, <3>1, <3>2
  <2>6. ASSUME NEW j \in DOMAIN handled', NEW k \in DOMAIN handled', j < k
        PROVE  handled'[j] < handled'[k]
    <3>1. CASE k \in 1 .. Len(handled)
      <4>1. j \in 1 .. Len(handled) BY <1>5, <2>6, <3>1
      <4> QED BY <1>5, <2>6, <3>1, <4>1 DEF ExtInv, HandlingInv, HandledOnceInOrder
    <3>2. CASE k = Len(handled) + 1
      <4>1. j \in 1 .. Len(handled) BY <1>5, <2>6, <3>2
      <4> QED BY <1>5, <2>3, <3>2, <4>1
    <3> QED BY <1>5, <3>1, <3>2
  <2>7. ASSUME NEW j \in DOMAIN handled' PROVE \E k \in DOMAIN taken : taken[k].at = handled'[j]
    <3>1. CASE j \in 1 .. Len(handled) BY <1>5, <3>1 DEF ExtInv, HandlingInv, HandledOnceInOrder
    <3>2. CASE j = Len(handled) + 1
      <4>1. PICK l \in DOMAIN taken : taken[l] = frames[1] BY <1>4 DEF ExtInv, HandlingInv
      <4> QED BY <1>2, <1>5, <3>2, <4>1
    <3> QED BY <1>5, <3>1, <3>2
  <2> QED BY <1>3, <2>1, <2>2, <2>5, <2>6, <2>7 DEF HandlingInv, HandledOnceInOrder
<1>10. ExtTypeOK' BY <1>3, <1>4, <1>5 DEF ExtInv, ExtTypeOK
<1> QED BY <1>7, <1>8, <1>9, <1>10 DEF ExtInv

\* The steps that give up what waits.
LEMMA GiveUpStep ==
  ASSUME ExtInv, drop_connection \/ handle_raises \/ feed_done
  PROVE  ExtInv'
<1>1. UNCHANGED <<buf, received, taken, cuts, handled>> /\ frames' \in {frames, <<>>}
  BY DEF drop_connection, handle_raises, feed_done
<1>2. BufferIsSuffix' /\ RunsInv' /\ NoPreambleDropped' BY <1>1, BufferStays
<1>3. PartialFrameOnly'
  BY DEF drop_connection, handle_raises, feed_done, ExtInv, PartialFrameOnly, Complete, FrameLen
<1>4. HandlingInv' BY <1>1 DEF ExtInv, HandlingInv, HandledOnceInOrder
<1>5. ExtTypeOK'
  <2>1. starts' \in SUBSET Int
    <3>1. starts' \subseteq starts BY DEF drop_connection, handle_raises, feed_done
    <3> QED BY <3>1 DEF ExtInv, ExtTypeOK
  <2>2. pc' \in {"down", "recv", "extract", "handle"} /\ line' \in Seq(Byte)
    <3>1. line \in Seq(Byte) BY DEF ExtInv, ExtTypeOK
    <3>2. <<>> \in Seq(Byte) OBVIOUS
    <3>3. line' \in {line, <<>>} /\ pc' \in {"down", "recv"}
      BY DEF drop_connection, handle_raises, feed_done
    <3> QED BY <3>1, <3>2, <3>3
  <2>3. frames' \in Seq(TakenFrame)
    <3>1. frames \in Seq(TakenFrame) BY DEF ExtInv, ExtTypeOK
    <3>2. <<>> \in Seq(TakenFrame) OBVIOUS
    <3> QED BY <1>1, <3>1, <3>2
  <2> QED BY <1>1, <2>1, <2>2, <2>3 DEF ExtInv, ExtTypeOK
<1> QED BY <1>2, <1>3, <1>4, <1>5 DEF ExtInv

LEMMA ExtNextStep == ExtInv /\ [ExtNext]_vars => ExtInv'
<1> SUFFICES ASSUME ExtInv, [ExtNext]_vars PROVE ExtInv'
  OBVIOUS
<1>1. CASE \E s \in Streams, k \in Offsets : connect(s, k) BY <1>1, ConnectStep
<1>2. CASE \E n \in 1 .. MaxRecv : recv(n) BY <1>2, RecvStep
<1>3. CASE drop_connection \/ handle_raises \/ feed_done BY <1>3, GiveUpStep
<1>4. CASE extract_done BY <1>4, ExtractDoneStep
<1>5. CASE extract_frame BY <1>5, ExtractFrameStep
<1>6. CASE handle_frame BY <1>6, HandleFrameStep
<1>7. CASE UNCHANGED vars
  <2>1. UNCHANGED <<pc, line, buf, frames, received, starts, cuts, taken, handled>> BY <1>7 DEF vars
  <2>2. BufferIsSuffix' /\ RunsInv' /\ NoPreambleDropped' BY <2>1, BufferStays
  <2>3. PartialFrameOnly' BY <2>1 DEF ExtInv, PartialFrameOnly
  <2>4. HandlingInv' BY <2>1 DEF ExtInv, HandlingInv, HandledOnceInOrder
  <2>5. ExtTypeOK' BY <2>1 DEF ExtInv, ExtTypeOK
  <2> QED BY <2>2, <2>3, <2>4, <2>5 DEF ExtInv
<1> QED BY <1>1, <1>2, <1>3, <1>4, <1>5, <1>6, <1>7 DEF ExtNext

\* The extractor keeps its inductive invariant: buffer and stream fit together
\* over any number of connections, however the stream is cut into chunks.
THEOREM ExtInvariant == ExtSpec => []ExtInv
<1>1. ExtInit => ExtInv BY ExtInitInv
<1>2. ExtInv /\ [ExtNext]_vars => ExtInv' BY ExtNextStep
<1> QED BY <1>1, <1>2, PTL DEF ExtSpec

\* The extractor's state keeps its types (feed_obs, extract_rtcm3_frames).
THEOREM ExtTyping == ExtSpec => []ExtTypeOK
<1>1. ExtInv => ExtTypeOK BY DEF ExtInv
<1> QED BY <1>1, ExtInvariant, PTL

\* Every frame handed to the handler is the run of received bytes at its place,
\* has the length its header says, and does not overlap another.
THEOREM Runs == ExtSpec => []FramesAreReceivedRuns
<1>1. ASSUME ExtInv PROVE FramesAreReceivedRuns
  <2> SUFFICES ASSUME NEW k \in DOMAIN taken
               PROVE  LET t == taken[k]
                      IN  /\ t.bytes = SubSeq(received, t.at, t.at + Len(t.bytes) - 1)
                          /\ t.bytes[1] = Preamble /\ Len(t.bytes) = FrameLen(t.bytes, 1)
                          /\ t.at + Len(t.bytes) - 1 <= Consumed
                          /\ \A j \in 1 .. k - 1 : taken[j].at + Len(taken[j].bytes) <= t.at
    BY DEF FramesAreReceivedRuns
  <2>1. PICK t \in TakenFrame : t = taken[k] BY <1>1 DEF ExtInv, ExtTypeOK
  <2>2. IsRun(t) BY <1>1, <2>1 DEF ExtInv, RunsInv
  <2>3. /\ t.at \in Nat /\ t.at >= 1 /\ t.bytes \in Seq(Byte) /\ Len(t.bytes) \in Nat
        /\ received \in Seq(Byte) /\ Len(received) \in Nat
    BY <1>1, <2>1 DEF TakenFrame, ExtInv, ExtTypeOK
  <2>4. Consumed \in Nat /\ Consumed <= Len(received) BY <1>1, ConsumedType DEF ExtInv
  <2>5. PICK e \in Int : e = t.at + Len(t.bytes) - 1 BY <2>3
  <2>6. e <= Len(received) /\ e - t.at + 1 = Len(t.bytes) /\ t.at <= e
    <3>1. PICK a \in Nat, m \in Nat, c \in Nat :
            a = t.at /\ m = Len(t.bytes) /\ c = Consumed /\ a + m - 1 <= c /\ m >= 6
      BY <2>2, <2>3, <2>4 DEF IsRun
    <3>2. e = a + m - 1 /\ c <= Len(received) BY <2>4, <2>5, <3>1
    <3>3. PICK r \in Nat : r = Len(received) BY <2>3
    <3>4. c <= r /\ e = a + m - 1 /\ a + m - 1 <= c /\ m >= 6 BY <3>1, <3>2, <3>3
    <3>5. e <= r /\ e - a + 1 = m /\ a <= e BY <3>4
    <3> QED BY <3>1, <3>3, <3>5
  <2>7. \A i \in t.at .. e : received[i] \in Byte BY <2>3, <2>6
  <2>8. /\ SubSeq(received, t.at, e) \in Seq(Byte)
        /\ Len(SubSeq(received, t.at, e)) = IF t.at <= e THEN e - t.at + 1 ELSE 0
        /\ \A i \in 1 .. e - t.at + 1 : SubSeq(received, t.at, e)[i] = received[t.at + i - 1]
    BY <2>3, <2>7, SubSeqProperties
  <2>9. Len(SubSeq(received, t.at, e)) = Len(t.bytes) BY <2>6, <2>8
  <2>10. \A i \in 1 .. Len(t.bytes) : t.bytes[i] = SubSeq(received, t.at, e)[i]
    BY <2>2, <2>6, <2>8 DEF IsRun
  <2>11. t.bytes = SubSeq(received, t.at, e) BY <2>3, <2>8, <2>9, <2>10, SeqEqual
  <2>12. \A j \in 1 .. k - 1 : taken[j].at + Len(taken[j].bytes) <= taken[k].at
    <3>1. \A j \in 1 .. k - 1 : j \in DOMAIN taken /\ j < k BY <1>1 DEF ExtInv, ExtTypeOK
    <3> QED BY <1>1, <3>1 DEF ExtInv, RunsInv, Apart
  <2> QED BY <2>1, <2>2, <2>5, <2>11, <2>12 DEF IsRun
<1> QED BY <1>1, ExtInvariant, PTL

\* No preamble byte is dropped as noise by the trimming of the buffer.
THEOREM PreamblesKept == ExtSpec => []NoPreambleDropped
<1>1. ExtInv => NoPreambleDropped BY DEF ExtInv
<1> QED BY <1>1, ExtInvariant, PTL

\* Between two recvs less than one frame waits in the buffer, whatever arrives.
THEOREM PartialOnly == ExtSpec => []PartialFrameOnly
<1>1. ExtInv => PartialFrameOnly BY DEF ExtInv
<1> QED BY <1>1, ExtInvariant, PTL

\* No frame is handled twice or out of order, across exceptions and reconnects.
THEOREM HandledInOrder == ExtSpec => []HandledOnceInOrder
<1>1. ExtInv => HandledOnceInOrder BY DEF ExtInv, HandlingInv
<1> QED BY <1>1, ExtInvariant, PTL

-----------------------------------------------------------------------------
\* What the scan does at position i, given what it does further on.
ScanAt(s, f, i) ==
  IF i > Len(s) THEN <<>>
  ELSE IF s[i] # Preamble THEN f[i + 1]
  ELSE IF ~Complete(s, i) THEN <<>>
  ELSE <<i>> \o f[i + FrameLen(s, i)]

ScanFunction(s) == CHOOSE f : f = [i \in 1 .. Len(s) + 1 |-> ScanAt(s, f, i)]

\* The recursion of Scan is well founded: a position only asks for later ones.
LEMMA ScanExists ==
  ASSUME NEW s \in Seq(Byte)
  PROVE  \E f : f = [i \in 1 .. Len(s) + 1 |-> ScanAt(s, f, i)]
<1> DEFINE end == Len(s) + 1
           T == {m \in 1 .. end : \E f : f = [i \in m .. end |-> ScanAt(s, f, i)]}
<1>1. end \in Nat /\ end >= 1 /\ Len(s) \in Nat OBVIOUS
<1>2. T \in SUBSET Nat OBVIOUS
<1>3. end \in T
  <2> DEFINE f == [i \in end .. end |-> <<>>]
  <2>1. \A i \in end .. end : ScanAt(s, f, i) = <<>> BY <1>1 DEF ScanAt
  <2>2. f = [i \in end .. end |-> ScanAt(s, f, i)] BY <2>1
  <2>3. end \in 1 .. end BY <1>1
  <2> QED BY <2>2, <2>3
<1> DEFINE m == Min(T)
<1>4. m \in T /\ \A k \in T : m <= k BY <1>2, <1>3, MinIsLeast
<1> HIDE DEF m
<1>5. PICK f : f = [i \in m .. end |-> ScanAt(s, f, i)] BY <1>4
<1>6. m \in 1 .. end BY <1>4
<1>7. CASE m = 1 BY <1>5, <1>7
<1>8. CASE m # 1
  <2> DEFINE g == [i \in m - 1 .. end |-> IF i = m - 1 THEN ScanAt(s, f, m - 1) ELSE f[i]]
  <2>1. m - 1 \in 1 .. end /\ m \in Nat /\ m > 1 BY <1>6, <1>8
  <2>2. \A i \in m .. end : g[i] = f[i] BY <2>1, <1>6
  <2> HIDE DEF g
  <2>3. ASSUME NEW i \in m - 1 .. end PROVE ScanAt(s, g, i) = ScanAt(s, f, i)
    <3>1. CASE i > Len(s) BY <3>1 DEF ScanAt
    <3>2. CASE i <= Len(s)
      <4>1. i + 1 \in m .. end /\ i \in Nat /\ i >= 1 BY <1>1, <2>1, <3>2
      <4>2. g[i + 1] = f[i + 1] BY <2>2, <4>1
      <4>3. CASE Complete(s, i)
        <5>1. i + 2 <= Len(s) /\ i + FrameLen(s, i) - 1 <= Len(s) BY <4>3 DEF Complete
        <5>2. PICK l \in Nat : l = FrameLen(s, i) /\ 6 <= l BY <4>1, <5>1, FrameLenRange
        <5>3. i + l \in m .. end BY <1>1, <2>1, <4>1, <5>1, <5>2
        <5>4. g[i + l] = f[i + l] BY <2>2, <5>3
        <5> QED BY <4>2, <5>2, <5>4 DEF ScanAt
      <4>4. CASE ~Complete(s, i) BY <4>2, <4>4 DEF ScanAt
      <4> QED BY <4>3, <4>4
    <3> QED BY <1>1, <2>1, <3>1, <3>2
  <2>4. ASSUME NEW i \in m - 1 .. end PROVE g[i] = ScanAt(s, f, i)
    <3>1. CASE i = m - 1 BY <3>1 DEF g
    <3>2. CASE i # m - 1
      <4>1. i \in m .. end BY <2>1, <1>6, <3>2
      <4> QED BY <1>5, <2>2, <4>1
    <3> QED BY <3>1, <3>2
  <2>5. g = [i \in m - 1 .. end |-> g[i]] BY DEF g
  <2>6. g = [i \in m - 1 .. end |-> ScanAt(s, g, i)] BY <2>3, <2>4, <2>5
  <2>7. m - 1 \in T BY <2>1, <2>6
  <2> QED BY <1>4, <2>1, <2>7
<1> QED BY <1>7, <1>8

\* So the recursion equation holds.
LEMMA ScanUnfolds ==
  ASSUME NEW s \in Seq(Byte)
  PROVE  /\ Scan(s) = ScanFunction(s)[1]
         /\ \A i \in 1 .. Len(s) + 1 : ScanFunction(s)[i] = ScanAt(s, ScanFunction(s), i)
<1>1. Scan(s) = ScanFunction(s)[1] BY DEF Scan, ScanFunction, ScanAt
<1> DEFINE F == ScanFunction(s)
<1>2. F = [i \in 1 .. Len(s) + 1 |-> ScanAt(s, F, i)] BY ScanExists DEF ScanFunction
<1> HIDE DEF F
<1>3. \A i \in 1 .. Len(s) + 1 : F[i] = ScanAt(s, F, i) BY <1>2
<1> QED BY <1>1, <1>3 DEF F

\* Where the scan goes on once the first k of the frames at p are found.
ScanNext(s, p, k) == IF k = 0 THEN 1 ELSE p[k] + FrameLen(s, p[k])

\* p is what one scan over s finds, said without recursion: from frame to frame
\* no preamble is passed over, and behind the last one stands no preamble, or
\* one whose frame is not all there.
IsScan(s, p) ==
  /\ \A k \in DOMAIN p :
       /\ p[k] \in Preambles(s) /\ Complete(s, p[k])
       /\ ScanNext(s, p, k - 1) <= p[k]
       /\ \A i \in ScanNext(s, p, k - 1) .. p[k] - 1 : s[i] # Preamble
  /\ \E q \in ScanNext(s, p, Len(p)) .. Len(s) + 1 :
       /\ \A i \in ScanNext(s, p, Len(p)) .. q - 1 : s[i] # Preamble
       /\ q <= Len(s) => s[q] = Preamble /\ ~Complete(s, q)

\* Bytes other than the preamble are passed over.
LEMMA ScanSkips ==
  ASSUME NEW s \in Seq(Byte), NEW a \in 1 .. Len(s) + 1, NEW b \in a .. Len(s) + 1,
         \A i \in a .. b - 1 : s[i] # Preamble
  PROVE  ScanFunction(s)[a] = ScanFunction(s)[b]
<1> DEFINE F == ScanFunction(s)
           T == {m \in a .. b : F[m] = F[b]}
           m == Min(T)
<1>1. a \in Nat /\ a >= 1 /\ b \in Nat /\ a <= b /\ b <= Len(s) + 1 /\ Len(s) \in Nat OBVIOUS
<1>2. \A i \in 1 .. Len(s) + 1 : F[i] = ScanAt(s, F, i) BY ScanUnfolds
<1> HIDE DEF F
<1>3. T \in SUBSET Nat /\ b \in T BY <1>1
<1>4. m \in T /\ \A k \in T : m <= k BY <1>3, MinIsLeast
<1> HIDE DEF m
<1>5. CASE m = a BY <1>4, <1>5 DEF F
<1>6. CASE m # a
  <2>1. m - 1 \in a .. b - 1 /\ m - 1 \in 1 .. Len(s) /\ m \in Nat BY <1>1, <1>4, <1>6
  <2>2. s[m - 1] # Preamble BY <2>1
  <2>3. ScanAt(s, F, m - 1) = F[(m - 1) + 1] BY <1>1, <2>1, <2>2 DEF ScanAt
  <2>4. F[m - 1] = F[m] BY <1>2, <2>1, <2>3
  <2>5. m - 1 \in T BY <1>4, <2>1, <2>4
  <2> QED BY <1>4, <2>1, <2>5
<1> QED BY <1>5, <1>6

\* A sequence with an element put in front.
LEMMA ConsFacts ==
  ASSUME NEW b \in Nat, NEW r \in Seq(Nat)
  PROVE  /\ <<b>> \o r \in Seq(Nat) /\ Len(<<b>> \o r) = 1 + Len(r)
         /\ (<<b>> \o r)[1] = b
         /\ \A i \in 1 .. Len(r) : (<<b>> \o r)[1 + i] = r[i]
OBVIOUS

\* What IsScan describes is what Scan computes: from the last frame back to the
\* first, the scan from behind frame k finds the frames from k + 1 on.
LEMMA ScanFound ==
  ASSUME NEW s \in Seq(Byte), NEW p \in Seq(Nat), IsScan(s, p)
  PROVE  Scan(s) = p
<1> DEFINE F == ScanFunction(s)
           n == Len(p)
           rest(k) == [i \in 1 .. n - k |-> p[k + i]]
           T == {k \in 0 .. n : F[ScanNext(s, p, k)] = rest(k)}
<1>1. Len(s) \in Nat /\ n \in Nat /\ DOMAIN p = 1 .. n OBVIOUS
<1>2. Scan(s) = F[1] /\ \A i \in 1 .. Len(s) + 1 : F[i] = ScanAt(s, F, i) BY ScanUnfolds
<1>3. ASSUME NEW k \in 1 .. n
      PROVE  /\ p[k] \in Nat /\ p[k] >= 1 /\ p[k] <= Len(s) /\ s[p[k]] = Preamble
             /\ Complete(s, p[k])
             /\ FrameLen(s, p[k]) \in Nat /\ FrameLen(s, p[k]) >= 6
             /\ ScanNext(s, p, k) = p[k] + FrameLen(s, p[k])
             /\ ScanNext(s, p, k) <= Len(s) + 1
  <2>1. p[k] \in Preambles(s) /\ Complete(s, p[k]) BY <1>1 DEF IsScan
  <2>2. p[k] \in Nat /\ p[k] >= 1 /\ p[k] <= Len(s) /\ s[p[k]] = Preamble BY <2>1 DEF Preambles
  <2>3. p[k] + 2 <= Len(s) /\ p[k] + FrameLen(s, p[k]) - 1 <= Len(s) BY <2>1 DEF Complete
  <2>4. PICK l \in Nat : l = FrameLen(s, p[k]) /\ l >= 6 BY <2>2, <2>3, FrameLenRange
  <2>5. ScanNext(s, p, k) = p[k] + FrameLen(s, p[k]) BY DEF ScanNext
  <2>6. p[k] + l <= Len(s) + 1 BY <1>1, <2>2, <2>3, <2>4
  <2> QED BY <2>1, <2>2, <2>4, <2>5, <2>6
<1>4. ASSUME NEW k \in 0 .. n
      PROVE  ScanNext(s, p, k) \in 1 .. Len(s) + 1
  <2>1. CASE k = 0 BY <1>1, <2>1 DEF ScanNext
  <2>2. CASE k # 0
    <3>1. k \in 1 .. n BY <2>2
    <3>2. PICK a \in Nat, l \in Nat :
            a = p[k] /\ l = FrameLen(s, p[k]) /\ a >= 1 /\ ScanNext(s, p, k) = a + l /\ a + l <= Len(s) + 1
      BY <1>3, <3>1
    <3> QED BY <1>1, <3>2
  <2> QED BY <2>1, <2>2
<1>5. n \in T
  <2> DEFINE e == ScanNext(s, p, n)
  <2>1. PICK q \in e .. Len(s) + 1 :
          /\ \A i \in e .. q - 1 : s[i] # Preamble
          /\ q <= Len(s) => s[q] = Preamble /\ ~Complete(s, q)
    BY DEF IsScan
  <2>2. e \in 1 .. Len(s) + 1 BY <1>1, <1>4
  <2>3. F[e] = F[q] BY <2>1, <2>2, ScanSkips
  <2>4. q \in 1 .. Len(s) + 1 BY <1>1, <2>2
  <2>5. F[q] = <<>>
    <3>1. F[q] = ScanAt(s, F, q) BY <1>2, <2>4
    <3>2. CASE q <= Len(s) BY <1>1, <2>1, <2>4, <3>1, <3>2 DEF ScanAt
    <3>3. CASE q > Len(s) BY <3>1, <3>3 DEF ScanAt
    <3> QED BY <1>1, <2>4, <3>2, <3>3
  <2>6. rest(n) = <<>> BY <1>1
  <2> QED BY <1>1, <2>3, <2>5, <2>6
<1> DEFINE m == Min(T)
<1>6. m \in T /\ \A k \in T : m <= k
  <2>1. T \in SUBSET Nat BY <1>1
  <2> QED BY <1>5, <2>1, MinIsLeast
<1> HIDE DEF m
<1>7. CASE m = 0
  <2>1. F[1] = rest(0) BY <1>6, <1>7 DEF ScanNext
  <2>2. rest(0) = p BY <1>1
  <2> QED BY <1>2, <2>1, <2>2
<1>8. CASE m # 0
  <2>1. m \in 1 .. n /\ m - 1 \in 0 .. n /\ m \in Nat BY <1>1, <1>6, <1>8
  <2> DEFINE a == ScanNext(s, p, m - 1)
             b == p[m]
  <2>2. a \in 1 .. Len(s) + 1 BY <1>4, <2>1
  <2>3. /\ b \in Nat /\ b >= 1 /\ b <= Len(s) /\ s[b] = Preamble /\ Complete(s, b)
        /\ ScanNext(s, p, m) = b + FrameLen(s, b)
    BY <1>3, <2>1
  <2>4. a <= b /\ \A i \in a .. b - 1 : s[i] # Preamble BY <1>1, <2>1 DEF IsScan
  <2>5. b \in a .. Len(s) + 1 BY <1>1, <2>2, <2>3, <2>4
  <2>6. F[a] = F[b] BY <2>2, <2>4, <2>5, ScanSkips
  <2>7. F[b] = ScanAt(s, F, b) BY <1>1, <1>2, <2>3
  <2>8. ScanAt(s, F, b) = <<b>> \o F[b + FrameLen(s, b)]
    <3>1. ~(b > Len(s)) BY <1>1, <2>3
    <3> QED BY <2>3, <3>1, Zenon DEF ScanAt
  <2>9. F[b + FrameLen(s, b)] = rest(m) BY <1>6, <2>3
  <2>10. F[a] = <<b>> \o rest(m) BY <2>6, <2>7, <2>8, <2>9
  <2>11. <<b>> \o rest(m) = rest(m - 1)
    <3>1. rest(m) \in Seq(Nat) /\ Len(rest(m)) = n - m
      <4>1. \A i \in 1 .. n - m : m + i \in 1 .. n BY <1>1, <2>1
      <4>2. n - m \in Nat BY <1>1, <2>1
      <4>3. \A i \in 1 .. n - m : p[m + i] \in Nat BY <1>3, <4>1
      <4> QED BY <4>2, <4>3
    <3>2. rest(m - 1) \in Seq(Nat) /\ Len(rest(m - 1)) = n - (m - 1)
      <4>1. \A i \in 1 .. n - (m - 1) : (m - 1) + i \in 1 .. n BY <1>1, <2>1
      <4>2. n - (m - 1) \in Nat BY <1>1, <2>1
      <4>3. \A i \in 1 .. n - (m - 1) : p[(m - 1) + i] \in Nat BY <1>3, <4>1
      <4> QED BY <4>2, <4>3
    <3>3. <<b>> \o rest(m) \in Seq(Nat) /\ Len(<<b>> \o rest(m)) = 1 + (n - m)
      <4> HIDE DEF rest
      <4> QED BY <2>3, <3>1, ConsFacts
    <3>4. 1 + (n - m) = n - (m - 1) BY <1>1, <2>1
    <3>5. ASSUME NEW i \in 1 .. n - (m - 1) PROVE (<<b>> \o rest(m))[i] = rest(m - 1)[i]
      <4>1. CASE i = 1
        <5>1. rest(m - 1)[1] = p[(m - 1) + 1] /\ (m - 1) + 1 = m BY <1>1, <2>1
        <5>2. (<<b>> \o rest(m))[1] = b
          <6> HIDE DEF rest
          <6> QED BY <2>3, <3>1, ConsFacts
        <5> QED BY <4>1, <5>1, <5>2
      <4>2. CASE i # 1
        <5>1. i - 1 \in 1 .. n - m /\ (m - 1) + i = m + (i - 1) BY <1>1, <2>1, <4>2
        <5>2. rest(m - 1)[i] = p[m + (i - 1)] /\ rest(m)[i - 1] = p[m + (i - 1)] BY <5>1
        <5>3. (<<b>> \o rest(m))[1 + (i - 1)] = rest(m)[i - 1]
          <6> HIDE DEF rest, b
          <6>1. i - 1 \in 1 .. Len(rest(m)) BY <3>1, <5>1
          <6> QED BY <2>3, <3>1, <6>1, ConsFacts
        <5>4. 1 + (i - 1) = i OBVIOUS
        <5> QED BY <5>2, <5>3, <5>4
      <4> QED BY <4>1, <4>2
    <3> HIDE DEF rest
    <3> QED BY <3>2, <3>3, <3>4, <3>5, SeqEqual
  <2>12. m - 1 \in T BY <2>1, <2>10, <2>11
  <2> HIDE DEF T
  <2>13. m <= m - 1 BY <1>6, <2>12
  <2> QED BY <2>1, <2>13
<1> QED BY <1>7, <1>8

-----------------------------------------------------------------------------
Positions == [k \in DOMAIN taken |-> taken[k].at]

\* A frame taken is complete where it stands among the bytes received.
LEMMA TakenComplete ==
  ASSUME ExtInv, NEW k \in DOMAIN taken
  PROVE  /\ taken[k].at \in Preambles(received) /\ Complete(received, taken[k].at)
         /\ FrameLen(received, taken[k].at) = Len(taken[k].bytes)
         /\ Len(taken[k].bytes) \in Nat /\ taken[k].at \in Nat /\ taken[k].at >= 1
         /\ Len(taken[k].bytes) >= 6
         /\ taken[k].at + Len(taken[k].bytes) - 1 <= Consumed
<1>1. PICK t \in TakenFrame, a \in Nat, l \in Nat :
        t = taken[k] /\ a = t.at /\ l = Len(t.bytes) /\ a >= 1
  <2>1. taken[k] \in TakenFrame BY DEF ExtInv, ExtTypeOK
  <2> QED BY <2>1 DEF TakenFrame
<1>2. IsRun(t) BY <1>1 DEF ExtInv, RunsInv
<1>3. PICK c \in Nat, r \in Nat : c = Consumed /\ r = Len(received) /\ c <= r
  BY ConsumedType DEF ExtInv, ExtTypeOK
<1>4. l >= 6 /\ a + l - 1 <= c BY <1>1, <1>2, <1>3 DEF IsRun
<1>5. a <= r /\ a + l - 1 <= r /\ a + 2 <= r /\ 1 \in 1 .. l /\ 1 + 1 \in 1 .. l /\ 1 + 2 \in 1 .. l
  BY <1>1, <1>3, <1>4
<1>6. \A i \in 1 .. l : t.bytes[i] = received[a + i - 1] BY <1>1, <1>2 DEF IsRun
<1>7. a + 1 - 1 = a /\ a + (1 + 1) - 1 = a + 1 /\ a + (1 + 2) - 1 = a + 2 OBVIOUS
<1>8. t.bytes[1] = received[a] /\ t.bytes[1 + 1] = received[a + 1] /\ t.bytes[1 + 2] = received[a + 2]
  BY <1>5, <1>6, <1>7
<1>9. FrameLen(t.bytes, 1) = FrameLen(received, a) BY <1>8, Zenon DEF FrameLen
<1>10. FrameLen(received, a) = l BY <1>1, <1>2, <1>9 DEF IsRun
<1>11. Complete(received, a) BY <1>3, <1>5, <1>10 DEF Complete
<1>12. a \in Preambles(received)
  <2>1. a \in 1 .. Len(received) BY <1>1, <1>3, <1>5
  <2>2. received[a] = Preamble BY <1>1, <1>2, <1>8 DEF IsRun
  <2> QED BY <2>1, <2>2 DEF Preambles, ExtInv, ExtTypeOK
<1> QED BY <1>1, <1>3, <1>4, <1>10, <1>11, <1>12

\* A complete frame at the front of the buffer is one in the bytes received.
LEMMA CompleteInBuffer ==
  ASSUME ExtInv, buf # <<>>
  PROVE  /\ Consumed + 1 \in 1 .. Len(received) /\ buf[1] = received[Consumed + 1]
         /\ Complete(received, Consumed + 1) => Complete(buf, 1)
<1>1. PICK c \in Nat, r \in Nat, b \in Nat :
        c = Consumed /\ r = Len(received) /\ b = Len(buf) /\ r = c + b
  BY ConsumedType DEF ExtInv, ExtTypeOK
<1>2. b >= 1 BY <1>1 DEF ExtInv, ExtTypeOK
<1>3. \A i \in 1 .. b : buf[i] = received[c + i] BY <1>1 DEF ExtInv, BufferIsSuffix
<1>4. buf[1] = received[c + 1] /\ c + 1 \in 1 .. r BY <1>1, <1>2, <1>3
<1>5. ASSUME Complete(received, c + 1) PROVE Complete(buf, 1)
  <2>1. (c + 1) + 2 <= r /\ (c + 1) + FrameLen(received, c + 1) - 1 <= r
    BY <1>1, <1>5 DEF Complete
  <2>2. 2 \in 1 .. b /\ 3 \in 1 .. b BY <1>1, <2>1
  <2>3. buf[2] = received[c + 2] /\ buf[3] = received[c + 3] BY <1>3, <2>2
  <2>4. FrameLen(buf, 1) = FrameLen(received, c + 1)
    <3>1. (c + 1) + 1 = c + 2 /\ (c + 1) + 2 = c + 3 /\ 1 + 1 = 2 /\ 1 + 2 = 3 OBVIOUS
    <3>2. received[(c + 1) + 1] = buf[1 + 1] /\ received[(c + 1) + 2] = buf[1 + 2] BY <2>3, <3>1
    <3> QED BY <3>2, Zenon DEF FrameLen
  <2>5. received \in Seq(Byte) /\ c + 1 \in Nat /\ c + 1 >= 1 /\ (c + 1) + 2 <= Len(received)
    BY <1>1, <2>1 DEF ExtInv, ExtTypeOK
  <2>6. PICK l \in Nat : l = FrameLen(received, c + 1) BY <2>5, FrameLenRange
  <2>7. 1 + 2 <= b /\ 1 + l - 1 <= b BY <1>1, <2>1, <2>2, <2>6
  <2> QED BY <1>1, <2>4, <2>6, <2>7 DEF Complete
<1> QED BY <1>1, <1>4, <1>5

\* Up to the bytes still in the buffer, no preamble stands between two frames.
LEMMA NoPreambleBetween ==
  ASSUME ExtInv, NEW k \in 0 .. Len(taken), NEW i \in 1 .. Consumed,
         ScanNext(received, Positions, k) <= i,
         k < Len(taken) => i < taken[k + 1].at
  PROVE  received[i] # Preamble
<1> SUFFICES ASSUME received[i] = Preamble PROVE FALSE OBVIOUS
<1>1. PICK l \in DOMAIN taken : Covers(taken[l], i) BY DEF ExtInv, NoPreambleDropped
<1>2. Len(taken) \in Nat /\ DOMAIN taken = 1 .. Len(taken) BY DEF ExtInv, ExtTypeOK
<1>3. \A j \in DOMAIN taken : taken[j].at \in Nat /\ Len(taken[j].bytes) \in Nat /\ Len(taken[j].bytes) >= 6
  BY TakenComplete
<1>4. \A j, m \in DOMAIN taken : j < m => taken[j].at + Len(taken[j].bytes) <= taken[m].at
  BY DEF ExtInv, RunsInv, Apart
<1>5. taken[l].at <= i /\ i < taken[l].at + Len(taken[l].bytes) BY <1>1 DEF Covers
<1>6. CASE l <= k
  <2>1. k \in DOMAIN taken /\ k # 0 BY <1>2, <1>6
  <2>2. ScanNext(received, Positions, k) = taken[k].at + Len(taken[k].bytes)
    BY <2>1, TakenComplete DEF ScanNext, Positions
  <2>3. taken[l].at + Len(taken[l].bytes) <= taken[k].at + Len(taken[k].bytes)
    <3>1. CASE l = k BY <1>3, <2>1, <3>1
    <3>2. CASE l < k
      <4>1. taken[l].at + Len(taken[l].bytes) <= taken[k].at BY <1>4, <2>1, <3>2
      <4> QED BY <1>3, <2>1, <4>1
    <3> QED BY <1>2, <1>6, <3>1, <3>2
  <2> QED BY <1>3, <1>5, <2>1, <2>2, <2>3
<1>7. CASE l > k
  <2>1. k + 1 \in DOMAIN taken /\ k < Len(taken) BY <1>2, <1>7
  <2>2. i < taken[k + 1].at BY <2>1
  <2>3. taken[k + 1].at <= taken[l].at
    <3>1. CASE l = k + 1 BY <1>3, <2>1, <3>1
    <3>2. CASE k + 1 < l
      <4>1. taken[k + 1].at + Len(taken[k + 1].bytes) <= taken[l].at BY <1>4, <2>1, <3>2
      <4> QED BY <1>3, <2>1, <4>1
    <3> QED BY <1>2, <1>7, <3>1, <3>2
  <2> QED BY <1>3, <1>5, <2>1, <2>2, <2>3
<1> QED BY <1>2, <1>6, <1>7

\* With the loop done, the frames taken are the scan of the bytes received: the
\* buffer is empty or starts with a frame not all there.
LEMMA TakenIsScan ==
  ASSUME ExtInv, pc # "extract"
  PROVE  Positions \in Seq(Nat) /\ IsScan(received, Positions)
<1> DEFINE p == Positions
           n == Len(taken)
<1>1. /\ Len(taken) \in Nat /\ DOMAIN taken = 1 .. n /\ received \in Seq(Byte)
      /\ Consumed \in Nat /\ Consumed <= Len(received) /\ Len(received) = Consumed + Len(buf)
      /\ Len(buf) \in Nat /\ Len(received) \in Nat
  BY ConsumedType DEF ExtInv, ExtTypeOK
<1>2. /\ p \in Seq(Nat) /\ Len(p) = n /\ DOMAIN p = 1 .. n
      /\ \A k \in 1 .. n : p[k] = taken[k].at
  <2>1. \A k \in 1 .. n : taken[k].at \in Nat BY <1>1, TakenComplete
  <2> QED BY <1>1, <2>1 DEF Positions
<1>3. ASSUME NEW k \in 1 .. n
      PROVE  /\ p[k] \in Preambles(received) /\ Complete(received, p[k]) /\ p[k] \in Nat
             /\ ScanNext(received, p, k) = p[k] + Len(taken[k].bytes)
             /\ Len(taken[k].bytes) \in Nat /\ ScanNext(received, p, k) <= Consumed + 1
             /\ p[k] >= 1 /\ p[k] <= Consumed /\ ScanNext(received, p, k) \in Nat
             /\ 1 <= ScanNext(received, p, k)
  <2>1. /\ p[k] \in Preambles(received) /\ Complete(received, p[k]) /\ p[k] \in Nat
        /\ FrameLen(received, p[k]) = Len(taken[k].bytes)
        /\ Len(taken[k].bytes) \in Nat /\ Len(taken[k].bytes) >= 6 /\ p[k] >= 1
        /\ p[k] + Len(taken[k].bytes) - 1 <= Consumed
    BY <1>1, <1>2, TakenComplete
  <2>2. ScanNext(received, p, k) = p[k] + Len(taken[k].bytes) BY <2>1 DEF ScanNext
  <2>3. /\ p[k] <= Consumed /\ p[k] + Len(taken[k].bytes) <= Consumed + 1
        /\ p[k] + Len(taken[k].bytes) \in Nat /\ p[k] + Len(taken[k].bytes) >= 1
    <3>1. PICK a \in Nat, l \in Nat, c \in Nat : a = p[k] /\ l = Len(taken[k].bytes) /\ c = Consumed
      BY <1>1, <2>1
    <3>2. l >= 6 /\ a >= 1 /\ a + l - 1 <= c BY <2>1, <3>1
    <3>3. a <= c /\ a + l <= c + 1 /\ a + l \in Nat /\ a + l >= 1 BY <3>2
    <3> QED BY <3>1, <3>3
  <2> QED BY <2>1, <2>2, <2>3
<1>4. ASSUME NEW k \in 0 .. n
      PROVE  ScanNext(received, p, k) \in 1 .. Consumed + 1
  <2>1. CASE k = 0 BY <1>1, <2>1 DEF ScanNext
  <2>2. CASE k # 0
    <3>1. k \in 1 .. n BY <2>2
    <3> QED BY <1>1, <1>3, <3>1
  <2> QED BY <2>1, <2>2
<1>5. ASSUME NEW k \in 1 .. n
      PROVE  /\ ScanNext(received, p, k - 1) <= p[k]
             /\ \A i \in ScanNext(received, p, k - 1) .. p[k] - 1 : received[i] # Preamble
  <2>1. k - 1 \in 0 .. n /\ (k - 1) + 1 = k /\ k \in DOMAIN taken BY <1>1
  <2>2. ScanNext(received, p, k - 1) <= p[k]
    <3>1. CASE k = 1
      <4>1. ScanNext(received, p, k - 1) = 1 BY <3>1 DEF ScanNext
      <4>2. p[k] >= 1 BY <1>2, TakenComplete, <2>1
      <4> QED BY <4>1, <4>2
    <3>2. CASE k # 1
      <4>1. k - 1 \in 1 .. n /\ k - 1 \in DOMAIN taken /\ k - 1 < k BY <1>1, <3>2
      <4>2. taken[k - 1].at + Len(taken[k - 1].bytes) <= taken[k].at
        BY <2>1, <4>1 DEF ExtInv, RunsInv, Apart
      <4> QED BY <1>2, <1>3, <4>1, <4>2
    <3> QED BY <3>1, <3>2
  <2>3. ASSUME NEW i \in ScanNext(received, p, k - 1) .. p[k] - 1 PROVE received[i] # Preamble
    <3>1. i \in 1 .. Consumed /\ i < p[k] BY <1>1, <1>3, <1>4, <2>1
    <3>2. ScanNext(received, p, k - 1) <= i BY <1>1, <1>4, <2>1
    <3> QED BY <1>2, <2>1, <3>1, <3>2, NoPreambleBetween
  <2> QED BY <2>2, <2>3
<1>6. \E q \in ScanNext(received, p, n) .. Len(received) + 1 :
        /\ \A i \in ScanNext(received, p, n) .. q - 1 : received[i] # Preamble
        /\ q <= Len(received) => received[q] = Preamble /\ ~Complete(received, q)
  <2> DEFINE q == Consumed + 1
  <2>1. n \in 0 .. n BY <1>1
  <2>2. ScanNext(received, p, n) \in 1 .. q BY <1>4, <2>1
  <2>3. q \in ScanNext(received, p, n) .. Len(received) + 1 BY <1>1, <2>2
  <2>4. ASSUME NEW i \in ScanNext(received, p, n) .. q - 1 PROVE received[i] # Preamble
    <3>1. i \in 1 .. Consumed /\ ScanNext(received, p, n) <= i BY <1>1, <2>2
    <3>2. ~(n < n) BY <1>1
    <3> QED BY <2>1, <3>1, <3>2, NoPreambleBetween
  <2>5. ASSUME q <= Len(received) PROVE received[q] = Preamble /\ ~Complete(received, q)
    <3>1. buf # <<>> BY <1>1, <2>5
    <3>2. buf[1] = Preamble /\ ~Complete(buf, 1) BY <3>1 DEF ExtInv, PartialFrameOnly, ExtTypeOK
    <3> QED BY <3>1, <3>2, CompleteInBuffer
  <2> QED BY <2>3, <2>4, <2>5
<1>7. \A k \in DOMAIN p : p[k] \in Preambles(received) /\ Complete(received, p[k]) BY <1>2, <1>3
<1> QED BY <1>2, <1>5, <1>6, <1>7 DEF IsScan

\* The frames found do not depend on how recv cut the stream into chunks: at
\* any time they are those that one scan over all bytes received finds.
THEOREM Chunks == ExtSpec => []ChunksDoNotMatter
<1>1. ASSUME ExtInv PROVE ChunksDoNotMatter
  <2> SUFFICES ASSUME pc # "extract" PROVE Positions = Scan(received)
    BY DEF ChunksDoNotMatter, Positions
  <2>1. received \in Seq(Byte) BY <1>1 DEF ExtInv, ExtTypeOK
  <2> QED BY <1>1, <2>1, TakenIsScan, ScanFound
<1> QED BY <1>1, ExtInvariant, PTL

-----------------------------------------------------------------------------
\* What is received or still on the line.
Full == received \o line

\* The starts of the frames sent, over all connections: a frame ends before the
\* next one of its connection starts, and nothing is left to deliver while no
\* connection is up.
StartsInv ==
  /\ pc = "down" => line = <<>>
  /\ \A i \in starts : i \in Preambles(Full)
  /\ \A i, j \in starts : i < j =>
       \/ \E c \in cuts : i <= c /\ c < j
       \/ Complete(Full, i) /\ i + FrameLen(Full, i) <= j
  /\ \A c \in cuts : c <= Len(received)

\* On the first connection the frames follow each other without a gap.
Gapless ==
  cuts \subseteq {0} =>
    \A i \in starts : Complete(Full, i) => i + FrameLen(Full, i) \in starts \cup {Len(Full) + 1}

\* While a connection that starts with a frame is the only one, the buffer
\* starts with a frame, and every frame that started before it is taken.
InStep ==
  cuts = {0} /\ 1 \in starts =>
    /\ Consumed + 1 \in starts \cup {Len(Full) + 1}
    /\ \A i \in starts : i <= Consumed => \E k \in DOMAIN taken : taken[k].at = i

StartInv == StartsInv /\ Gapless /\ InStep

-----------------------------------------------------------------------------
\* A frame keeps its length where its bytes stand elsewhere, d places further on.
LEMMA FrameMoved ==
  ASSUME NEW s \in Seq(Byte), NEW u \in Seq(Byte), NEW d \in Int, NEW i \in Nat,
         i >= 1, d + i >= 1, d + Len(s) <= Len(u),
         \A x \in i .. Len(s) : u[d + x] = s[x],
         Complete(s, i)
  PROVE  Complete(u, d + i) /\ FrameLen(u, d + i) = FrameLen(s, i)
<1>1. i + 2 <= Len(s) /\ i + FrameLen(s, i) - 1 <= Len(s) /\ Len(s) \in Nat /\ Len(u) \in Nat
  BY DEF Complete
<1>2. PICK l \in Nat : l = FrameLen(s, i) BY <1>1, FrameLenRange
<1>3. i + 1 \in i .. Len(s) /\ i + 2 \in i .. Len(s) BY <1>1
<1>4. u[d + (i + 1)] = s[i + 1] /\ u[d + (i + 2)] = s[i + 2] BY <1>3
<1>5. d + (i + 1) = (d + i) + 1 /\ d + (i + 2) = (d + i) + 2 OBVIOUS
<1>6. u[(d + i) + 1] = s[i + 1] /\ u[(d + i) + 2] = s[i + 2] BY <1>4, <1>5
<1>7. FrameLen(u, d + i) = FrameLen(s, i) BY <1>6, Zenon DEF FrameLen
<1>8. (d + i) + 2 <= Len(u) /\ (d + i) + l - 1 <= Len(u) BY <1>1, <1>2
<1> QED BY <1>2, <1>7, <1>8 DEF Complete

\* A frame that ends within a prefix is complete in it.
LEMMA FrameInPrefix ==
  ASSUME NEW s \in Seq(Byte), NEW u \in Seq(Byte), NEW i \in Nat, i >= 1,
         Len(s) <= Len(u), \A x \in 1 .. Len(s) : u[x] = s[x],
         Complete(u, i), i + FrameLen(u, i) <= Len(s) + 1
  PROVE  Complete(s, i) /\ FrameLen(s, i) = FrameLen(u, i)
<1>1. i + 2 <= Len(u) /\ Len(s) \in Nat /\ Len(u) \in Nat BY DEF Complete
<1>2. PICK l \in Nat : l = FrameLen(u, i) /\ l >= 6 BY <1>1, FrameLenRange
<1>3. i + 1 \in 1 .. Len(s) /\ i + 2 \in 1 .. Len(s) BY <1>1, <1>2
<1>4. u[i + 1] = s[i + 1] /\ u[i + 2] = s[i + 2] BY <1>3
<1>5. FrameLen(s, i) = FrameLen(u, i) BY <1>4, Zenon DEF FrameLen
<1>6. i + 2 <= Len(s) /\ i + l - 1 <= Len(s) BY <1>1, <1>2
<1> QED BY <1>2, <1>5, <1>6 DEF Complete

\* The bytes received, followed by those on the line.
LEMMA FullFacts ==
  ASSUME ExtInv
  PROVE  /\ received \in Seq(Byte) /\ line \in Seq(Byte) /\ Full \in Seq(Byte)
         /\ Len(received) \in Nat /\ Len(line) \in Nat /\ Len(Full) = Len(received) + Len(line)
         /\ \A i \in 1 .. Len(received) : Full[i] = received[i]
         /\ \A i \in 1 .. Len(line) : Full[Len(received) + i] = line[i]
<1>1. received \in Seq(Byte) /\ line \in Seq(Byte) BY DEF ExtInv, ExtTypeOK
<1> QED BY <1>1 DEF Full

\* The steps that move bytes without a connection coming or going.
LEMMA StartsStay ==
  ASSUME StartsInv, Gapless, UNCHANGED <<starts, cuts>>, Full' = Full, pc' # "down",
         ExtInv, Len(received') \in Nat, Len(received) <= Len(received')
  PROVE  StartsInv' /\ Gapless'
<1>1. \A i \in starts : Full'[i] = Full[i] /\ Preambles(Full') = Preambles(Full)
  BY DEF Preambles
<1>2. \A c \in cuts : c <= Len(received')
  <2>1. \A c \in cuts : c \in Nat /\ c <= Len(received) BY DEF ExtInv, ExtTypeOK, StartsInv
  <2> QED BY <2>1, FullFacts
<1>3. \A i : Complete(Full', i) = Complete(Full, i) /\ FrameLen(Full', i) = FrameLen(Full, i)
  OBVIOUS
<1>4. StartsInv'
  <2>1. \A i \in starts' : i \in Preambles(Full') BY <1>1 DEF StartsInv
  <2>2. \A i, j \in starts' : i < j =>
          \/ \E c \in cuts' : i <= c /\ c < j
          \/ Complete(Full', i) /\ i + FrameLen(Full', i) <= j
    BY DEF StartsInv
  <2> QED BY <1>2, <2>1, <2>2 DEF StartsInv
<1>5. Gapless' BY DEF Gapless
<1> QED BY <1>4, <1>5

\* The connection ends: only what was received counts.
LEMMA StartsCutDown ==
  ASSUME ExtInv, StartInv, drop_connection \/ handle_raises
  PROVE  StartInv'
<1>1. /\ line' = <<>> /\ starts' = {i \in starts : i <= Len(received)}
      /\ received' = received /\ cuts' = cuts /\ taken' = taken /\ buf' = buf
  BY DEF drop_connection, handle_raises
<1>2. Full' = received BY <1>1, FullFacts DEF Full
<1>3. /\ received \in Seq(Byte) /\ Full \in Seq(Byte) /\ Len(received) \in Nat /\ Len(Full) \in Nat
      /\ Len(received) <= Len(Full) /\ \A x \in 1 .. Len(received) : Full[x] = received[x]
  BY FullFacts
<1>4. ASSUME NEW i \in starts'
      PROVE  /\ i \in Preambles(received) /\ i \in starts /\ i \in Nat /\ i >= 1 /\ i <= Len(received)
  <2>1. i \in starts /\ i <= Len(received) BY <1>1
  <2>2. i \in Preambles(Full) BY <2>1 DEF StartInv, StartsInv
  <2>3. i \in 1 .. Len(Full) /\ Full[i] = Preamble BY <1>3, <2>2 DEF Preambles
  <2>4. i \in 1 .. Len(received) BY <1>3, <2>1, <2>3
  <2> QED BY <1>3, <2>1, <2>3, <2>4 DEF Preambles
<1>5. StartsInv'
  <2>1. ASSUME NEW i \in starts', NEW j \in starts', i < j,
               ~ \E c \in cuts : i <= c /\ c < j
        PROVE  Complete(received, i) /\ i + FrameLen(received, i) <= j
    <3>1. Complete(Full, i) /\ i + FrameLen(Full, i) <= j
      BY <1>4, <2>1 DEF StartInv, StartsInv
    <3>2. i + 2 <= Len(Full) BY <3>1 DEF Complete
    <3>3. PICK l \in Nat : l = FrameLen(Full, i) BY <1>3, <1>4, <3>2, FrameLenRange
    <3>4. i + l <= Len(received) + 1 BY <1>3, <1>4, <3>1, <3>3
    <3>5. Complete(received, i) /\ FrameLen(received, i) = FrameLen(Full, i)
      BY <1>3, <1>4, <3>1, <3>3, <3>4, FrameInPrefix
    <3> QED BY <3>1, <3>5
  <2>2. \A c \in cuts : c <= Len(received) BY DEF StartInv, StartsInv
  <2> QED BY <1>1, <1>2, <1>4, <2>1, <2>2 DEF StartsInv
<1>6. Gapless'
  <2> SUFFICES ASSUME cuts \subseteq {0}, NEW i \in starts', Complete(received, i)
               PROVE  i + FrameLen(received, i) \in starts' \cup {Len(received) + 1}
    BY <1>1, <1>2 DEF Gapless
  <2>1. \A x \in i .. Len(received) : Full[0 + x] = received[x]
    <3>1. \A x \in i .. Len(received) : x \in 1 .. Len(received) /\ 0 + x = x BY <1>3, <1>4
    <3> QED BY <1>3, <3>1
  <2>2. Complete(Full, 0 + i) /\ FrameLen(Full, 0 + i) = FrameLen(received, i)
    <3>1. 0 \in Int /\ i \in Nat /\ i >= 1 /\ 0 + i >= 1 /\ 0 + Len(received) <= Len(Full)
      BY <1>3, <1>4
    <3> QED BY <1>3, <2>1, <3>1, FrameMoved
  <2>3. 0 + i = i BY <1>4
  <2>4. i + FrameLen(Full, i) \in starts \cup {Len(Full) + 1}
    BY <1>4, <2>2, <2>3 DEF StartInv, Gapless
  <2>5. i + 2 <= Len(received) /\ i + FrameLen(received, i) - 1 <= Len(received) BY DEF Complete
  <2>6. PICK l \in Nat : l = FrameLen(received, i) BY <1>3, <1>4, <2>5, FrameLenRange
  <2>7. i + l <= Len(received) + 1 BY <1>3, <1>4, <2>5, <2>6
  <2>8. CASE i + l <= Len(received)
    <3>1. i + l # Len(Full) + 1 BY <1>3, <1>4, <2>8
    <3> QED BY <1>1, <2>2, <2>3, <2>4, <2>6, <2>8, <3>1
  <2>9. CASE i + l > Len(received)
    <3>1. i + l = Len(received) + 1 BY <1>3, <1>4, <2>7, <2>9
    <3> QED BY <2>6, <3>1
  <2> QED BY <1>3, <1>4, <2>6, <2>8, <2>9
<1>7. InStep'
  <2> SUFFICES ASSUME cuts = {0}, 1 \in starts'
               PROVE  /\ Consumed + 1 \in starts' \cup {Len(received) + 1}
                      /\ \A i \in starts' : i <= Consumed => \E k \in DOMAIN taken : taken[k].at = i
    BY <1>1, <1>2 DEF InStep, Consumed
  <2>1. /\ Consumed + 1 \in starts \cup {Len(Full) + 1}
        /\ \A i \in starts : i <= Consumed => \E k \in DOMAIN taken : taken[k].at = i
    BY <1>1 DEF StartInv, InStep
  <2>2. Consumed \in Nat /\ Consumed <= Len(received) BY ConsumedType DEF ExtInv
  <2>3. Consumed + 1 \in starts' \cup {Len(received) + 1}
    <3>1. CASE Consumed = Len(received) BY <3>1
    <3>2. CASE Consumed < Len(received)
      <4>1. Consumed + 1 # Len(Full) + 1 /\ Consumed + 1 <= Len(received) BY <1>3, <2>2, <3>2
      <4> QED BY <1>1, <2>1, <4>1
    <3> QED BY <1>3, <2>2, <3>1, <3>2
  <2> QED BY <1>1, <2>1, <2>3
<1> QED BY <1>5, <1>6, <1>7 DEF StartInv

\* A connection appends a stream, less its first k bytes.
LEMMA StartsConnect ==
  ASSUME ExtInv, StartInv, NEW s \in Streams, NEW k \in Offsets, connect(s, k)
  PROVE  StartInv'
<1> DEFINE r == Len(received)
           fresh == {(r - k) + i : i \in {j \in s.starts : j > k}}
<1>1. /\ s.bytes \in Seq(Byte) /\ s.starts \subseteq Nat /\ k \in Nat /\ Len(s.bytes) \in Nat
      /\ r \in Nat /\ received \in Seq(Byte) /\ cuts \subseteq Nat
  BY ExtractorAssumption, FullFacts DEF ExtInv, ExtTypeOK
<1>2. /\ pc = "down" /\ line' = From(s.bytes, k + 1) /\ received' = received /\ buf' = buf
      /\ taken' = taken /\ starts' = starts \cup fresh /\ cuts' = cuts \cup {r}
      /\ pc' = "recv"
  BY DEF connect
<1>3. line = <<>> /\ Full = received
  <2>1. line = <<>> BY <1>2 DEF StartInv, StartsInv
  <2> QED BY <1>1, <2>1 DEF Full
<1> HIDE DEF r
<1>r. r = Len(received) BY DEF r
\* The line delivers the bytes behind the first k.
<1>4. /\ line' \in Seq(Byte) /\ Len(line') \in Nat
      /\ k <= Len(s.bytes) => Len(line') = Len(s.bytes) - k
      /\ \A x \in k + 1 .. Len(s.bytes) : x - k \in 1 .. Len(line') /\ line'[x - k] = s.bytes[x]
  <2>1. CASE k <= Len(s.bytes)
    <3>1. k + 1 \in 1 .. Len(s.bytes) + 1 BY <1>1, <2>1
    <3>2. /\ line' \in Seq(Byte) /\ Len(line') = Len(s.bytes) - (k + 1) + 1
          /\ \A x \in 1 .. Len(s.bytes) - (k + 1) + 1 : line'[x] = s.bytes[(k + 1) + x - 1]
      BY <1>1, <1>2, <3>1, FromFacts
    <3>3. ASSUME NEW x \in k + 1 .. Len(s.bytes)
          PROVE  x - k \in 1 .. Len(line') /\ line'[x - k] = s.bytes[x]
      <4>0. ASSUME NEW a \in Nat, NEW b \in Nat, NEW y \in a + 1 .. b
            PROVE  y - a \in 1 .. b - (a + 1) + 1 /\ (a + 1) + (y - a) - 1 = y
        OBVIOUS
      <4>1. x - k \in 1 .. Len(s.bytes) - (k + 1) + 1 /\ (k + 1) + (x - k) - 1 = x
        BY <1>1, <4>0
      <4> QED BY <3>2, <4>1
    <3> QED BY <1>1, <2>1, <3>2, <3>3
  <2>2. CASE k > Len(s.bytes)
    <3>1. \A x \in k + 1 .. Len(s.bytes) : s.bytes[x] \in Byte BY <1>1, <2>2
    <3>2. line' \in Seq(Byte)
      BY <1>1, <1>2, <3>1, SubSeqProperties DEF From
    <3>3. \A x \in k + 1 .. Len(s.bytes) : FALSE BY <1>1, <2>2
    <3> QED BY <1>1, <2>2, <3>2, <3>3
  <2> QED BY <1>1, <2>1, <2>2
<1>5. /\ Full' \in Seq(Byte) /\ Len(Full') = r + Len(line')
      /\ \A i \in 1 .. r : Full'[i] = received[i]
      /\ \A i \in 1 .. Len(line') : Full'[r + i] = line'[i]
  BY <1>1, <1>2, <1>4, <1>r DEF Full
\* What a frame start of the stream becomes.
<1>6. ASSUME NEW i \in s.starts, i > k
      PROVE  /\ i \in Nat /\ (r - k) + i \in Preambles(Full') /\ (r - k) + i > r
             /\ Complete(Full', (r - k) + i)
             /\ FrameLen(Full', (r - k) + i) = FrameLen(s.bytes, i)
             /\ FrameLen(s.bytes, i) \in Nat /\ FrameLen(s.bytes, i) >= 6
             /\ Len(Full') + 1 = (r - k) + (Len(s.bytes) + 1)
  <2>1. i \in Preambles(s.bytes) /\ Complete(s.bytes, i) BY StreamAssumption
  <2>2. i \in 1 .. Len(s.bytes) /\ s.bytes[i] = Preamble BY <1>1, <2>1 DEF Preambles
  <2>3. i \in k + 1 .. Len(s.bytes) /\ k <= Len(s.bytes) BY <1>1, <1>6, <2>2
  <2>4. Len(line') = Len(s.bytes) - k BY <1>4, <2>3
  <2>5. ASSUME NEW x \in i .. Len(s.bytes) PROVE Full'[(r - k) + x] = s.bytes[x]
    <3>1. x \in k + 1 .. Len(s.bytes) BY <1>1, <2>3
    <3>2. x - k \in 1 .. Len(line') /\ line'[x - k] = s.bytes[x] BY <1>4, <3>1
    <3>3. (r - k) + x = r + (x - k) BY <1>1, <3>1
    <3> QED BY <1>5, <3>2, <3>3
  <2>6. /\ r - k \in Int /\ i \in Nat /\ i >= 1 /\ (r - k) + i >= 1 /\ (r - k) + i > r
        /\ (r - k) + Len(s.bytes) = Len(Full') /\ (r - k) + Len(s.bytes) <= Len(Full')
    BY <1>1, <1>5, <2>3, <2>4
  <2>7. /\ Complete(Full', (r - k) + i)
        /\ FrameLen(Full', (r - k) + i) = FrameLen(s.bytes, i)
    <3>1. PICK d \in Int : d = r - k BY <2>6
    <3>2. \A x \in i .. Len(s.bytes) : Full'[d + x] = s.bytes[x] BY <2>5, <3>1
    <3>3. i \in Nat /\ i >= 1 /\ d + i >= 1 /\ d + Len(s.bytes) <= Len(Full') BY <2>6, <3>1
    <3>4. Complete(Full', d + i) /\ FrameLen(Full', d + i) = FrameLen(s.bytes, i)
      BY <1>1, <1>5, <2>1, <3>2, <3>3, FrameMoved
    <3> QED BY <3>1, <3>4
  <2>8. (r - k) + i \in Preambles(Full')
    <3>1. Full'[(r - k) + i] = Preamble BY <2>2, <2>5
    <3>2. (r - k) + i \in 1 .. Len(Full') BY <1>1, <1>5, <2>2, <2>6
    <3> QED BY <1>5, <3>1, <3>2 DEF Preambles
  <2>9. FrameLen(s.bytes, i) \in Nat /\ FrameLen(s.bytes, i) >= 6
    BY <1>1, <2>1, <2>2, FrameLenRange DEF Complete
  <2>10. Len(Full') + 1 = (r - k) + (Len(s.bytes) + 1) BY <1>1, <2>6
  <2> QED BY <2>6, <2>7, <2>8, <2>9, <2>10
<1>7. ASSUME NEW i \in fresh
      PROVE  \E x \in s.starts : x > k /\ i = (r - k) + x /\ x \in Nat
  BY <1>1
<1>8. ASSUME NEW i \in starts
      PROVE  i \in Nat /\ i >= 1 /\ i <= r /\ i \in Preambles(received) /\ i \in Preambles(Full')
  <2>1. i \in Preambles(received) BY <1>3 DEF StartInv, StartsInv
  <2>2. i \in 1 .. r /\ received[i] = Preamble BY <1>1, <1>r, <2>1 DEF Preambles
  <2>3. i \in 1 .. Len(Full') /\ Full'[i] = Preamble BY <1>1, <1>4, <1>5, <2>2
  <2> QED BY <1>1, <1>5, <2>1, <2>2, <2>3 DEF Preambles
<1> HIDE DEF fresh
<1>9. StartsInv'
  <2>1. \A i \in starts' : i \in Preambles(Full') BY <1>2, <1>6, <1>7, <1>8
  <2>2. ASSUME NEW i \in starts', NEW j \in starts', i < j,
               ~ \E c \in cuts' : i <= c /\ c < j
        PROVE  Complete(Full', i) /\ i + FrameLen(Full', i) <= j
    <3>1. CASE i \in starts /\ j \in starts
      <4>1. Complete(received, i) /\ i + FrameLen(received, i) <= j
        BY <1>2, <1>3, <2>2, <3>1 DEF StartInv, StartsInv
      <4>2. \A x \in i .. Len(received) : Full'[0 + x] = received[x]
        <5>1. \A x \in i .. Len(received) : x \in 1 .. r /\ 0 + x = x BY <1>1, <1>r, <1>8, <3>1
        <5> QED BY <1>5, <5>1
      <4>3. 0 \in Int /\ i \in Nat /\ i >= 1 /\ 0 + i >= 1 /\ 0 + Len(received) <= Len(Full') /\ 0 + i = i
        BY <1>1, <1>r, <1>4, <1>5, <1>8, <3>1
      <4>4. Complete(Full', 0 + i) /\ FrameLen(Full', 0 + i) = FrameLen(received, i)
        BY <1>1, <1>5, <4>1, <4>2, <4>3, FrameMoved
      <4> QED BY <4>1, <4>3, <4>4
    <3>2. CASE i \in starts /\ j \in fresh
      <4>1. PICK x \in s.starts : x > k /\ j = (r - k) + x BY <1>7, <3>2
      <4>2. j > r BY <1>6, <4>1
      <4>3. i <= r /\ r \in cuts' BY <1>2, <1>8, <3>2
      <4> QED BY <2>2, <4>2, <4>3
    <3>3. CASE i \in fresh /\ j \in fresh
      <4>1. PICK x \in s.starts : x > k /\ i = (r - k) + x /\ x \in Nat BY <1>7, <3>3
      <4>2. PICK y \in s.starts : y > k /\ j = (r - k) + y /\ y \in Nat BY <1>7, <3>3
      <4>3. x < y BY <1>1, <2>2, <4>1, <4>2
      <4>4. x + FrameLen(s.bytes, x) <= y BY <4>3, StreamAssumption
      <4>5. /\ Complete(Full', i) /\ FrameLen(Full', i) = FrameLen(s.bytes, x)
            /\ FrameLen(s.bytes, x) \in Nat
        BY <1>6, <4>1
      <4>6. PICK l \in Nat : l = FrameLen(s.bytes, x) BY <4>5
      <4>7. i + l <= j BY <1>1, <4>1, <4>2, <4>4, <4>6
      <4> QED BY <4>5, <4>6, <4>7
    <3>4. CASE i \in fresh /\ j \in starts
      <4>1. PICK x \in s.starts : x > k /\ i = (r - k) + x /\ x \in Nat BY <1>7, <3>4
      <4>2. i > r /\ i \in Int BY <1>1, <1>6, <4>1
      <4>3. j <= r /\ j \in Nat BY <1>8, <3>4
      <4> QED BY <1>1, <2>2, <4>2, <4>3
    <3> QED BY <1>2, <3>1, <3>2, <3>3, <3>4
  <2>3. \A c \in cuts' : c <= Len(received')
    <3>1. \A c \in cuts : c <= Len(received) BY DEF StartInv, StartsInv
    <3>2. r <= Len(received) BY <1>1, <1>r
    <3> QED BY <1>2, <3>1, <3>2
  <2>4. pc' # "down" BY <1>2
  <2> QED BY <2>1, <2>2, <2>3, <2>4 DEF StartsInv
\* Only a first connection, or one after others that delivered nothing.
<1>10. ASSUME cuts' \subseteq {0} PROVE r = 0 /\ starts' = fresh /\ Consumed = 0 /\ Consumed' = 0
  <2>1. r = 0 BY <1>2, <1>10
  <2>2. starts = {} BY <1>8, <2>1
  <2>3. Consumed = 0 BY <1>r, <2>1, ConsumedType DEF ExtInv
  <2>4. Consumed' = Consumed BY <1>2 DEF Consumed
  <2> QED BY <1>2, <2>1, <2>2, <2>3, <2>4
<1>11. Gapless'
  <2> SUFFICES ASSUME cuts' \subseteq {0}, NEW i \in starts', Complete(Full', i)
               PROVE  i + FrameLen(Full', i) \in starts' \cup {Len(Full') + 1}
    BY DEF Gapless
  <2>1. i \in fresh BY <1>10
  <2>2. PICK x \in s.starts : x > k /\ i = (r - k) + x /\ x \in Nat BY <1>7, <2>1
  <2>3. PICK l \in Nat : l = FrameLen(s.bytes, x) /\ FrameLen(Full', i) = l BY <1>6, <2>2
  <2>4. x + l \in s.starts \cup {Len(s.bytes) + 1} BY <2>3, StreamAssumption
  <2>5. i + l = (r - k) + (x + l) BY <1>1, <2>2
  <2>6. CASE x + l \in s.starts
    <3>1. x + l > k BY <1>1, <2>2
    <3>2. i + l \in fresh BY <2>5, <2>6, <3>1 DEF fresh
    <3> QED BY <1>2, <2>3, <3>2
  <2>7. CASE x + l = Len(s.bytes) + 1
    <3>1. Len(Full') + 1 = (r - k) + (Len(s.bytes) + 1) BY <1>6, <2>2
    <3> QED BY <2>3, <2>5, <2>7, <3>1
  <2> QED BY <2>4, <2>6, <2>7
<1>12. InStep'
  <2> SUFFICES ASSUME cuts' = {0}, 1 \in starts'
               PROVE  /\ Consumed' + 1 \in starts' \cup {Len(Full') + 1}
                      /\ \A i \in starts' : i <= Consumed' => \E m \in DOMAIN taken' : taken'[m].at = i
    BY DEF InStep
  <2>1. Consumed' = 0 BY <1>10
  <2>2. ASSUME NEW i \in starts' PROVE ~ (i <= 0)
    <3>1. i \in fresh /\ r = 0 BY <1>10
    <3>2. PICK x \in s.starts : x > k /\ i = (r - k) + x /\ x \in Nat BY <1>7, <3>1
    <3> QED BY <1>1, <3>1, <3>2
  <2> QED BY <2>1, <2>2
<1> QED BY <1>9, <1>11, <1>12 DEF StartInv

\* Two sequences of bytes one after the other.
LEMMA JoinFacts ==
  ASSUME NEW s \in Seq(Byte), NEW u \in Seq(Byte)
  PROVE  /\ s \o u \in Seq(Byte) /\ Len(s \o u) = Len(s) + Len(u)
         /\ \A i \in 1 .. Len(s) : (s \o u)[i] = s[i]
         /\ \A i \in 1 .. Len(u) : (s \o u)[Len(s) + i] = u[i]
OBVIOUS

\* recv moves bytes from the line to those received.
LEMMA FullRecv ==
  ASSUME ExtInv, NEW n \in 1 .. MaxRecv, recv(n)
  PROVE  Full' = Full /\ Len(received') \in Nat /\ Len(received) <= Len(received')
<1> DEFINE data == SubSeq(line, 1, n)
           rest == From(line, n + 1)
<1>1. n \in Nat /\ n >= 1 /\ n <= Len(line) BY ExtractorAssumption DEF recv
<1>2. /\ received \in Seq(Byte) /\ line \in Seq(Byte) /\ Full \in Seq(Byte)
      /\ Len(received) \in Nat /\ Len(line) \in Nat /\ Len(Full) = Len(received) + Len(line)
      /\ \A i \in 1 .. Len(received) : Full[i] = received[i]
      /\ \A i \in 1 .. Len(line) : Full[Len(received) + i] = line[i]
  BY FullFacts
<1>3. data \in Seq(Byte) /\ Len(data) = n /\ \A i \in 1 .. n : data[i] = line[i]
  <2>1. \A i \in 1 .. n : line[i] \in Byte BY <1>1, <1>2
  <2> QED BY <1>1, <2>1, SubSeqProperties
<1>4. /\ rest \in Seq(Byte) /\ Len(rest) = Len(line) - n
      /\ \A i \in 1 .. Len(line) - n : rest[i] = line[n + i]
  <2>1. n + 1 \in 1 .. Len(line) + 1 BY <1>1, <1>2
  <2>2. /\ rest \in Seq(Byte) /\ Len(rest) = Len(line) - (n + 1) + 1
        /\ \A i \in 1 .. Len(line) - (n + 1) + 1 : rest[i] = line[(n + 1) + i - 1]
    BY <1>2, <2>1, FromFacts
  <2>3. Len(line) - (n + 1) + 1 = Len(line) - n BY <1>1, <1>2
  <2>4. \A i \in Int : (n + 1) + i - 1 = n + i BY <1>1
  <2> HIDE DEF rest
  <2> QED BY <2>2, <2>3, <2>4
<1>5. received' = received \o data /\ line' = rest BY DEF recv
<1> HIDE DEF data, rest
<1>6. /\ received' \in Seq(Byte) /\ Len(received') = Len(received) + n
      /\ \A i \in 1 .. Len(received) : received'[i] = received[i]
      /\ \A i \in 1 .. n : received'[Len(received) + i] = data[i]
  BY <1>2, <1>3, <1>5, JoinFacts
<1>7. /\ Full' \in Seq(Byte) /\ Len(Full') = Len(Full)
      /\ \A i \in 1 .. Len(received') : Full'[i] = received'[i]
      /\ \A i \in 1 .. Len(rest) : Full'[Len(received') + i] = rest[i]
  <2>1. Full' = received' \o rest BY <1>5 DEF Full
  <2>2. Len(received') + Len(rest) = Len(Full) BY <1>1, <1>2, <1>4, <1>6
  <2> QED BY <1>4, <1>6, <2>1, <2>2, JoinFacts
<1>8. ASSUME NEW i \in 1 .. Len(Full) PROVE Full'[i] = Full[i]
  <2>1. CASE i <= Len(received)
    <3>1. i \in 1 .. Len(received) /\ i \in 1 .. Len(received') BY <1>1, <1>2, <1>6, <2>1
    <3> QED BY <1>2, <1>6, <1>7, <3>1
  <2>2. CASE i > Len(received) /\ i <= Len(received) + n
    <3>1. PICK x \in 1 .. n : i = Len(received) + x
      <4>1. i - Len(received) \in 1 .. n /\ i = Len(received) + (i - Len(received)) BY <1>1, <1>2, <2>2
      <4> QED BY <4>1
    <3>2. x \in 1 .. Len(line) /\ i \in 1 .. Len(received') BY <1>1, <1>2, <1>6, <3>1
    <3>3. Full'[i] = data[x] BY <1>6, <1>7, <3>1, <3>2
    <3>4. Full[i] = line[x] BY <1>2, <3>1, <3>2
    <3> QED BY <1>3, <3>3, <3>4
  <2>3. CASE i > Len(received) + n
    <3>1. PICK x \in 1 .. Len(line) - n : i = (Len(received) + n) + x
      <4>1. i - (Len(received) + n) \in 1 .. Len(line) - n
        BY <1>1, <1>2, <2>3
      <4>2. i = (Len(received) + n) + (i - (Len(received) + n)) BY <1>1, <1>2
      <4> QED BY <4>1, <4>2
    <3>2. n + x \in 1 .. Len(line) /\ i = Len(received) + (n + x) /\ i = Len(received') + x
      BY <1>1, <1>2, <1>6, <3>1
    <3>3. Full'[i] = rest[x] BY <1>4, <1>7, <3>1, <3>2
    <3>4. Full[i] = line[n + x] BY <1>2, <3>2
    <3> QED BY <1>4, <3>1, <3>3, <3>4
  <2> QED BY <1>1, <1>2, <2>1, <2>2, <2>3
<1>9. Full' = Full BY <1>2, <1>7, <1>8, SeqEqual
<1>10. Len(received') \in Nat /\ Len(received) <= Len(received') BY <1>1, <1>2, <1>6
<1> QED BY <1>9, <1>10

\* In step, the front of the buffer is a preamble.
LEMMA FrontIsPreamble ==
  ASSUME ExtInv, StartInv, cuts = {0}, 1 \in starts, buf # <<>>
  PROVE  buf[1] = Preamble /\ Consumed + 1 \in starts
<1>1. PICK c \in Nat, r \in Nat : c = Consumed /\ r = Len(received) /\ c + 1 \in 1 .. r
  BY ConsumedType, CompleteInBuffer DEF ExtInv, ExtTypeOK
<1>2. c + 1 # Len(Full) + 1 BY <1>1, FullFacts
<1>3. c + 1 \in starts BY <1>1, <1>2 DEF StartInv, InStep
<1>4. Full[c + 1] = Preamble BY <1>3 DEF StartInv, StartsInv, Preambles
<1>5. received[c + 1] = Preamble BY <1>1, <1>4, FullFacts
<1> QED BY <1>1, <1>3, <1>5, CompleteInBuffer

\* The end of the loop cuts nothing off a buffer that starts with a frame.
LEMMA StartsExtractDone ==
  ASSUME ExtInv, StartInv, extract_done
  PROVE  StartInv'
<1>1. /\ UNCHANGED <<line, received, starts, cuts, taken>> /\ pc' # "down"
      /\ buf' = Leftover(buf)
  BY DEF extract_done
<1>2. Full' = Full /\ Len(received') \in Nat /\ Len(received) <= Len(received')
  BY <1>1, FullFacts DEF Full
<1>3. StartsInv' /\ Gapless' BY <1>1, <1>2, StartsStay DEF StartInv
<1>4. InStep'
  <2> SUFFICES ASSUME cuts = {0}, 1 \in starts PROVE Consumed' = Consumed
    BY <1>1, <1>2 DEF StartInv, InStep
  <2>1. buf \in Seq(Byte) /\ Len(buf) \in Nat BY DEF ExtInv, ExtTypeOK
  <2>2. CASE buf = <<>>
    <3>1. Preambles(buf) = {} BY <2>2 DEF Preambles
    <3>2. buf' = buf BY <1>1, <2>2, <3>1 DEF Leftover
    <3> QED BY <1>1, <3>2 DEF Consumed
  <2>3. CASE buf # <<>>
    <3>1. buf[1] = Preamble BY <2>3, FrontIsPreamble
    <3>2. 1 \in Preambles(buf) BY <2>1, <2>3, <3>1 DEF Preambles
    <3>3. PICK n \in 0 .. Len(buf) - 1 :
            Len(Trimmed(buf)) = Len(buf) - n /\ \A k \in 1 .. n : buf[k] # Preamble
      BY <2>1, <3>2, TrimmedFacts
    <3>4. n = 0
      <4>1. ~ (1 \in 1 .. n) BY <3>1, <3>3
      <4> QED BY <4>1
    <3>5. buf' = Trimmed(buf) BY <1>1, <3>2 DEF Leftover
    <3>6. Len(buf') = Len(buf) BY <2>1, <3>3, <3>4, <3>5
    <3> QED BY <1>1, <3>6 DEF Consumed
  <2> QED BY <2>2, <2>3
<1> QED BY <1>3, <1>4 DEF StartInv

\* The frame cut off is the one that starts at the front of the buffer, and the
\* next frame, or the end of all that is sent, comes to the front.
LEMMA StartsExtractFrame ==
  ASSUME ExtInv, StartInv, extract_frame
  PROVE  StartInv'
<1>1. UNCHANGED <<pc, line, received, starts, cuts>> /\ pc = "extract" BY DEF extract_frame
<1>2. Full' = Full /\ Len(received') \in Nat /\ Len(received) <= Len(received')
  BY <1>1, FullFacts DEF Full
<1>3. StartsInv' /\ Gapless' BY <1>1, <1>2, StartsStay DEF StartInv
<1>4. InStep'
  <2> SUFFICES ASSUME cuts = {0}, 1 \in starts
               PROVE  /\ Consumed' + 1 \in starts \cup {Len(Full) + 1}
                      /\ \A i \in starts : i <= Consumed' => \E k \in DOMAIN taken' : taken'[k].at = i
    BY <1>1, <1>2 DEF InStep
  <2>1. PICK t \in TakenFrame, n \in Nat :
           /\ taken' = Append(taken, t)
           /\ t.at = Consumed + n + 1
           /\ Len(t.bytes) \in Nat /\ 6 <= Len(t.bytes) /\ n + Len(t.bytes) <= Len(buf)
           /\ Len(t.bytes) = FrameLen(t.bytes, 1)
           /\ \A i \in 1 .. Len(t.bytes) : t.bytes[i] = buf[n + i]
           /\ \A k \in 1 .. n : buf[k] # Preamble
           /\ Len(buf') = Len(buf) - (n + Len(t.bytes))
    BY FrameCut
  <2>2. PICK c \in Nat, l \in Nat, b \in Nat, r \in Nat :
           c = Consumed /\ l = Len(t.bytes) /\ b = Len(buf) /\ r = Len(received) /\ r = c + b
    <3>1. Len(t.bytes) \in Nat BY <2>1
    <3>2. Consumed \in Nat /\ Len(received) = Consumed + Len(buf) BY ConsumedType DEF ExtInv
    <3>3. Len(buf) \in Nat /\ Len(received) \in Nat BY DEF ExtInv, ExtTypeOK
    <3> QED BY <3>1, <3>2, <3>3
  <2>n. c \in Nat /\ l \in Nat /\ b \in Nat /\ r \in Nat /\ r = c + b BY <2>2
  <2>3. l >= 6 /\ n + l <= b /\ b >= 1 BY <2>1, <2>2
  <2>4. buf[1] = Preamble /\ c + 1 \in starts
    <3>1. buf # <<>> BY <2>2, <2>3
    <3> QED BY <2>2, <3>1, FrontIsPreamble
  <2>5. n = 0
    <3>1. ~ (1 \in 1 .. n) BY <2>1, <2>4
    <3> QED BY <3>1
  <2>6. t.at = c + 1 /\ Consumed' = c + l
    <3>1. t.at = c + 1 BY <2>1, <2>2, <2>5
    <3>2. Len(buf') = b - l BY <2>1, <2>2, <2>3, <2>5
    <3>3. Consumed' = r - (b - l) BY <1>1, <2>2, <3>2 DEF Consumed
    <3>4. r - (b - l) = c + l BY <2>n
    <3> QED BY <3>1, <3>3, <3>4
  <2>7. /\ taken \in Seq(TakenFrame) /\ taken' \in Seq(TakenFrame) /\ Len(taken) \in Nat
        /\ \A k \in DOMAIN taken : k \in DOMAIN taken' /\ taken'[k] = taken[k]
        /\ Len(taken) + 1 \in DOMAIN taken' /\ taken'[Len(taken) + 1] = t
    <3>1. taken \in Seq(TakenFrame) /\ taken' = Append(taken, t) BY <2>1 DEF ExtInv, ExtTypeOK
    <3>2. /\ taken' \in Seq(TakenFrame) /\ Len(taken') = Len(taken) + 1
          /\ \A k \in 1 .. Len(taken) : taken'[k] = taken[k]
          /\ taken'[Len(taken) + 1] = t
      BY <3>1, AppendProperties
    <3>3. Len(taken) \in Nat /\ DOMAIN taken = 1 .. Len(taken) BY <3>1
    <3>4. DOMAIN taken' = 1 .. Len(taken) + 1 BY <3>2
    <3>5. \A k \in 1 .. Len(taken) : k \in 1 .. Len(taken) + 1 BY <3>3
    <3>6. Len(taken) + 1 \in 1 .. Len(taken) + 1 BY <3>3
    <3> QED BY <3>1, <3>2, <3>3, <3>4, <3>5, <3>6, Zenon
  <2>8. Complete(Full, c + 1) /\ FrameLen(Full, c + 1) = l
    <3>1. t.bytes \in Seq(Byte) BY DEF TakenFrame
    <3>2. Complete(t.bytes, 1) BY <2>1, <2>2, <2>3 DEF Complete
    <3>3. ASSUME NEW x \in 1 .. Len(t.bytes) PROVE Full[c + x] = t.bytes[x]
      <4>1. n + x = x /\ x \in 1 .. b /\ c + x \in 1 .. r BY <2>2, <2>3, <2>5
      <4>2. t.bytes[x] = buf[x] BY <2>1, <4>1
      <4>3. buf[x] = received[c + x] BY <2>2, <4>1 DEF ExtInv, BufferIsSuffix
      <4>4. Full[c + x] = received[c + x] BY <2>2, <4>1, FullFacts
      <4> QED BY <4>2, <4>3, <4>4
    <3>4. /\ c \in Int /\ 1 \in Nat /\ 1 >= 1 /\ c + 1 >= 1 /\ c + Len(t.bytes) <= Len(Full)
          /\ Full \in Seq(Byte)
      BY <2>2, <2>3, FullFacts
    <3>5. Complete(Full, c + 1) /\ FrameLen(Full, c + 1) = FrameLen(t.bytes, 1)
      BY <3>1, <3>2, <3>3, <3>4, FrameMoved
    <3> QED BY <2>1, <2>2, <3>5
  <2>9. Consumed' + 1 \in starts \cup {Len(Full) + 1}
    <3>1. (c + 1) + l \in starts \cup {Len(Full) + 1}
      BY <2>4, <2>8 DEF StartInv, Gapless
    <3>2. (c + l) + 1 = (c + 1) + l BY <2>n
    <3> QED BY <2>6, <3>1, <3>2
  <2>10. ASSUME NEW i \in starts, i <= Consumed'
         PROVE  \E k \in DOMAIN taken' : taken'[k].at = i
    <3>1. i \in Nat /\ i >= 1
      <4>1. i \in DOMAIN Full BY DEF StartInv, StartsInv, Preambles
      <4> QED BY <4>1, FullFacts
    <3>2. CASE i <= c
      <4>1. PICK k \in DOMAIN taken : taken[k].at = i BY <2>2, <3>2 DEF StartInv, InStep
      <4> QED BY <2>7, <4>1
    <3>3. CASE i = c + 1 BY <2>6, <2>7, <3>3
    <3>4. CASE i > c + 1
      <4>1. c + 1 < i BY <2>2, <3>1, <3>4
      <4>2. ~ \E d \in cuts : c + 1 <= d /\ d < i BY <2>2
      <4>3. (c + 1) + l <= i BY <2>4, <2>8, <4>1, <4>2 DEF StartInv, StartsInv
      <4>4. i <= c + l BY <2>6, <2>10
      <4>5. l \in Nat /\ c \in Nat BY <2>2
      <4> QED BY <3>1, <4>3, <4>4, <4>5
    <3> QED BY <2>2, <3>1, <3>2, <3>3, <3>4
  <2> QED BY <2>9, <2>10
<1> QED BY <1>3, <1>4 DEF StartInv

\* Every step keeps the starts of the frames sent and the bytes in line.
LEMMA StartNext == ExtInv /\ StartInv /\ [ExtNext]_vars => StartInv'
<1> SUFFICES ASSUME ExtInv, StartInv, [ExtNext]_vars PROVE StartInv'
  OBVIOUS
<1>1. CASE \E s \in Streams, k \in Offsets : connect(s, k) BY <1>1, StartsConnect
<1>2. CASE \E n \in 1 .. MaxRecv : recv(n)
  <2>1. PICK n \in 1 .. MaxRecv : recv(n) BY <1>2
  <2>2. Full' = Full /\ Len(received') \in Nat /\ Len(received) <= Len(received')
    BY <2>1, FullRecv
  <2>3. UNCHANGED <<starts, cuts, taken>> /\ pc' # "down" BY <2>1 DEF recv
  <2>4. StartsInv' /\ Gapless' BY <2>2, <2>3, StartsStay DEF StartInv
  <2>5. Consumed' = Consumed
    <3>1. /\ n \in Nat /\ n >= 1 /\ n <= Len(line) /\ line \in Seq(Byte) /\ buf \in Seq(Byte)
          /\ received \in Seq(Byte)
      BY <2>1, ExtractorAssumption DEF recv, ExtInv, ExtTypeOK
    <3>2. SubSeq(line, 1, n) \in Seq(Byte)
      <4>1. \A i \in 1 .. n : line[i] \in Byte BY <3>1
      <4> QED BY <3>1, <4>1, SubSeqProperties
    <3>3. PICK d \in Seq(Byte) : buf' = buf \o d /\ received' = received \o d
      BY <2>1, <3>2 DEF recv, Extended
    <3>4. Len(buf') = Len(buf) + Len(d) /\ Len(received') = Len(received) + Len(d)
      BY <3>1, <3>3
    <3>5. Len(buf) \in Nat /\ Len(received) \in Nat /\ Len(d) \in Nat BY <3>1, <3>3
    <3> QED BY <3>4, <3>5 DEF Consumed
  <2>6. InStep' BY <2>2, <2>3, <2>5 DEF StartInv, InStep
  <2> QED BY <2>4, <2>6 DEF StartInv
<1>3. CASE drop_connection \/ handle_raises BY <1>3, StartsCutDown
<1>4. CASE extract_done BY <1>4, StartsExtractDone
<1>5. CASE extract_frame BY <1>5, StartsExtractFrame
<1>6. CASE handle_frame \/ feed_done \/ UNCHANGED vars
  <2>1. /\ UNCHANGED <<line, received, starts, cuts, taken, buf>>
        /\ pc' # "down" \/ pc' = pc
    BY <1>6 DEF handle_frame, feed_done, vars
  <2>2. Full' = Full /\ Len(received') \in Nat /\ Len(received) <= Len(received')
    BY <2>1, FullFacts DEF Full
  <2>3. StartsInv' BY <2>1, <2>2 DEF StartInv, StartsInv
  <2>4. Gapless' BY <2>1, <2>2 DEF StartInv, Gapless
  <2>5. InStep' BY <2>1, <2>2 DEF StartInv, InStep, Consumed
  <2> QED BY <2>3, <2>4, <2>5 DEF StartInv
<1> QED BY <1>1, <1>2, <1>3, <1>4, <1>5, <1>6 DEF ExtNext

\* The starts of the frames sent fit the bytes received, over any number of
\* connections, for streams that consist of frames.
THEOREM StartInvariant == ExtSpec => []StartInv
<1>1. ExtInit => StartInv
  <2> SUFFICES ASSUME ExtInit PROVE StartInv OBVIOUS
  <2>1. line = <<>> /\ starts = {} /\ cuts = {} BY DEF ExtInit
  <2> QED BY <2>1 DEF StartInv, StartsInv, Gapless, InStep
<1>2. ExtInv /\ StartInv /\ [ExtNext]_vars => StartInv' BY StartNext
<1> QED BY <1>1, <1>2, ExtInvariant, PTL DEF ExtSpec

\* On a first connection that starts with a frame, every frame that has arrived
\* whole is handed on, whatever preambles the payloads contain.
THEOREM AlignedLosesNothing == ExtSpec => []AlignedStreamLosesNothing
<1>1. ASSUME ExtInv, StartInv PROVE AlignedStreamLosesNothing
  <2> SUFFICES ASSUME cuts = {0}, 1 \in starts, pc # "extract", NEW i \in starts, Intact(i)
               PROVE  \E k \in DOMAIN taken : taken[k].at = i
    BY DEF AlignedStreamLosesNothing
  <2>1. PICK c \in Nat, r \in Nat : c = Consumed /\ r = Len(received) /\ c <= r /\ r = c + Len(buf)
    BY <1>1, ConsumedType DEF ExtInv, ExtTypeOK
  <2>2. Complete(received, i) BY DEF Intact
  <2>3. i \in Nat /\ i >= 1 /\ i <= r
    <3>1. i \in DOMAIN Full BY <1>1 DEF StartInv, StartsInv, Preambles
    <3>2. i + 2 <= r BY <2>1, <2>2 DEF Complete
    <3> QED BY <1>1, <2>1, <3>1, <3>2, FullFacts
  <2>4. CASE i <= c BY <1>1, <2>1, <2>4 DEF StartInv, InStep
  <2>5. CASE i > c
    <3>1. c + 1 \in 1 .. r /\ c + 1 <= i BY <2>1, <2>3, <2>5
    <3>2. buf # <<>> BY <2>1, <3>1
    <3>3. buf[1] = Preamble /\ c + 1 \in starts BY <1>1, <2>1, <3>2, FrontIsPreamble
    <3>4. ~Complete(buf, 1) BY <1>1, <3>2 DEF ExtInv, ExtTypeOK, PartialFrameOnly
    <3>5. ~Complete(received, c + 1) BY <1>1, <2>1, <3>2, <3>4, CompleteInBuffer
    <3>6. CASE i = c + 1 BY <2>2, <3>5, <3>6
    <3>7. CASE c + 1 < i
      <4>1. ~ \E d \in cuts : c + 1 <= d /\ d < i BY <2>1
      <4>2. Complete(Full, c + 1) /\ (c + 1) + FrameLen(Full, c + 1) <= i
        BY <1>1, <3>3, <3>7, <4>1 DEF StartInv, StartsInv
      <4>3. /\ Full \in Seq(Byte) /\ received \in Seq(Byte) /\ Len(received) <= Len(Full)
            /\ \A x \in 1 .. Len(received) : Full[x] = received[x] /\ Len(Full) \in Nat
        BY <1>1, FullFacts
      <4>4. (c + 1) + 2 <= Len(Full) /\ c + 1 \in Nat /\ c + 1 >= 1 BY <2>1, <4>2 DEF Complete
      <4>5. PICK l \in Nat : l = FrameLen(Full, c + 1) BY <4>3, <4>4, FrameLenRange
      <4>6. (c + 1) + l <= Len(received) + 1 BY <2>1, <2>3, <4>2, <4>5
      <4>7. Complete(received, c + 1) BY <4>2, <4>3, <4>4, <4>5, <4>6, FrameInPrefix
      <4> QED BY <3>5, <4>7
    <3> QED BY <2>1, <2>3, <3>1, <3>6, <3>7
  <2> QED BY <2>1, <2>3, <2>4, <2>5
<1> QED BY <1>1, ExtInvariant, StartInvariant, PTL

\* Resynchronisation: where the preamble byte marks frame starts only, a whole
\* frame is missed only inside a frame that runs over a reconnect.
THEOREM SplicesSwallow == ExtSpec => []OnlySplicesSwallow
<1>1. ASSUME ExtInv, StartInv PROVE OnlySplicesSwallow
  <2> SUFFICES ASSUME Preambles(received) \subseteq starts, NEW i \in starts, i <= Consumed
               PROVE  \E k \in DOMAIN taken :
                        LET t == taken[k]
                        IN  t.at = i \/ (Covers(t, i) /\ \E c \in cuts : t.at <= c /\ Covers(t, c + 1))
    BY DEF OnlySplicesSwallow
  <2>1. Consumed \in Nat /\ Consumed <= Len(received) BY <1>1, ConsumedType DEF ExtInv
  <2>2. i \in 1 .. Len(Full) /\ Full[i] = Preamble
    BY <1>1, FullFacts DEF StartInv, StartsInv, Preambles
  <2>3. i \in 1 .. Consumed /\ i \in 1 .. Len(received) BY <1>1, <2>1, <2>2, FullFacts
  <2>4. received[i] = Preamble BY <1>1, <2>2, <2>3, FullFacts
  <2>5. PICK k \in DOMAIN taken : Covers(taken[k], i)
    BY <1>1, <2>3, <2>4 DEF ExtInv, NoPreambleDropped
  <2>6. PICK t \in TakenFrame, a \in Nat, l \in Nat :
          t = taken[k] /\ a = t.at /\ l = Len(t.bytes) /\ a >= 1
    <3>1. taken[k] \in TakenFrame BY <1>1 DEF ExtInv, ExtTypeOK
    <3> QED BY <3>1 DEF TakenFrame
  <2>7. a <= i /\ i < a + l BY <2>5, <2>6 DEF Covers
  <2>8. CASE a = i BY <2>6, <2>8
  <2>9. CASE a # i
    <3>1. a < i BY <2>2, <2>6, <2>7, <2>9
    <3>2. a \in starts BY <1>1, <2>6, TakenComplete
    <3>3. ~ (Complete(Full, a) /\ a + FrameLen(Full, a) <= i)
      <4>1. Complete(received, a) /\ FrameLen(received, a) = l BY <1>1, <2>6, TakenComplete
      <4>2. \A x \in a .. Len(received) : Full[0 + x] = received[x]
        <5>1. \A x \in a .. Len(received) : x \in 1 .. Len(received) /\ 0 + x = x BY <1>1, <2>6, FullFacts
        <5> QED BY <1>1, <5>1, FullFacts
      <4>3. /\ 0 \in Int /\ 0 + a >= 1 /\ 0 + a = a /\ 0 + Len(received) <= Len(Full)
            /\ received \in Seq(Byte) /\ Full \in Seq(Byte)
        BY <1>1, <2>6, FullFacts
      <4>4. FrameLen(Full, 0 + a) = FrameLen(received, a)
        BY <2>6, <4>1, <4>2, <4>3, FrameMoved
      <4>5. FrameLen(Full, a) = l BY <4>1, <4>3, <4>4
      <4>6. ~ (a + l <= i) BY <2>2, <2>6, <2>7
      <4> QED BY <4>5, <4>6
    <3>4. PICK c \in cuts : a <= c /\ c < i
      BY <1>1, <3>1, <3>2, <3>3 DEF StartInv, StartsInv
    <3>5. c \in Nat BY <1>1 DEF ExtInv, ExtTypeOK
    <3>6. a <= c + 1 /\ c + 1 < a + l BY <2>2, <2>6, <2>7, <3>4, <3>5
    <3>7. Covers(t, c + 1) BY <2>6, <3>6 DEF Covers
    <3> QED BY <2>5, <2>6, <3>4, <3>7
  <2> QED BY <2>8, <2>9
<1> QED BY <1>1, ExtInvariant, StartInvariant, PTL
=============================================================================
