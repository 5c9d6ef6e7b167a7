------------------------------ MODULE MCFrames ------------------------------
(***************************************************************************)
(* Frames of the real format with payloads of 0 to 2 bytes.  One stream    *)
(* has no preamble byte but at frame starts; the other has one inside a    *)
(* payload, before bytes that read as a plausible length, and one in a CRC.*)
(***************************************************************************)
EXTENDS FrameExtractor

Clean == <<<<211, 0, 1, 7, 4, 4, 4>>, <<211, 0, 0, 4, 4, 4>>, <<211, 0, 1, 5, 4, 4, 4>>>>
Dirty == <<<<211, 0, 2, 211, 0, 1, 4, 4>>, <<211, 0, 0, 4, 4, 211>>, <<211, 0, 0, 4, 4, 4>>>>
\* The bytes of a sequence of frames, and where in them its frames start.
Stream(f) ==
  [bytes  |-> FlattenSeq(f),
   starts |-> {1 + Len(FlattenSeq(SubSeq(f, 1, i - 1))) : i \in DOMAIN f}]

MCStreams == {Stream(Clean), Stream(Dirty)}
=============================================================================
