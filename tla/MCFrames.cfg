\* Two connections of three frames each, chunks of 1 to 7 bytes.
CONSTANTS
  Streams <- MCStreams
  Offsets = {0, 2, 4}
  MaxRecv = 7
  MaxConnects = 2
SPECIFICATION ExtSpec
INVARIANTS
  ExtTypeOK
  FramesAreReceivedRuns
  NoPreambleDropped
  PartialFrameOnly
  ChunksDoNotMatter
  AlignedStreamLosesNothing
  OnlySplicesSwallow
  HandledOnceInOrder
CHECK_DEADLOCK FALSE
