\* The program's own waits: 2, 4, 8, 16, 30 seconds.
CONSTANTS
  Answers <- MCAnswers
  GoodAnswers <- MCGoodAnswers
  FirstBackoff = 2
  MaxBackoff = 30
  MaxFails = 7
SPECIFICATION ClientSpec
INVARIANTS
  ClientTypeOK
  OnlyBodyDelivered
  WaitMatchesFailures
  AtMostOneCallAfterStop
  SocketsDoNotPileUp
PROPERTIES
  StreamsAgain
  StopEndsStream
CHECK_DEADLOCK FALSE
