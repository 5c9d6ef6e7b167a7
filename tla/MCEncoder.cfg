CONSTANTS
  Messages <- MCMessages
  Noise <- MCNoise
  MaxHits = 1
  NoMessage = NoMessage
SPECIFICATION EncSpec
INVARIANTS
  EncTypeOK
  NothingWrongDecoded
  CleanMessagesDecoded
  NoSentinelSent
CHECK_DEADLOCK FALSE
