\* A header that never ends, while stop is set.
CONSTANTS
  Answers <- MCAnswers
  GoodAnswers <- MCGoodAnswers
  FirstBackoff = 2
  MaxBackoff = 30
  MaxFails = 7
SPECIFICATION ClientSpec
PROPERTY
  ReturnsAfterStop
CHECK_DEADLOCK FALSE
