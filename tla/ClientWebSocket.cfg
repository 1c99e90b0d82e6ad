SPECIFICATION FairSpec
CONSTANTS
  InboundDepth = 2
  MaxUp = 4
  MaxDown = 2
CHECK_DEADLOCK FALSE
INVARIANTS
  NoChannelPanic
  PayloadsConserved
  AnswerProtocol
PROPERTIES
  HangUpReported
  LoopReturns
