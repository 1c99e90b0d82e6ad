SPECIFICATION FairSpec
CONSTANTS
  OutboundDepth = 2
  BodyDepth = 1
  WsDepth = 2
  MaxUp = 2
  MaxDown = 3
CHECK_DEADLOCK FALSE
INVARIANTS
  FramesInOrder
  BytesInOrder
PROPERTIES
  HandlerLeaves
  LossReported
  ReceiverFreed
