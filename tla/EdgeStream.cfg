SPECIFICATION FairSpec
CONSTANTS
  Requests = {r1}
  NoRequest = NoRequest
  OutboundDepth = 2
  BodyDepth = 2
  BodyFrames <- MCBodyFrames
  MaxChunks = 3
  MaxPings = 1
CHECK_DEADLOCK FALSE
INVARIANTS
  BodyConserved
  NoBogus200
  RequestOrder
PROPERTIES
  HandlersLeave
  ReceiverFreed
