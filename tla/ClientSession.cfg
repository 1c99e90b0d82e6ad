SPECIFICATION FairSpec
CONSTANTS
  r1 = r1
  Requests = {r1, r2}
  NoOne = NoOne
  Receiver = Receiver
  BodyFrames <- MCBodyFrames
  MaxWrites <- MCMaxWrites
CHECK_DEADLOCK FALSE
INVARIANTS
  NoFalseEOF
PROPERTIES
  KeepsProtocol
  SessionTearsDown
