SPECIFICATION TunnelSpec
CONSTANTS
  Requests = {r1}
  NoRequest = NoRequest
  NoOne = NoOne
  Receiver = Receiver
  OutboundDepth = 1
  BodyDepth = 1
  BodyFrames <- MCBodyFrames
  MaxWrites <- MCMaxWrites
  MaxChunks = 2
  MaxPings = 1
CHECK_DEADLOCK FALSE
INVARIANTS
  UploadTruthful
  DownloadTruthful
  Standstill
