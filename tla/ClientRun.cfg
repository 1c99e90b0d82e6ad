SPECIFICATION RunFairSpec
CONSTANTS
  Closers = {k1, k2, k3}
  MaxAttempts = 3
CHECK_DEADLOCK FALSE
INVARIANTS
  ConnIsCurrent
  ClosedIsFinal
PROPERTIES
  CloseStopsRun
