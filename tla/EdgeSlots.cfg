SPECIFICATION Spec
CONSTANTS
  Hosts = {h1, h2}
  Sessions = {c1, c2}
  Requests = {r1, r2, r3}
  NoSession = NoSession
  MaxInflight = 1
  MaxTotalInflight = 2
SYMMETRY Symmetry
INVARIANTS
  SlotsAccounted
PROPERTIES
  ImplementsSlotPool
