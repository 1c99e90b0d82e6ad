SPECIFICATION FairSpec
CONSTANTS
  Hosts = {h1}
  Sessions = {c1, c2, c3}
  Requests = {r1}
  NoSession = NoSession
  MaxInflight = 1
  MaxTotalInflight = 1
INVARIANTS
  RegisteredIsServed
  NoOrphanSession

  
