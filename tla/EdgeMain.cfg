SPECIFICATION FairSpec
CONSTANTS
  Tokens = {"t1", "t2"}
  Labels = {"alice", "bob", "edge", "a_b"}
  ValidLabels = {"alice", "bob", "edge"}
  Domain <- MCDomain
  BadDomains <- MCBadDomains
  MaxEntries = 3
  Calls = {c1}
CHECK_DEADLOCK FALSE
INVARIANTS
  HostsReachable
  ConfigSuffices
  CleanExitWasAsked
PROPERTIES
  PortsReleased
  ShutdownEnds
