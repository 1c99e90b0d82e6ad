SPECIFICATION HeaderSpec
CONSTANTS
  Plain = {"x", "y"}
  Connections <- MCConnections
  Upgrades <- MCUpgrades
CHECK_DEADLOCK FALSE
INVARIANTS
  HeadersCross
  KindsAgree
