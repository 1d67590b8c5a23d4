SPECIFICATION Spec
CONSTANTS
  PingInterval = 5
  PongTimeout = 3
  MaxDelay = 2
  MaxConnects = 3
INVARIANTS
  SilenceBounded
PROPERTIES
  SilenceIsNoticed
  FirstIsClosedWhenDead
