CONSTANTS
  tight = tight  loose = loose
  Services = {tight, loose}
  MaxRps <- Limits
  None = None
  Workers = {w1, w2}
  RedisEnabled = TRUE
  KeyTtl = 1
  ChanCap = 1
  MaxTime = 2
  MaxChecks = 4
  MaxElsewhere = 1
SPECIFICATION Spec
SYMMETRY Symm
CHECK_DEADLOCK FALSE
INVARIANTS
  TypeOK
  LimitUnlessRewound
  CountEarned
  FleetCountEarned
