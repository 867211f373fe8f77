CONSTANTS
  Threads = {t1, t2}
  MaxInflight = 1
  HalfOpenProbes = 1
  RecoverySuccesses = 1
  FailOpen = 2
  TimeoutOpen = 1
  Cooldowns = {1}
  HalfOpenMax = 2
  LongAgo = 2
SPECIFICATION FairSpec
INVARIANTS
  TypeOK
  InflightExact
  ProbesBounded
PROPERTIES
  HalfOpenEnds
