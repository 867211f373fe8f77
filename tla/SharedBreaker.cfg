CONSTANTS
  Workers = {w1, w2, w3}
  Slots = {s1}
  FailureThreshold = 2
  ResetTimeout = 1
SPECIFICATION FairSpec
INVARIANTS
  TypeOK
  ClosedBelowThreshold
PROPERTIES
  OpenIsTemporary
