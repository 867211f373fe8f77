CONSTANTS
  Samples <- Seconds
  None = None
  MaxTime = 2
SPECIFICATION FairSpec
CHECK_DEADLOCK FALSE
PROPERTIES
  KeepsSampling
