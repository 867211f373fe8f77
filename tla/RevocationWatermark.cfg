CONSTANTS
  alice = alice  short = short  long = long
  Users = {alice}
  Tokens = {short, long}
  UserOf <- Owner
  Exp <- Expiries
  Tv <- Versions
  Floors = {1, 2}
  NoFloor = 0
  Ttl = 1
  Skew = 1
  GcAge = 0
  StaleAfter = 0
  FailClosed = TRUE
  MaxTime = 2
  MaxChanges = 2
SPECIFICATION Spec
CHECK_DEADLOCK FALSE
INVARIANTS
  RevocationsReach
