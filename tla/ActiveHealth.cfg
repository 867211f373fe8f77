CONSTANTS
  Workers = {w1, w2}
  Readers = {w1}
  Addresses = {a}
  Slots = {s}
  SlotOf <- OneSlot
  UnhealthyThreshold = 2
  HealthyThreshold = 2
  None = None
  MaxFlips = 1
  MaxEvents = 1
SPECIFICATION FairSpec
INVARIANTS
  TypeOK
  DownEarned
PROPERTIES
  FlagConverges
