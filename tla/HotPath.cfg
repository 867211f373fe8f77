CONSTANTS
  u1 = u1  u2 = u2
  slotA = slotA  slotB = slotB  slotC = slotC
  Workers = {w1}
  Requests = {r1, r2}
  Upstreams = {u1, u2}
  Slots = {slotA, slotB, slotC}
  Global = Global
  None = None
  SlotOf <- Separate
  FailureThreshold = 2
  ResetTimeout = 0
  MaxConcurrency = 1
  MaxCrashes = 1
SPECIFICATION FairHotSpec
INVARIANTS
  HotTypeOK
  GaugeCountsGrants
  WithinLimit
PROPERTIES
  RequestsFinish
  OpenDrains
