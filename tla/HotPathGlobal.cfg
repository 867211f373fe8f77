CONSTANTS
  u1 = u1  u2 = u2
  slotA = slotA  slotB = slotB  slotC = slotC
  Workers = {w1}
  Requests = {r1, r2}
  Upstreams = {u1}
  Slots = {slotA, slotC}
  Global = Global
  None = None
  SlotOf <- Single
  FailureThreshold = 2
  ResetTimeout = 1
  MaxConcurrency = 1
  MaxCrashes = 0
SPECIFICATION TrafficSpec
PROPERTIES
  GlobalRecovers
