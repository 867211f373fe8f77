CONSTANTS
  v0 = v0  v1 = v1  bad = bad
  orders = orders  legacy = legacy
  us = us  eu = eu
  Workers = {w1}
  Traffic = {w1}
  Versions = {v0, v1, bad}
  Usable = {v0, v1}
  Config <- TwoVersions
  V0 = v0
  Paths <- OrderPath
  Names = {orders, legacy}
  Regions = {us, eu}
  Global = Global
  NodeRegion = us
  DefaultPool = us
  None = None
  MaxPublish = 3
  MaxFaults = 2
SPECIFICATION FairSpec
INVARIANTS
  TypeOK
  MissOnlyInReload
PROPERTIES
  RefinesRegister
  Converges
