CONSTANTS
  alice = alice
  longName = longName
  longNameCut = longNameCut
  Users = {alice, longName, longNameCut}
  Regions = {us, eu}
  Upstreams = {u1, u2}
  Tiers = {fast, slow}
  Empty = Empty
  Clip <- ClipLong
  MaxRequests = 2
SPECIFICATION Spec
INVARIANTS
  OwnIdentity 
