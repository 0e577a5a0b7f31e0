CONSTANTS
  f1 = f1
  f2 = f2
  f3 = f3
  d1 = d1
  d2 = d2
  m1 = m1
  m2 = m2
  Neighbours = {d1}
  Macs = {m1, m2}
  Values <- MCRoamsOrFails
  Budget = 1
  PendingMax = 2
  CounterSpace = 4
  AllocFails = TRUE
  Stops = {"warm_init"}
  Flows = {f3}
  FoeSize = 1
  Hash <- MCCollide
  Path <- MCPath
  Dest <- MCOnLink
  Via <- MCOnLink
  Skbs = {k1}
  Clears = {}
  None = None
SPECIFICATION FairSpec
INVARIANTS
  PendingCountIsLength
  NoUpdateStranded
  WrongAddressPending
PROPERTIES
  WrongAddressUnbound
