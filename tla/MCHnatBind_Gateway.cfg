CONSTANTS
  f1 = f1
  f2 = f2
  f3 = f3
  d1 = d1
  d2 = d2
  m1 = m1
  m2 = m2
  Neighbours = {d1, d2}
  Macs = {m1, m2}
  Values <- MCRoams
  Budget = 1
  PendingMax = 1
  CounterSpace = 4
  AllocFails = FALSE
  Stops = {}
  Flows = {f1}
  FoeSize = 1
  Hash <- MCCollide
  Path <- MCPath
  Dest <- MCOnLink
  Via <- MCGateway
  Skbs = {k1}
  Clears = {}
  None = None
SPECIFICATION Spec
INVARIANTS
  WrongAddressPending
