CONSTANTS
  g1 = g1
  g2 = g2
  f1 = f1
  f2 = f2
  lan1 = lan1
  lan2 = lan2
  eth = eth
  wifi = wifi
  None = None
  Ips = {g1, g2}
  MacOf <- MCOwnMac
  Devs = {lan1, eth}
  PseOf <- MCPseOf
  Lan = {lan1}
  Flushing = {eth}
  Joins <- MCJoins
  Flows = {f1}
  Group <- MCGroup
  SlotOf <- MCSlotOf
  PpeOf <- MCOneEngine
  MaxEntry = 1
  Skbs = {k1}
  MtkDsa = FALSE
  QueueMax = 1
  NpuFails = FALSE
  Events = {"debugfs"}
  RareMax = 1
SPECIFICATION Spec
CHECK_DEADLOCK FALSE
INVARIANTS
  OnlyListedBlocked
