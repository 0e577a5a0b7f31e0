CONSTANTS
  eth = eth
  wl = wl
  Devs = {wl}
  Exts <- MCExts
  WifiDevs = {wl}
  Wan = wl
  MaxExt = 1
  MaxIf = 1
  None = None
  Writers = {w1}
  PpeNum = 1
  QueueMax = 1
  ProbeMax = 1
  RareMax = 2
SPECIFICATION FairSpec
CHECK_DEADLOCK FALSE
INVARIANTS
  InstalledHasTables
  NoBoundWhenOff
  PointersHeld
  SmaRestored
PROPERTY
  RoamedUnbound
