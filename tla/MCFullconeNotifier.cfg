CONSTANTS
  Exprs = {e1, e2}
  Nets = {net}
  Conntracks = {x, y}
  ChainEvents = TRUE
  OtherModules = TRUE
  GetFails = FALSE
  WqFails = TRUE
  NoNet = NoNet
SPECIFICATION NotifierFairSpec
INVARIANT
  NothingLeftUnloaded
PROPERTIES
  NotifierWhileUsed
  DyingHandled
