CONSTANTS
  Exprs = {e1, e2}
  Nets = {net}
  Conntracks = {x, y}
  ChainEvents = FALSE
  OtherModules = TRUE
  GetFails = FALSE
  WqFails = FALSE
  NoNet = NoNet
SPECIFICATION NotifierSpec
INVARIANT RegisteredMeansOurs
CHECK_DEADLOCK FALSE
