CONSTANTS
  PortSpace = 5
  DefaultMin = 2
SPECIFICATION Spec
INVARIANTS
  LoopFindsFreePort
PROPERTY SearchTerminates
CHECK_DEADLOCK FALSE
