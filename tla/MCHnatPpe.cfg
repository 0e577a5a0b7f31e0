CONSTANTS
  CPUs = {c1, c2}
  Programs <- MCSome
  Flows = {a}
  RunMax = 2
  None = None
SYMMETRY MCCPUs
CONSTRAINT MCResetBeside
SPECIFICATION Spec
CHECK_DEADLOCK FALSE
INVARIANTS
  EngineWorks
  SettingsHeld
  StaleDropped
