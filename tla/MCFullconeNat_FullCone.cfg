CONSTANTS
  PortSpace = 3
  DefaultMin = 1
  Objs = {o1, o2}
  Nodes = {n1, n2}
  CPUs = {c1}
  IntEps <- MCIntEps
  Remotes <- MCRemotes
  ExtAddrs = {"ext"}
  Ranges <- MCNftRange
  AllocFails = FALSE
  QuickReuse = FALSE
  None = None
  MaxConntrack = 3
  MaxDying = 1
CONSTRAINT Bounded
SYMMETRY Symmetry
SPECIFICATION Spec
INVARIANT LiveFlowsKeepMapping
PROPERTY ImplementsFullCone
