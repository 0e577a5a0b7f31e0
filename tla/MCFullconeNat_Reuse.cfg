CONSTANTS
  PortSpace = 3
  DefaultMin = 1
  Objs = {o1, o2}
  Nodes = {n1, n2}
  CPUs = {c1}
  IntEps <- MCOneInt
  Remotes <- MCRemote
  ExtAddrs = {"ext"}
  Ranges <- MCNftRange
  AllocFails = FALSE
  QuickReuse = TRUE
  None = None
  MaxConntrack = 3
  MaxDying = 1
CONSTRAINT Bounded
SYMMETRY Symmetry
SPECIFICATION Spec
PROPERTY CollectorFreesOutdated
