CONSTANTS
  PortSpace = 3
  DefaultMin = 1
  Objs = {o1, o2}
  Nodes = {n1, n2}
  CPUs = {c1, c2}
  IntEps <- MCIntEps
  Remotes <- MCRemote
  ExtAddrs = {"ext"}
  Ranges <- MCRanges
  AllocFails = TRUE
  QuickReuse = TRUE
  None = None
  MaxConntrack = 1
  MaxDying = 1
CONSTRAINT Bounded
SYMMETRY Symmetry
SPECIFICATION Spec
INVARIANTS
  ExtUnique
  IntUnique
  ReferCountIsLength
