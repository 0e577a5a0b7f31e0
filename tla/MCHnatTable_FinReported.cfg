SPECIFICATION Spec
CONSTANTS
  c1 = c1
  c2 = c2
  f1 = f1
  f2 = f2
  None = None
  CPUs = {c1}
  Flows = {f1}
  Entries = 1
  Ways = 1
  ForwardMax = 1
  Kind <- OneGroup
  Port <- OneDsa
  Tagged <- FirstTagged
  Retagged <- FirstTagged
  Typed <- SomeTyped
  Hash <- SameHash
  Changes <- SomeChanges
SYMMETRY Symm
INVARIANTS FinReported
