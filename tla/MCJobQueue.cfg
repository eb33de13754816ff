CONSTANTS
  Jobs = {1, 2}
  Runners = {r1, r2}
  Classes = {c1}
  c1 = c1
  w1 = w1
  o1 = o1
  NoOwner = NoOwner
  MaxClaims = 2
  ClassOf <- MCClassOf
  WorkspaceOf <- MCSameWorkspace
  OwnerOf <- MCOwnerOf
SYMMETRY RunnerSymmetry
SPECIFICATION Spec
INVARIANTS AtMostOneHolder
PROPERTIES FinishedByNewestClaim ImplementsLeasedWork
