\* The process stops once the registry is closed: no deadlock check.
SPECIFICATION Spec
CHECK_DEADLOCK FALSE
CONSTANTS
  w1 = w1
  a1 = a1
  a2 = a2
  deploy = deploy
  refresh = refresh
  None = None
  r1 = r1
  r2 = r2
  Workspaces = {w1}
  States = {a1, a2}
  Readers = {r1, r2}
  Calls = {deploy, refresh}
  MaxGenerations = 3
  QueueCapacity = 1
  MayShutDown = TRUE
  MayExpire = TRUE
  RenewalMayFail = FALSE
  ReleaseMayFail = TRUE
  WorkspaceOf <- MCWorkspaceOf
  Targets <- MCTargets
SYMMETRY ReaderSymmetry
INVARIANTS
  Consistent
  NothingLeaks
PROPERTY
  ImplementsSharedRuntimes
