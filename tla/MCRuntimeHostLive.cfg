\* Every call may have been answered and no reader may come: no deadlock check.
SPECIFICATION FairSpec
CHECK_DEADLOCK FALSE
CONSTANTS
  w1 = w1
  a1 = a1
  a2 = a2
  deploy = deploy
  refresh = refresh
  None = None
  r1 = r1
  r2 = r2
  Workspaces = {w1}
  States = {a1, a2}
  Readers = {r1}
  Calls = {deploy, refresh}
  MaxGenerations = 3
  QueueCapacity = 1
  MayShutDown = FALSE
  MayExpire = TRUE
  RenewalMayFail = TRUE
  ReleaseMayFail = TRUE
  WorkspaceOf <- MCWorkspaceOf
  Targets <- MCTargets
PROPERTY
  RetiredIsCleaned
