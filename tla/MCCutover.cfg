\* Every call may have been answered and no reader may come: no deadlock check.
SPECIFICATION MCSpec
CHECK_DEADLOCK FALSE
CONSTANTS
  wa = wa
  wb = wb
  a1 = a1
  a2 = a2
  a3 = a3
  b1 = b1
  b2 = b2
  d1 = d1
  d2 = d2
  deploy = deploy
  once = once
  again = again
  refresh = refresh
  r1 = r1
  g1 = g1
  g2 = g2
  e1 = e1
  e2 = e2
  None = None
  Workspaces = {wa, wb}
  States = {a1, a2, a3, b1, b2}
  Readers = {r1}
  Calls = {deploy, once, again, refresh}
  Deployments = {d1, d2}
  MaxGenerations = 5
  QueueCapacity = 1
  MayShutDown = FALSE
  MayExpire = FALSE
  RenewalMayFail = FALSE
  ReleaseMayFail = FALSE
  WorkspaceOf <- MCWorkspaceOf
  Targets <- MCTargets
  DeploymentOf <- MCDeploymentOf
  InitialPointer <- MCInitialPointer
  Dispatchers = {x1, x2}
  Reconcilers = {y1}
  Digests = {g1, g2}
  FirstDigest = g1
  Crons = {e1, e2}
  CronsOf <- MCCronsOf
  Fires <- MCFires
  Horizon = 4
  ClaimTimeout = 2
  MaxDeploys = 2
  MaxDispatchFaults = 1
SYMMETRY Symmetry
INVARIANTS
  ActivationConsistent
  MemoryServesPointer
  NothingLeaks
  DueNotForgotten
PROPERTY
  NoMixedRollout
