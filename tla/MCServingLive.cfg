CONSTANTS
  ws1 = ws1
  Handlers = {h1, h2}
  MaxRequests = 2
  MaxAttempts = 1
  MaxSequence = 1
  q1 = q1
  q2 = q2
  s1 = s1
  k1 = k1
  Queries = {q1, q2}
  CacheScopes = {s1}
  CacheWorkspaces = {ws1}
  Keys = {k1}
  Asks <- MCAsks
  FlightIds = {1, 2}
  ResultIds = {1, 2, 3}
  WorkspaceOfScope <- MCWorkspaceOfScope
  SizeOfKey <- MCSizeOfKey
  RuntimeLimit <- MCLimit
  WorkspaceLimit <- MCLimit
  NodeLimit <- MCLimit
  MaxData = 0
  MaxIncarnations = 1
  PoolClients = {h1, h2}
  Managers = {1, 2, 3}
  Pools = {1, 2, 3, 4}
  MaxConcurrent = 1
  MaxRevision = 2
  MaxVersion = 1
  a1 = a1
  a2 = a2
  e1 = e1
  e2 = e2
  Dispatchers = {x1}
  Reconcilers = {y1}
  Digests = {a1, a2}
  FirstDigest = a1
  Crons = {e1, e2}
  CronsOf <- MCCronsOf
  Fires <- MCFires
  Horizon = 3
  ClaimTimeout = 2
  MaxDeploys = 1
  MaxDispatchFaults = 2
SPECIFICATION LiveSpec
CHECK_DEADLOCK FALSE
PROPERTIES ServingCallsReturn DueIsRun
