CONSTANTS
  Handlers = {h1, h2}
  MaxRequests = 3
  MaxAttempts = 2
  MaxSequence = 1
  q1 = q1
  q2 = q2
  s1 = s1
  s2 = s2
  ws1 = ws1
  k1 = k1
  k2 = k2
  Queries = {q1, q2}
  CacheScopes = {s1, s2}
  CacheWorkspaces = {ws1}
  Keys = {k1, k2}
  Asks <- MCAsks
  FlightIds = {1, 2}
  ResultIds = {1, 2, 3}
  WorkspaceOfScope <- MCWorkspaceOfScope
  SizeOfKey <- MCSizeOfKey
  RuntimeLimit <- MCRuntimeLimit
  WorkspaceLimit <- MCWorkspaceLimit
  NodeLimit <- MCNodeLimit
  MaxData = 1
  MaxIncarnations = 1
  PoolClients = {h1, h2}
  Managers = {1, 2, 3}
  Pools = {1, 2, 3, 4}
  MaxConcurrent = 1
  MaxRevision = 3
  MaxVersion = 2
SYMMETRY ServingSymmetry
SPECIFICATION MCSpec
CHECK_DEADLOCK FALSE
INVARIANTS
  ServingConsistent
  NoSessionUpdateLost
  ResultsPinned NoStaleResults
  LeasedPoolsOpen PoolsFollowStore
PROPERTIES
  EventsInOrder
