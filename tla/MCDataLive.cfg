CONSTANTS
  c1 = c1
  w1 = w1
  o1 = o1
  Jobs = {1, 2}
  Runners = {r1}
  Classes = {c1}
  NoOwner = NoOwner
  MaxClaims = 2
  ClassOf <- MCClassOf
  WorkspaceOf <- MCSameWorkspace
  OwnerOf <- MCOwnerOf
  GroupCallers = {g1, g2, g3}
  GroupSize = 2
  MaxEpoch = 2
  Workers = {x1}
  Tables = {t1}
  MaxRuns = 2
  MaxRunClaims = 3
  MaxMishaps = 2
  u1 = u1
  u2 = u2
  d1 = d1
  b1 = b1
  Uploads = {u1, u2}
  Blobs = {b1}
  ManifestOf <- MCManifestOf
  RevisionOf <- MCRevisionOf
  Uploaders = {x1}
  MaxFaults = 1
SPECIFICATION LiveSpec
CHECK_DEADLOCK FALSE
PROPERTIES EventuallyFinished GroupCallsReturn RunsSettle SessionsEnd
