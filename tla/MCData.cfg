CONSTANTS
  Workers = {x1, x2}
  Tables = {t1}
  MaxRuns = 2
  MaxRunClaims = 2
  MaxMishaps = 2
  MaxSnapshots = 3
  Passes = {x1, x2}
  MaxPasses = 2
  MaxLapses = 1
  u1 = u1
  u2 = u2
  u3 = u3
  d1 = d1
  d2 = d2
  b1 = b1
  b2 = b2
  Uploads = {u1, u2, u3}
  Blobs = {b1, b2}
  ManifestOf <- MCManifestOf
  RevisionOf <- MCRevisionOf
  Uploaders = {x1, x2}
  MaxFaults = 1
  GroupCallers = {g1, g2, g3}
  GroupSize = 2
  MaxEpoch = 2
SYMMETRY DataSymmetry
SPECIFICATION MCSpec
CHECK_DEADLOCK FALSE
INVARIANTS
  DurableConsistent
  PublishedBlobsExist
  NothingLeftRunning
PROPERTIES
  ImplementsLatestRefresh SettledRootsStaySettled
  EstablishedSnapshotsKept
  OneOutcome
  OrderlyStops
