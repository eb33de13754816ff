CONSTANTS
  MaxSnapshots = 2
  Passes = {p1}
  MaxPasses = 2
  MaxLapses = 0
SPECIFICATION RetentionSpec
CHECK_DEADLOCK FALSE
INVARIANT LeasedSnapshotsExist
