SPECIFICATION FairSpec
CONSTANTS
  i1 = i1
  i2 = i2
  None = None
  Queries = {i1, i2}
  Snapshots = {1, 2, 3, 4, 5}
  Total = 2
  MaxCalls = 4
INVARIANTS
  SnapshotIsHeld
  IndexCountsInSnapshot
PROPERTIES
  EveryQueryEnds
