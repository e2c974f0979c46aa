SPECIFICATION FairSpec
CONSTANTS
    SlotCount = 1
    ClockReach = 2
    GhostWays = 1
    Keys = {k1, k2}
    Reads = {r1}
    Fillers = {f1}
    Workers = {w1}
    Backlog = 1
    MaxLeaving = 1
    Filling = Filling
    NoKey = NoKey
    NoSlot = NoSlot
    NoRead = NoRead
    Torn = Torn
    ChainOf <- MCChainOf
    GhostSetOf <- MCGhostSetOf
INVARIANTS
  SuccessfulReadHasItsBytes
  ClosedFileIsUnused
PROPERTIES
  UsesIndexSoundly
  ReadsEnd
  CleanupEnds
