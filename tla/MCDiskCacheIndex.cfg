SPECIFICATION IndexSpec
CONSTANTS
    SlotCount = 3
    ClockReach = 2
    GhostWays = 2
    k1 = k1
    k2 = k2
    k3 = k3
    r1 = r1
    r2 = r2
    Keys = {k1, k2, k3}
    Reads = {r1, r2}
    Filling = Filling
    NoKey = NoKey
    NoSlot = NoSlot
    ChainOf <- MCChainOf
    GhostSetOf <- MCGhostSetOf
SYMMETRY Symm
INVARIANTS
  PinnedSlotKeepsItsBlock
  IndexIsExact
PROPERTIES
  MarkedSlotIsLastResort
