SPECIFICATION FairSpec
CONSTANTS
  create = create
  read = read
  query = query
  w1 = w1
  w2 = w2
  None = None
  Irps = {create, read, query}
  Workers = {w1, w2}
  Kind <- KindMap
  MaxPasses = 1
INVARIANTS
  OneOwner
  DriverContextIsKept
  NothingLeftBehind
PROPERTIES
  EveryIrpCompletes
  TeardownEnds
