SPECIFICATION FairSpec
CONSTANTS
  f1 = f1
  f2 = f2
  a1 = a1
  a2 = a2
  d1 = d1
  Files = {f1, f2}
  Reads = {a1, a2, d1}
  ReadAhead = {a1, a2}
  FileOf <- FileMap
  Length <- LengthMap
  MaxFetches = 2
  Budget = 2
  MaxRuns = 2
INVARIANTS
  ChargesAreExact
  NoWaitWithRoom
PROPERTIES
  AdmittedInOrder
  EveryReadEnds
