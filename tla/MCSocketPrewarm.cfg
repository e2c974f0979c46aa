SPECIFICATION FairSpec
CONSTANTS
  t1 = t1
  t2 = t2
  t3 = t3
  Threads = {t1, t2, t3}
  Count = 2
  PoolMax = 2
  MaxFills = 3
  TlsEnabled = TRUE
INVARIANTS
  OneStepInFlight
  DrainIsComplete
PROPERTIES
  FillEnds
