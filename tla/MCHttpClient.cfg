SPECIFICATION FairSpec
CONSTANTS
  Requests = {meta, file}
  Metadata = {meta}
  Connections = {k1, k2, k3}
  SocketMaxPoolSize = 1
  ConnectAttempts = 2
  None = None
INVARIANTS
  PoolIsSound
PROPERTIES
  RetryIsBounded
  KeepsItsPromise
