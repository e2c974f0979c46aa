SPECIFICATION FairSpec
CONSTANTS
  Requests = {r1, r2}
  Contexts = {c1, c2}
  MaxOps = 2
  NoOp = NoOp
INVARIANTS
  ContextIsShared
  CancelIsTimeout
PROPERTIES
  PeerCannotHang
