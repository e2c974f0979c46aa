SPECIFICATION Spec
CONSTANTS
  Requests = {r1}
  Contexts = {c1}
  MaxOps = 1
  NoOp = NoOp
INVARIANTS
  DrainIsComplete
