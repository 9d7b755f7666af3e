SPECIFICATION Spec
CONSTANTS
  Capacity = 1
  ByteLimit = 8
  Policies = {"Reject"}
  EpochMod = 16
  Flow = {a, b, c}
  Worker = {w1, w2}
  NoFlow = NoFlow
  a = a
  b = b
  c = c
  Program <- MCContended
  Killable = {b}
  MaxAsks = 1
  MaxOps = 2
INVARIANTS
    FlowsOwned
    WaitIndexExact
SYMMETRY WorkerSymmetry
CHECK_DEADLOCK FALSE
