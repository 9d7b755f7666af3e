SPECIFICATION Spec
CONSTANTS
  Capacity = 1
  ByteLimit = 8
  Policies = {"Reject"}
  EpochMod = 16
  Flow = {a, b}
  Worker = {w1, w2}
  NoFlow = NoFlow
  a = a
  b = b
  c = c
  Program <- MCBackpressure
  Killable = {}
  MaxAsks = 0
  MaxOps = 2
INVARIANT NoMissedHop
CHECK_DEADLOCK FALSE
