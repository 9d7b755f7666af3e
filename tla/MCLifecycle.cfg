SPECIFICATION Spec
CONSTANTS
  Flow = {a, b}
  Host = {h}
  Worker = {w}
  Name = {n, m}
  Ending = {a, b}
  MaxLinks = 1
  MaxMonitors = 1
  MaxNames = 1
  Ops = {"link", "unlink", "trap", "monitor", "demonitor", "register", "signal"}
  MaxOps = 2
INVARIANTS
    LinksSound
    MonitorsSound
    FinalizedOnce
SYMMETRY FlowSymmetry
CHECK_DEADLOCK FALSE
