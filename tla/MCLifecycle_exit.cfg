SPECIFICATION FairSpec
CONSTANTS
  Flow = {a, b}
  Host = {}
  Worker = {v, w}
  Name = {n}
  Ending = {a, b}
  MaxLinks = 0
  MaxMonitors = 1
  MaxNames = 1
  Ops = {"link", "trap"}
  MaxOps = 3
PROPERTIES
    LinkedExitArrives
CHECK_DEADLOCK FALSE
