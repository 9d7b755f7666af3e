SPECIFICATION FairSpec
CONSTANTS
  Capacity = 1
  ByteLimit = 8
  Policies = {"Reject"}
  EpochMod = 16
  Flow = {a, b}
  Worker = {w1, w2}
  NoFlow = NoFlow
  a = a
  b = b
  c = c
  Program <- MCAskBusy
  Killable = {b}
  MaxAsks = 0
  MaxOps = 2

    
PROPERTIES
    TimedWaitEnds
CHECK_DEADLOCK FALSE
