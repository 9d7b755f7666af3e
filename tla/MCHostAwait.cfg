SPECIFICATION FairSpec
CONSTANTS
  Flow = {f1}
  Parker = {w1, w2}
  Killer = {k1}
  NoFlow = NoFlow
  Main = Main
  MaxTickets = 2
  MaxAwaits = 2
  Capacity = 1
  Policy = "Reject"
  MaxYields = 1
  MaxHostActs = 1
INVARIANTS
    FailureIsHeard
    EndedClean
PROPERTIES
    SettledOnce
    
CHECK_DEADLOCK FALSE
