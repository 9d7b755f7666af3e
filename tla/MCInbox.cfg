SPECIFICATION Spec
CONSTANTS
  Capacity = 3
  ByteLimit = 4
  Policies = {"Reject", "DropNewest", "DropOldest"}
  EpochMod = 8
  Sender = {s1, s2}
  Shape <- MCOversize
  SysShape <- MCBigSys
  Filter <- MCFilters
  MaxHops = 4
  MaxWaits = 2
INVARIANTS
    InboxSound
    NothingLost
PROPERTIES
    
    WaitKept
SYMMETRY SenderSymmetry
CHECK_DEADLOCK FALSE
