SPECIFICATION FairSpec
CONSTANTS
    Children = {1, 2}
    Named = {1}
    Strategies = {"OneForOne", "OneForAll", "RestForOne"}
    Exits <- MCExits
    MaxFlows = 4
    MaxRestarts = 1
    Period = 1
    MaxTime = 2
    Drive = drive
    Host = host
INVARIANTS
    ChildrenExact
    WavesBounded
PROPERTIES
    ExitIsHandled
    
CHECK_DEADLOCK FALSE
