SPECIFICATION Spec
CONSTANTS
    Scenes <- MCScenes
    Cost <- MCCost
    Node <- MCNode
    Peers <- MCPeers
    Unencodable = {4}
    Oversize = {3}
    MaxHops = 2
    MaxBytes = 2
    QueueCapacity = 1
    MaxSessions = 1
    Window = 1
    MaxConns = 2
    Readers = 1
    Word = 8
INVARIANTS
    HopsAccounted
    
PROPERTIES
    
    WaiterReleased
CHECK_DEADLOCK FALSE
