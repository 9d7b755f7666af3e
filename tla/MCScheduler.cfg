SPECIFICATION Spec
CONSTANTS
    Scenes <- MCScenes
    Workers = 2
    Flows = 4
    LocalCap = 2
    InjectorBatch = 4
    MaxSpins = 2
    MaxPasses = 8
    MaxAnswers = 2
    Slots = 2
    Levels = 2
    TickNs = 2
    MaxInstant = 5
INVARIANTS
    FlowsOwned
    WheelIsExact
    OutcomesExact
PROPERTIES
    EveryFlowEnds
    HostReturns
CHECK_DEADLOCK FALSE
