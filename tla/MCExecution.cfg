SPECIFICATION Spec
CONSTANTS
    Width = 6
    ValueSize = 2
    MaxValueDepth = 2
    MaxItems = 3
    MaxTag = 3
    MaxModuleItems = 20
    MaxName = 3
    MaxBlob = 3
    MaxCallDepth = 3
    MaxTrace = 12
    MaxLeaf = 4
    MaxJitCallDepth = 2
    QuotaLimit = 14
    MemLimit = 20
    NumNatives = 8
    MaxSteps = 24
    MaxCalls = 2
    MaxRegs = 12
    FlowId = 3
    MaxFrameName = 2
    MaxWire = 14
    Sources <- MCSources
    Damage <- MCDamage
    Arguments <- MCArguments
    Answers <- MCAnswers
    Hops <- MCHops
    OtherBytes <- MCOtherBytes
    Slices <- MCSlices
INVARIANTS
    ModulesReadBack
    VerifiedIsSafe
    
    CapabilitiesAreGiven
    HopsReadBack
    WrittenCodeMeansItsScript
    
CHECK_DEADLOCK FALSE
