SPECIFICATION Spec
CONSTANTS
    MaxFlows = 2
    MaxLive = 2
    Policies = {"TrustedHost"}
    Wants <- MCWants
    Natives = {1}
    Programs <- MCPrograms
    MaxTokens = 9
    Capacity = 1
    MaxBytes = 2
    MaxRows = 1
    Keys = {1, 2}
    Sizes = {0, 1}
    MemLimit = 1
    RuntimeBytes = 2
    Hop = 1
INVARIANTS
    TokensWork
    
    OneReplyAddress
    AccountsExact
CHECK_DEADLOCK FALSE
