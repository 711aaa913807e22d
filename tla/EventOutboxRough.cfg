SPECIFICATION FairSpec
CONSTANTS
    Events = {1}
    Workers = {w1, w2}
    Types <- TheType
    TypeOf <- OneType
    MaxAttempts = 3
    ClaimLimit = 1
    MaxPerType = 1
    MaxReplays = 1
    SlowWorkers = TRUE
    OverlappingOperators = TRUE
INVARIANTS
    UnsentIsRecoverable
PROPERTIES
    EveryEventSettles
