SPECIFICATION FairSpec
CONSTANTS
    Events = {1, 2}
    Workers = {w1, w2}
    Types <- TheType
    TypeOf <- OneType
    MaxAttempts = 2
    ClaimLimit = 2
    MaxPerType = 1
    MaxReplays = 1
    SlowWorkers = FALSE
    OverlappingOperators = FALSE
INVARIANTS
    OneWorkerPerRow
    PublishedIsNotDeadLetter
    DiscardedStaysDiscarded
PROPERTIES
    ImplementsDelivery
    DeadLetterIsTerminal
    EveryRowSettles
