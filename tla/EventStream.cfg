SPECIFICATION FairSpec
CONSTANTS
    MaxEntries = 2
    Consumers = {c1, c2}
    NHandlers = 2
    MaxRetries = 2
    ReadCount = 2
    ReclaimCount = 1
    MaxFailures = 1
    MaxOverruns = 1
INVARIANTS
    DeadLettersWereRetried
    OneConsumerPerEntry
    RetriesAreBounded
PROPERTIES
    ImplementsDelivery
    EveryEntrySettles
