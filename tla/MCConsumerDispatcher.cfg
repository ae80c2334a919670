SPECIFICATION FairSpec
CONSTANTS
    NumConsumers = 2
    SlotCount = 2
    MaxMemorySize = 3
    Producers = {p1, p2}
    InputSizes <- MCInputSizes
    MaxElements = 4
INVARIANTS
    SlotNotReused
    CompletedOnceInOrder
    PipelineOrder
    ResourceAccounting
PROPERTIES
    AbortedNotConsumed
    EveryElementCompletes
    ShutdownTerminates
    ImplementsService
CHECK_DEADLOCK FALSE
