SPECIFICATION FairSpec
CONSTANTS
    MaxSlots = 2
    QueueSize = 5
    BatchSizes = {1, 2, 3}
    Failures = TRUE
INVARIANTS
    WakeUpIsPending
    SettledWhenFresh
PROPERTIES
    WaitsEnd
