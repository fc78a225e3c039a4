SPECIFICATION Spec
CONSTANTS
    MaxSlots = 2
    QueueSize = 64
    BatchSizes = {1, 2}
    Failures = FALSE
INVARIANTS
    Barrier
