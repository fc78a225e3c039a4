SPECIFICATION Spec
CONSTANTS
    Batches = 2
    MaxCount = 3
    PoolSize = 2
INVARIANTS
    ResultsInRequestOrder
    WritersRunAlone
    ArraysOutliveTasks
    ReportedBeforeIdle
PROPERTIES
    CallsReturn
