SPECIFICATION FairSpec
CONSTANTS
    WorkerCount = 3
    Tasks = {t1, t2, t3}
    Clients = {c1, c2}
    NoTask = NoTask
INVARIANTS
    NoLostIdle
    PoolOutlivesUsers
PROPERTIES
    WaitMeansIdle
    PoolSpec
    TasksSettle
    CallersReturn
