SPECIFICATION FairSpec
CONSTANTS
    HeaderLen = 2
    BodyLen = 3
    Replies <- SomeReplies
    InitialCap = 1
    MaxCalls = 2
INVARIANTS
    AllFreed
