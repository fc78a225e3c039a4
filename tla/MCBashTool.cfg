SPECIFICATION FairSpec
CONSTANTS
    Byte = {"a", "NUL"}
    NUL = "NUL"
    Capacity = 2
    BufSize = 2
    Helpers = {"helper"}
    MaxBytes = 4
    MaxCalls = 2
INVARIANTS
    ReportIsFaithful
    NothingLeft
PROPERTIES
    ToolEnds
