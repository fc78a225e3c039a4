SPECIFICATION Spec
CONSTANTS
    Workdir <- MCWorkdir
    MaxLinks = 2
    MaxRegisteredTools = 16
    Char = {"a", "b", "nl", "NUL"}
    NL = "nl"
    NUL = "NUL"
    FileSystems <- MCFileSystems
    Requests <- MCRequests
    Missing = missing
    NoPath = null
    NoTool = null
    Fatal = fatal
    LineSize = 3
    MaxOutput = 3
    Block = 2
    Foreign <- MCForeign
    MaxForeign = 1
    MaxCalls = 2
INVARIANTS
    OpensInside
CHECK_DEADLOCK FALSE
