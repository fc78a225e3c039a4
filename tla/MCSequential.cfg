SPECIFICATION AllSpec
CONSTANTS
    n1 = n1
    n2 = n2
    n3 = n3
    n4 = n4
    Node <- MCNode
    NULL = NULL
    NestingLimit = 2
    DefaultSize = 4
    PreviewSize = 2
    IntMax = 15
    LongMax = 127
    MaxWindow = 12
    DefaultWindow = 8
    Unset = unset
    Kinds = {"number", "string", "document", "integer"}
    Significand = 8
    ShortDigits = 2
    FullDigits = 4
    Pieces <- MCPieces
    MaxPieces <- MCMaxPieces
    Workdir <- MCWorkdir
    MaxLinks = 2
    MaxRegisteredTools = 16
    Char = {"a", "b", "nl", "NUL"}
    NL = "nl"
    NUL = "NUL"
    FileSystems <- MCFileSystems
    Requests <- MCRequests
    Missing = missing
    NoPath = null
    NoTool = null
    Fatal = fatal
    LineSize = 3
    MaxOutput = 3
    Block = 2
    Foreign <- MCForeign
    MaxForeign = 1
    MaxCalls = 2
INVARIANTS
    ListShape
    Ownership
    JsonSurvives
    CutIsRefused
    WindowsAgree
    ReadIsFaithful
    ChangeIsExact
    OldOrBeginning
    ResolvesRight
PROPERTIES
    FifoSpec
    OnlyNamedFileChanges
CHECK_DEADLOCK FALSE
