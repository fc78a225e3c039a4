SPECIFICATION Spec
CONSTANTS
    Text = text
    MaxTurns = 2
    Cost <- MCCost
    Window = 9
    OffloadPercent = 80
    Keep = 1
    ToolsMayFail = TRUE
    MaxCalls = 2
    MaxChats = 2
    MaxFiles = 3
    MaxRestarts = 1
INVARIANTS
    ResultsAllOrNone
    RequestFits
PROPERTIES
    ContextSpec
    ChatEnds
