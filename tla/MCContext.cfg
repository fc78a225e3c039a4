SPECIFICATION FairSpec
CONSTANTS
    Tags = {t}
    Contents = {c1, c2}
    t = t
    c1 = c1
    c2 = c2
    Said <- MCSaid
    Cost <- MCCost
    Window = 7
    OffloadPercent = 80
    Keep = 1
    ShortWrites = FALSE
    Truncated = truncated
    MaxMessages = 3
    MaxFiles = 3
    MaxRestarts = 1
INVARIANTS
    SettledWhenOk
PROPERTIES
    TranscriptSpec
    RecentStayVerbatim
