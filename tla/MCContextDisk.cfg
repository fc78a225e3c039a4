SPECIFICATION Spec
CONSTANTS
    Tags = {t}
    Contents = {c1, c2}
    t = t
    c1 = c1
    c2 = c2
    Said <- MCSaid
    Cost <- MCCost
    Window = 20
    OffloadPercent = 80
    Keep = 1
    ShortWrites = TRUE
    Truncated = truncated
    MaxMessages = 3
    MaxFiles = 3
    MaxRestarts = 0
INVARIANTS
    Lossless
