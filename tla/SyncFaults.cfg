SPECIFICATION FairSpec
CONSTANTS
    a = a
    b = b
    e1 = e1
    e2 = e2
    none = none
    Items = {a, b}
    PageLimit = 1
    SeqCap = 3
    ActiveAccount = TRUE
    Engines = {e1}
    NoEngine = none
    OwnRequests <- SomeRequests
    Seed = a
    Warm = TRUE
    DeviceReturns = TRUE
    MaxFaults = 2
INVARIANTS CursorCovers ChangesMoveAhead QuietMatches
PROPERTIES NoFlash ImplementsFeed Converges
CHECK_DEADLOCK FALSE
