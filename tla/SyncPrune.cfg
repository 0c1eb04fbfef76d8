SPECIFICATION Spec
CONSTANTS
    a = a
    b = b
    e1 = e1
    e2 = e2
    none = none
    Items = {a, b}
    PageLimit = 1
    SeqCap = 3
    ActiveAccount = FALSE
    Engines = {e1}
    NoEngine = none
    OwnRequests <- NoRequests
    Seed = a
    Warm = TRUE
    DeviceReturns = TRUE
    MaxFaults = 2
INVARIANT ChangesMoveAhead
CHECK_DEADLOCK FALSE
