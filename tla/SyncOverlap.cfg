SPECIFICATION Spec
CONSTANTS
    a = a
    b = b
    e1 = e1
    e2 = e2
    none = none
    Items = {a, b}
    PageLimit = 1
    SeqCap = 3
    ActiveAccount = TRUE
    Engines = {e1, e2}
    NoEngine = none
    OwnRequests <- NoRequests
    Seed = a
    Warm = TRUE
    DeviceReturns = TRUE
    MaxFaults = 0
SYMMETRY EngineSymmetry
INVARIANTS IndInv
CHECK_DEADLOCK FALSE
