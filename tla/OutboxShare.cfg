SPECIFICATION Spec
CONSTANTS
    m = m
    x = x
    y = y
    o1 = o1
    o2 = o2
    None = None
    Entries = {m, x}
    Mirrored = {m}
    Targeted = {}
    Boxes = {o1}
    LateLoad = FALSE
    LateShare = TRUE
    FaultKinds = {}
    MaxFaults = 0
INVARIANTS NothingForgotten
CHECK_DEADLOCK FALSE
