SPECIFICATION Spec
CONSTANTS
    m = m
    x = x
    y = y
    o1 = o1
    o2 = o2
    None = None
    Entries = {x, y}
    Mirrored = {}
    Targeted = {}
    Boxes = {o1, o2}
    LateLoad = FALSE
    LateShare = FALSE
    FaultKinds = {}
    MaxFaults = 0
INVARIANTS NothingForgotten
CHECK_DEADLOCK FALSE
