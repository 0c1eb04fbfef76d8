SPECIFICATION Spec
CONSTANTS
    m = m
    x = x
    y = y
    o1 = o1
    o2 = o2
    None = None
    Entries = {x}
    Mirrored = {}
    Targeted = {}
    Boxes = {o1}
    LateLoad = FALSE
    LateShare = FALSE
    FaultKinds = {"cut"}
    MaxFaults = 1
INVARIANTS UndoneStaysUndone
CHECK_DEADLOCK FALSE
