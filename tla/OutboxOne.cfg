SPECIFICATION FairSpec
CONSTANTS
    m = m
    x = x
    y = y
    o1 = o1
    o2 = o2
    None = None
    Entries = {m, x, y}
    Mirrored = {m}
    Targeted = {x}
    Boxes = {o1}
    LateLoad = FALSE
    LateShare = FALSE
    FaultKinds = {"net", "cut", "crash", "auth", "target"}
    MaxFaults = 2
INVARIANTS NothingLost ToldTruth QueueInv
PROPERTIES KeepsPromise Drains
CHECK_DEADLOCK FALSE
