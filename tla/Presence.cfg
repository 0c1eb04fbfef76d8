SPECIFICATION FairSpec
CONSTANTS
    p = p
    q = q
    s1 = s1
    s2 = s2
    s3 = s3
    r1 = r1
    None = None
    Devices = {p, q}
    Sockets = {s1, s2, s3}
    Of <- Connections
    Requests = {r1}
INVARIANTS AllTold PresenceTrue RevokedGone HubInv
PROPERTIES EveryoneTold
CHECK_DEADLOCK FALSE
