SPECIFICATION LiveSpec
CONSTANTS
    Link = {l1, l2}
    Fd = {3, 4, 5}
    Addr = {a1, a2}
    None = None
    BUFSIZE = 1
    Window = 1
    MaxSent = 2
    MaxTries = 2
INVARIANTS
    ServerInv
PROPERTIES
    DiesWithPeer
    EveryoneAccepted
    ThreadEnds
CHECK_DEADLOCK FALSE
