CONSTANTS
    Peer = {p1}
    Slot = {s1}
    None = None
    HeadLen = 1
    FileLen = 1
    BufCap = 2
    SndCap = 2
    Faults = {}
CHECK_DEADLOCK FALSE
SPECIFICATION FairSpec
PROPERTIES
    SendReturns
