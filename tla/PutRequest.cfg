CONSTANTS
    Peer = {p1, p2}
    Slot = {s1, s2}
    None = None
    HeadLen = 1
    FileLen = 4
    BufCap = 3
    SndCap = 2
    Faults = {"stat", "open", "new", "connect", "read", "mem", "write"}
CHECK_DEADLOCK FALSE
SPECIFICATION FairSpec
INVARIANTS
    TypeOK
    StreamInOrder
    KeepsSending
    ConnectionsOwned
PROPERTIES
    ImplementsDistribution
    ReturnsUnlessMissed
