CONSTANTS
    Conn = {c1, c2}
    Slot = {s1, s2}
    None = None
    QueueCap = 1
    ChanCap = 1
    DistCap = 1
    MaxSize = 2
    Sizes = {2}
    MaxPackets = 2
    MaxLen = 2
SPECIFICATION FairSpec
INVARIANTS
    TypeOK
    ArgIsAlive
    PointersAreLive
    StoredWhole
    NoPartialLeft
PROPERTIES
    ToldEndFreesWorker
\* Clients may stop connecting.
CHECK_DEADLOCK FALSE
