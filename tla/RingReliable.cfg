CONSTANTS
    Machine <- ThreeMachines
    Job = {}
    None = None
    Repeats = 2
    RxCap = 3
    BookCap = 32
    JobCap = 8
    Lossy = FALSE
    Staggered = TRUE
    Echo = FALSE
    Attended = {}
    MaxOffs = 0
SPECIFICATION FairSpec
INVARIANTS
    OneBroadcaster
    LedgersAgree
PROPERTIES
    ObserveThenAct
    EveryoneGetsATurn
