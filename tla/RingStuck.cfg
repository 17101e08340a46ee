CONSTANTS
    Machine <- ThreeMachines
    Job = {}
    None = None
    Repeats = 1
    RxCap = 3
    BookCap = 32
    JobCap = 8
    Lossy = FALSE
    Staggered = TRUE
    Echo = FALSE
    Attended = {}
    MaxOffs = 1
SPECIFICATION FairSpec
PROPERTIES
    StuckLedgerTakenOver
