CONSTANTS
    Machine <- TwoMachines
    Job = {j1}
    None = None
    Repeats = 1
    RxCap = 3
    BookCap = 32
    JobCap = 8
    Lossy = FALSE
    Staggered = TRUE
    Echo = FALSE
    Attended <- TwoMachines
    MaxOffs = 1
SPECIFICATION FairSpec
PROPERTIES
    PrintedOnce
    ImplementsTokenRing
    StuckLedgerTakenOver
