CONSTANTS
    Machine <- TwoMachines
    Job = {j1}
    None = None
    Repeats = 1
    RxCap = 1
    BookCap = 32
    JobCap = 8
    Lossy = TRUE
    Staggered = FALSE
    Echo = FALSE
    Attended = {}
    MaxOffs = 1
SPECIFICATION Spec
INVARIANTS
    TypeOK
    BroadcastIsCurrent
