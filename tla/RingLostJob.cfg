CONSTANTS
    Machine <- TwoMachines
    Job = {j1}
    None = None
    Repeats = 3
    RxCap = 3
    BookCap = 32
    JobCap = 8
    Lossy = FALSE
    Staggered = TRUE
    Echo = FALSE
    Attended = {}
    MaxOffs = 0
SPECIFICATION Spec
INVARIANTS
    AnnouncedJobKept
