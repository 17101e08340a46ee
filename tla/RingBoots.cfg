CONSTANTS
    Machine <- ThreeMachines
    Job = {}
    None = None
    Repeats = 1
    RxCap = 3
    BookCap = 32
    JobCap = 8
    Lossy = FALSE
    Staggered = FALSE
    Echo = FALSE
    Attended = {}
    MaxOffs = 0
SPECIFICATION Spec
PROPERTIES
    ObserveThenAct
