CONSTANTS
    Task = {main, heartbeat, ledger, worker}
    Main = main
    Sleeper = {heartbeat, ledger}
    Delay <- Sleeps
    Period = 3
    Word = 6
    Lag = 1
    BootTicks = 5
    MaxTime = 12
    PathCap = 3
    Entry <- Entries
    MaxEntries = 2
CHECK_DEADLOCK FALSE
SPECIFICATION BootSpec
INVARIANTS
    BootTypeOK
    NowIsTime
    TimersOnTime
    NoSleepOnWork
    NoOldJobs
PROPERTIES
    EventIsSeen
    BootCompletes
