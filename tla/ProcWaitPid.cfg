SPECIFICATION FairSpec
CONSTANTS
    PROC_MAX = 4
    MaxPid = 4
    TickCap = 0
    Deadlines = {}
    MaxNest = 1
PROPERTIES
    WaitPidReturns
