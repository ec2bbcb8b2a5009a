SPECIFICATION FairSpec
CONSTANTS
    PROC_MAX = 4
    MaxPid = 3
    TickCap = 0
    Deadlines = {}
    MaxNest = 0
PROPERTIES
    WaitAnyReturns
    PowersOff
