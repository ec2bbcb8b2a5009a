SPECIFICATION FairSpec
CONSTANTS
    PROC_MAX = 3
    MaxPid = 4
    TickCap = 1
    Deadlines = {0, 1}
    MaxNest = 2
PROPERTIES
    Scheduled
    AlarmDelivered
