SPECIFICATION RRSpec
CONSTANTS
    PROC_MAX = 4
    MaxPid = 6
    TickCap = 0
    Deadlines = {}
    MaxNest = 0
    Watched = 2
INVARIANTS
    TypeOK
    OneOnCpu
    PidUnique
    ShutdownClean
    FamilyTree
    WaiterTarget
PROPERTIES
    ReapByParent
    NoResurrection
    RoundRobin
