SPECIFICATION Spec
CONSTANTS
    Procs = {1, 2, 3, 4, 5}
    PG_SIZE = 24
    HeapPages = 18
    MaxMap = 3
    MaxPa = 12
    MaxFailed = 2
INVARIANTS
    ChunksFit
    FreeIsFree
    ListsAreSequences
CHECK_DEADLOCK FALSE
