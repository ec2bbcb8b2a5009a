SPECIFICATION Spec
CONSTANTS
    Procs = {1, 2}
    First = 1
    MaxDepth = 3
    BufSize = 2
    Counts = {1, 3}
    Keys = {0, 1, 10}
INVARIANTS
    TypeOK
    FramesIntact
    ReadGives
PROPERTIES
    ReturnsToItsOwn
