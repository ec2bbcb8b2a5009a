SPECIFICATION FairSpec
CONSTANTS
    cap = 512
    Ports = {0, 1}
    Sectors = 8
    SpinMax = 1
    Blocks = {1, 2}
    Writes = {4}
    Signable = {0, 2}
INVARIANTS
    TypeOK
    SuccessMeansTransferred
    NothingOutstanding
    MountedSuperblock
PROPERTIES
    CallReturns
