SPECIFICATION Spec
CONSTANTS
    MAX_FDTABLE = 3
    MAX_FILES = 2
    NStd = 1
    Inodes = {"a", "b"}
    SetfdArgs = {0, 2}
    MaxRef = 1
INVARIANTS
    TypeOK
    RefcountLaw
    LeadsToOpened
PROPERTIES
    DescriptorsStable
