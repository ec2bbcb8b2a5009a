SPECIFICATION Spec
CONSTANTS
    PROC_MAX = 3
    NPages = 17
    Offsets = {0, 1}
    RootIndex = {0}
    Words = {0, 1}
    ContextWords = {0}
    FreeNext = 1
    MaxTaken = 3
    VAs <- MCVAs
    Images <- MCImages
    StackPage <- Stack
INVARIANTS TypeOK ListedIsMapped OneOwner
PROPERTIES PrivateSpaces
