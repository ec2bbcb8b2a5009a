SPECIFICATION Spec
CONSTANTS
    Width = 6
    CwdMax = 11
    Prints <- MCPrints
    Sorts <- MCSorts
    Splits <- MCSplits
    Chdirs <- MCChdirs
    BufSizes <- MCBufSizes
INVARIANTS
    NumbersShown
    TokensAreFields
    QsortSorts
    CwdNamesDirectory
