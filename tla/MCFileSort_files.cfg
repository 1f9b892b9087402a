SPECIFICATION FairSpec
CONSTANTS
    Names <- MCNames
    BinCue <- MCBinCue
    Counts <- SomeFiles
    BufferSize = 4
    IndexModulus = 8
INVARIANTS
    TypeOK
    ScansStayInside
    Permutation
    MatchesReference
PROPERTIES
    Terminates
CHECK_DEADLOCK FALSE
