SPECIFICATION Spec
CONSTANTS
    Names <- MCNames
    BinCue <- MCBinCue
    Counts <- EmptyFolder
    BufferSize = 4
    IndexModulus = 8
INVARIANTS
    InsideBuffer
CHECK_DEADLOCK FALSE
