SPECIFICATION FairSpec
CONSTANTS
    LBAs <- OneLBA
    MaxSectors = 3
    Reads <- AllReads
    EagerReads = FALSE
    MaxErrors = 1
    SparesWindow = TRUE
    Quiet = TRUE
    MaxOverrun = 1
INVARIANTS
    TypeOK
PROPERTIES
    ReadService
    TocSettled
    CallsReturn
    PausesDrive
