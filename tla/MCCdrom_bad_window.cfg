SPECIFICATION FairSpec
CONSTANTS
    LBAs <- OneLBA
    MaxSectors = 1
    Reads <- OneSector
    EagerReads = FALSE
    MaxErrors = 0
    SparesWindow = FALSE
    Quiet = TRUE
    MaxOverrun = 1
PROPERTIES
    BlockingReadsEnd
