SPECIFICATION Spec
CONSTANTS
    LBAs <- TwoLBAs
    MaxSectors = 2
    Reads <- TwoSectors
    EagerReads = FALSE
    MaxErrors = 0
    SparesWindow = TRUE
    Quiet = TRUE
    MaxOverrun = 1
PROPERTIES
    BlocksUntilComplete
