SPECIFICATION FairSpec
CONSTANTS
    Plugs <- MCPlugs
    Discs <- MCDiscs
    MenuDisc <- MCMenu
    Kernels = {TRUE, FALSE}
    SectorSize = 155
    RxSize = 3
    MaxLine = 6
    MaxFaults = 1
    MaxFailures = 1
    MaxSwaps = 1
CHECK_DEADLOCK FALSE
INVARIANTS
    TypeOK
    AnswersThisPacket
    FindsDevices
    IdArrives
    RestartClean
PROPERTIES
    SentWhole
    Ends
