SPECIFICATION FairSpec
CONSTANTS
    NumChunks = 3
    MaxFeed = 3
    MaxFed = 6
    UploadAnyTime = FALSE
    CountModulus = 8
INVARIANTS
    TypeOK
    RingConsistent
    IRQOffOnUnderrun
PROPERTIES
    PlaysInOrder
    FedIsHeard
