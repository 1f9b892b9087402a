SPECIFICATION FairSpec
CONSTANTS
    Sounds = {click, slide}
    Files <- MCFiles
    Songs <- MCSongs
    NumChannels = 1
    SectorSize = 32
    HeaderSize = 16
    BufferSectors = 2
    NumChunks = 4
    Threshold = 2
    LengthModulus = 64
    OffsetModulus = 32
    RamBlocks = 18
    MaxLoads = 2
    MaxTimeouts = 1
    MaxErrors = 1
    MaxData = 4
CHECK_DEADLOCK FALSE
INVARIANTS
    TypeOK
    SoundsIntact
PROPERTIES
    SongInOrder
    LoadEnds
    WaitEnds
