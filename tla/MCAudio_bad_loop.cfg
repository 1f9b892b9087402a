SPECIFICATION FairSpec
CONSTANTS
    Sounds = {click}
    Files <- NoFiles
    Songs <- OddSong
    NumChannels = 2
    SectorSize = 32
    HeaderSize = 16
    BufferSectors = 2
    NumChunks = 4
    Threshold = 2
    LengthModulus = 64
    OffsetModulus = 32
    RamBlocks = 18
    MaxLoads = 1
    MaxTimeouts = 0
    MaxErrors = 0
    MaxData = 4
CHECK_DEADLOCK FALSE
PROPERTIES
    LoopsBack
