SPECIFICATION FairSpec
CONSTANTS
    Names <- MCNames
    BinCue <- MCBinCue
    Dirs <- MCDirs
    Root = "root"
    Contents <- MCContents
    Target <- MCTarget
    Parent <- MCParent
    PerSector = 2
    MaxFiles = 5
    PageSize = 3
    HoldMax = 1
    HoldBack = 1
    ButtonSets <- MCButtons
    EarlyPress = FALSE
    MaxFailures = 1
    IndexModulus = 6
INVARIANTS
    TypeOK
    SelectionListed
    SelectionVisible
    ShowsFolder
    ActsOnSelected
PROPERTIES
    LoadEnds
    ShowsRoot
