CONSTANTS
    None = None
    Drivers <- MCDrivers
    Commands <- MCCommands
    MaxCommands = 3
    OldBins <- MCOldBins
    UserFiles <- MCUserFiles
SPECIFICATION Spec
INVARIANTS
    AtMostOneSectionLost
    FilesAreDriverData
    InitvalsAgree
    FilesBelongTogether
PROPERTIES ImplementsStore
CHECK_DEADLOCK FALSE
