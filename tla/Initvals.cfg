CONSTANTS
    Sources <- AllSources
    SectionNames <- MCNames
SPECIFICATION Spec
INVARIANTS
    TypeOK
    SectionsHoldTheirWrites
    FilesInOrder
    HeaderCountsRecords
    FilesMeanTheirSections
    DumpsReturn
CHECK_DEADLOCK FALSE
