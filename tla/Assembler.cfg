CONSTANTS
    NoName = "-"
    Programs <- AllPrograms
SPECIFICATION FairSpec
INVARIANTS
    TypeOK
    AddressesConsistent
    ReferencesResolved
    RejectedKeepsFile
    RetWarningsJustified
PROPERTIES
    RestartBeforeResolving
    ImplementsMeaning
    Terminates
CHECK_DEADLOCK FALSE
