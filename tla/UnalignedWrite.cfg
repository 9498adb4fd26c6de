CONSTANTS
    Sources <- Misplaced
    SectionNames <- MCNames
SPECIFICATION Spec
INVARIANT UnalignedWritesAsMeant
CHECK_DEADLOCK FALSE
