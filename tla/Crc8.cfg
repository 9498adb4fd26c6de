SPECIFICATION Spec
CONSTANTS
    Data = {0, 90}
INVARIANT EveryChangeIsSeen
