CONSTANTS
    Images <- AllImages
    UnknownDecode = {TRUE, FALSE}
SPECIFICATION FairSpec
INVARIANTS
    ReferencesStayRight
    TextMakesImage
    RefusedForAnInstruction
    AssembledImagesReturn
PROPERTY Terminates
CHECK_DEADLOCK FALSE
