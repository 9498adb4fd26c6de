CONSTANTS
    None = None
    Line <- MCLine
    Names = {"a.fw", "b.fw"}
    Expected <- MCExpected
    Contents <- MCContents
    Patches <- MCPatches
    MaxRuns = 2
SPECIFICATION Spec
INVARIANTS
    TextIsEdits
    PatchedOnce
CHECK_DEADLOCK FALSE
