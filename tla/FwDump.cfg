CONSTANTS
    None = None
    Dumpers = {d1, d2}
    WithShm = {d1}
    WithBinary = {d1}
    Texts <- MCTexts
    Pcs <- MCPcs
    Gprs = 1
    LinkRegs = 0
    OffsetRegs = 0
    ShmWords = 1
    MaxTime = 2
    MaxDriver = 2
SPECIFICATION FairSpec
INVARIANTS
    SnapshotConsistent
    DeviceIsHandedBack
    ShortDumpShowsPc
PROPERTY RunsAgain
CHECK_DEADLOCK FALSE
