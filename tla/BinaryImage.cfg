SPECIFICATION Spec
CONSTANTS
    Checksum <- MCChecksum
    Leftovers <- MCLeftovers
    RevBytes = {0, 6, 8}
    Cases <- BinaryImage
INVARIANT UsageIsAccepted
