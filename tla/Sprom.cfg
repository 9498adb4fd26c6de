SPECIFICATION Spec
CONSTANTS
    Checksum <- MCChecksum
    Leftovers <- MCLeftovers
    RevBytes = {0, 6, 8}
    Cases <- AllCases
INVARIANT OutputIsAcceptable
INVARIANT RejectedKeepsOutput
INVARIANT ForcedOrValid
INVARIANT DocumentedIsAccepted
INVARIANT EditsTakeEffect
INVARIANT OthersKept
INVARIANT ShownIsInput
