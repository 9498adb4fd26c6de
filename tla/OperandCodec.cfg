CONSTANTS
    None = None
    Operands <- MCOperands
    Addresses <- MCAddresses
SPECIFICATION Spec
INVARIANTS TextMeansSource FieldIsStable
CHECK_DEADLOCK FALSE
