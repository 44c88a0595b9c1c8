SPECIFICATION SubstSpec
CONSTANTS
    ReadSize = 2
    Capacity = 4
    MaxOutput = 6
INVARIANTS SubstTypeOK TextComplete ReturnsEmptyHanded
PROPERTY SmallOutputReturns
CHECK_DEADLOCK FALSE
