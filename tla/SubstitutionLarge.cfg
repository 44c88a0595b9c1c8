SPECIFICATION SubstSpec
CONSTANTS
    ReadSize = 2
    Capacity = 4
    MaxOutput = 6
PROPERTY SubstitutionReturns
CHECK_DEADLOCK FALSE
