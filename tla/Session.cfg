SPECIFICATION Spec
CONSTANTS
    Name <- MCName
    Hash <- MCHash
    Buckets = 3
    File <- MCFile
    Content <- MCContent
    Main <- MCFile
    MaxPrograms = 5
INVARIANTS TypeOK AliveWhileNeeded LatestFound StopsOnlyAfterBadText
