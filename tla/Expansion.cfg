SPECIFICATION Spec
CONSTANTS
    Char <- MCChar
    Source <- MCSource
    Env <- MCEnv
    Output <- MCOutput
    BufferSize = 7
    MaxLength = 4
    MaxAdjacent = 6
    MaxCommand = 4
INVARIANTS TypeOK ShortWordsExpand RunsItsCommand
PROPERTY TurnsShorten
