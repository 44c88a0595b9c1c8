SPECIFICATION Spec
CONSTANTS
    Char <- MCChar
    Keyword <- MCKeyword
    Texts <- MCTexts
INVARIANTS TypeOK NothingLost WordsAsSpelled
PROPERTY Advances
