SPECIFICATION Spec
CONSTANTS
    Starts <- MCStarts
INVARIANTS TypeOK OwnedOnce WordsKept FollowsGrammar
