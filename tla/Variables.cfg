SPECIFICATION Spec
CONSTANTS
    UserName = {"x", "y", "IFS"}
    UserValue = {"a"}
    Dir = {"/", "/home"}
    Environs <- MCEnvirons
    MaxCells = 7
INVARIANTS TypeOK ListSound PwdIsCurrent
PROPERTY ImplementsMap
