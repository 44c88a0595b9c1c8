SPECIFICATION Spec
CONSTANTS
    MaxFd = 7
    Path <- MCPath
    Terminal = "tty"
    Closed = "closed"
    Atoi <- MCAtoi
    Redir <- TwiceRedir
    Type <- TwiceType
    IoNumber <- TwiceIoNumber
    Word <- TwiceWord
    Cmd <- TwiceCmd
    Kind <- TwiceKind
    Prefix <- TwicePrefix
    Bodies <- TwiceBodies
    MaxDepth = 3
    MaxCommands = 4
INVARIANT ResetRestores
