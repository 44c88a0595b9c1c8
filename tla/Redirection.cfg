SPECIFICATION Spec
CONSTANTS
    MaxFd = 7
    Path <- MCPath
    Terminal = "tty"
    Closed = "closed"
    Atoi <- MCAtoi
    Redir <- MCRedir
    Type <- MCType
    IoNumber <- MCIoNumber
    Word <- MCWord
    Cmd <- MCCmd
    Kind <- MCKind
    Prefix <- MCPrefix
    Bodies <- MCBodies
    MaxDepth = 3
    MaxCommands = 4
INVARIANTS TypeOK OutputOnTarget NothingPendingAtFork RestoreSound
PROPERTY ClosesOnlyOnRequest
