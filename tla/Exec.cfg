SPECIFICATION Spec
CONSTANTS
    Node <- MCNode
    Null = "none"
    tree <- MCTree
    Roots <- MCRoots
    Status <- MCStatus
    MaxDepth = 12
    MaxLog = 6
INVARIANTS TypeOK CallChain FollowsReference
