SPECIFICATION Spec
CONSTANTS
    Sites = {"r1", "r2"}
    PreOrder <- MCPreOrder
    Passed <- MCPassed
    InitTrees <- OpenTree
    Lens = {1, 2, 3}
    Stored <- MCStored
    MaxFileSize = 2
    MaxTotalBytes = 11
    ErrorSet = 1
    EditKinds = {"move"}
    Modes <- MCModes
    Returns = TRUE
    MaxFaults = 0
    MaxEvents = 1
CHECK_DEADLOCK FALSE
PROPERTY SiteConverges
