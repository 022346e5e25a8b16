SPECIFICATION Spec
CONSTANTS
    Sites = {"r1", "r2"}
    PreOrder <- FewPaths
    Passed <- MCPassed
    InitTrees <- SomeTrees
    Lens = {1, 2, 3}
    Stored <- MCStored
    MaxFileSize = 2
    MaxTotalBytes = 9
    ErrorSet = 1
    EditKinds = {"write", "remove", "chmod", "chmodFile", "move"}
    Modes <- MCModes
    Returns = FALSE
    MaxFaults = 1
    MaxEvents = 2
CHECK_DEADLOCK FALSE
INVARIANT TypeOK
INVARIANT BudgetKept
INVARIANT PromotedComplete
PROPERTY SiteConverges
PROPERTY BudgetNeverWedges
