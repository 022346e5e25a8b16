\* Every site block of MCFiles, every first request of MCFaults.
CONSTANTS
    Segs    <- MCSegs
    End     <- MCEnd
    ProbeSeg <- MCProbe
    AcmeDir <- MCAcmeDir
    Whole = Whole
    Capture = Capture
    Malformed = Malformed
    None = None
    Files   <- MCFiles
    Caches  <- MCCaches
    Asked   <- MCAsked
    MAX_PATH_LEN = 5
    Faults  <- MCFaults

SPECIFICATION Spec

INVARIANT RulesKept
INVARIANT AcmeDirect
INVARIANT DocumentKept

PROPERTY ShortWalks
PROPERTY WalksEnd
