SPECIFICATION Spec
CONSTANTS
    Procs = {"p1"}
    Conns = {c1}
    Files = {"x", "x.gz"}
    Size <- MCSize
    Packed <- MCPacked
    Compressible = {"x"}
    MinCompress = 2
    MaxCompress <- MCMaxCompress
    Storages = {"memory", "disk"}
    AcceptFields <- MCAcceptFields
    Exclusive = TRUE
    MaxBuilds = 3
    c1 = c1
INVARIANT TypeOK
INVARIANT PinnedIntact
INVARIANT NoOrphans
PROPERTY RightRepresentation
