SPECIFICATION Spec
CONSTANTS
    ps = ps
    ph1 = ph1
    Probe = Probe
    None = None
    Loops = {l1, l2}
    Conns = {c1, c2}
    Ips = {i1}
    Pools = {ps, ph1}
    KindOf <- OneHttp
    MAX_CONNS <- TwoSlots
    Limits = {0, 1, 2}
    Backlog = 1
INVARIANT PermitsConserved
INVARIANT PeerCountsExact
INVARIANT OneLiveLoop
PROPERTY RetiredAdmitsNone
PROPERTY AdmittedWithinCap
PROPERTY RetiredLoopsExit
PROPERTY ClientsAnswered
