SPECIFICATION Spec
CONSTANTS
    s1 = s1
    s2 = s2
    r1 = r1
    cA = cA
    cB = cB
    d1 = d1
    d2 = d2
    a1 = a1
    a2 = a2
    a3 = a3
    NoRoot = NoRoot
    NoDir = NoDir
    NoAddr = NoAddr
    None = None
    Sites = {s1, s2}
    Roots = {r1}
    Certs = {cA, cB}
    Dirs = {d1, d2}
    Addrs = {a1, a2, a3}
    Configs <- Texts
    MaxEdits <- Edits
    MaxTotal = 3
    CalmWindows <- Calm
    MaxBackoff = 2
INVARIANT NoLostConfigEdit
INVARIANT NoLostRenewal
INVARIANT NoLostDeploy
INVARIANT ListenersFollowConfig
PROPERTY NoTornListeners
PROPERTY Converges
PROPERTY ImplementsReload
