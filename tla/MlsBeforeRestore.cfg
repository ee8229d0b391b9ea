CONSTANTS
    Rooms = {r1}
    Ops = {o1, o2}
    Packages = {k1}
    PeerGroups = {p1}
    Peer = Peer
    Disposer = Disposer
    None = None
    AppAwaitsInit = FALSE
    MaxMembers = 1
    MaxEpoch = 2
    MaxActive = 2
    MaxReloads = 1
    MaxFaults = 0
SPECIFICATION Spec
INVARIANTS
    RestoredBeforeUse
CHECK_DEADLOCK FALSE
