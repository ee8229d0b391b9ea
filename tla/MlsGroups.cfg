CONSTANTS
    Rooms = {r1}
    Ops = {o1, o2, o3}
    Packages = {k1}
    PeerGroups = {p1}
    Peer = Peer
    Disposer = Disposer
    None = None
    AppAwaitsInit = TRUE
    MaxMembers = 1
    MaxEpoch = 2
    MaxActive = 2
    MaxReloads = 1
    MaxFaults = 1
SPECIFICATION Spec
SYMMETRY Symmetry
INVARIANTS
    EpochsAgree
PROPERTIES
    NoRollback
CHECK_DEADLOCK FALSE
