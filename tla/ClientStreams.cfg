CONSTANTS
    Room = r1
    Rooms = {r1}
    Entries = {e1, e2}
    Tasks <- DeliveryTasks
    NoEntry = NoEntry
    MaxGeneration = 7
    s1 = s1
    s2 = s2
    Subscribers = {s1, s2}
    Fetches = {f1}
    Bound <- MCBound
    EarlySubscribe = FALSE
    ChainTasks <- PageTasks
    MaxCalls = 4
    Modes = {"chain", "direct"}
    LivenessOn = TRUE
    Reentrant = TRUE
    PageSize = 2
    MaxLog = 3
    MaxFaults = 3
SPECIFICATION MCSpec
INVARIANTS
    DeliveredOnceInOrder
    ExactlyOneWayForward
    NoGapNoDuplicate
PROPERTIES
    IdleEntryIsRemoved
    ImplementsSerialUnseal
    WorkSettles
    EveryRowArrives
CHECK_DEADLOCK FALSE
