CONSTANTS
    Messages = {a, b, u}
    Mine = {u}
    Deletable = {a, u}
    PageLimit = 1
    LiveCap = 1
    HardCeiling = 2
    MaxLoops = 1
    Unshown = Unshown
    Pinnable = {a, b}
    MaxPinEvents = 1
    RoomIds = {r1, r2}
    MaxJwt = 1
    MaxBoots = 2
    MaxControllers = 3
    Nobody = Nobody
    Texts = {t1}
    OverLong = {}
    NoText = NoText
    Riders = {card}
    Files = {f1}
    MAX_ATTACHMENTS = 2
    MaxPosts = 2
    MaxRecordings = 3
    MaxPlays = 2
    Others = {o1, o2}
    Self = Self
    MaxOwnSeq = 2
    Horizon = 2
    Freshness = 2
    Threads = {h1, h2}
    MaxLoads = 2
    NoThread = NoThread
    MAX_ATTEMPTS = 3
    MaxTimers = 3
    MaxEvents = 6
SPECIFICATION Spec
INVARIANTS
    BubblesMatchRows
    PinsAgree
    ScreenFollowsElement
    PlayerLeavesNothing
    FilesGoOutOnce
    OverlaysAreCurrent
    NoOrphanedSubscription
PROPERTIES
    DeletedStaysDeleted
    AbortedIsMute
    MicrophoneIsEnded
    ComposerIsGivenBack
    LoopIsDecided
CHECK_DEADLOCK FALSE
