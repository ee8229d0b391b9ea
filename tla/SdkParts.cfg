CONSTANTS
    Rooms = {r1, r2}
    Subscribers = {s1, s2}
    Calls = {c1}
    ModeCap = 1
    Nothing = Nothing
    Statuses = {200, 204, 304, 400, 401, 403, 404, 409, 413, 422, 429, 500, 503}
    ArgumentLengths = {0, 1, 32, 33}
    MaxAttempts = 3
    MaxUsers = 5
    Chunk = 2
    MaxSeq = 5
    Limit = 2
    PushCalls = {p1, p2}
    MaxEndpoint = 3
    NoEndpoint = NoEndpoint
    DictOrder <- Dictionaries
    MaxSwaps = 1
    MaxFetches = 2
    NoDict = NoDict
    Payloads <- GroupPayloads
    MaxDraws = 8
    Ids = {m1, m2}
    Opens = {o1, o2}
    MaxSeals = 2
    Keys = {1, 2, 3}
SPECIFICATION Spec
INVARIANTS
    NoDowngrade
    RetryRulesAgree
    ResidueIsExact
    ExportIsComplete
    NoLeakedSubscription
    FramesAreReadAsSent
    UrlOpensItsRoom
    MessagesOpenAsSealed
    IntroductionAgrees
PROPERTIES
    VerdictsStick
    AppendSettles
CHECK_DEADLOCK FALSE
