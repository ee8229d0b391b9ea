CONSTANTS
    t1 = t1
    t2 = t2
    a1 = a1
    Texts = {t1, t2}
    Attachments = {a1}
    Flush = Flush
    User = User
    MAX_RETRIES = 2
    MAX_FAILED_OUTBOX_ENTRIES = 0
    MaxReloads = 1
    MaxFaults = 2
SPECIFICATION MCSpec
INVARIANTS
    NothingLost
    NoOvertaking
PROPERTIES
    NoResurrection
    EveryTextIsDelivered
CHECK_DEADLOCK FALSE
