CONSTANTS
    t1 = t1
    t2 = t2
    a1 = a1
    Texts = {t1}
    Attachments = {a1}
    Flush = Flush
    User = User
    MAX_RETRIES = 2
    MAX_FAILED_OUTBOX_ENTRIES = 1
    MaxReloads = 0
    MaxFaults = 0
SPECIFICATION Spec
INVARIANTS
    OnlyOrphansAreMarked
CHECK_DEADLOCK FALSE
