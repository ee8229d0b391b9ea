CONSTANTS
    m1 = m1
    m2 = m2
    me = me
    other = other
    e1 = e1
    e2 = e2
    Msgs = {m1, m2}
    Reacted = {m1}
    Users = {me, other}
    Emojis = {e1, e2}
    Self = me
    Mounted <- MCMounted
    Earlier <- MCEarlier
    MAX_LIVE_MESSAGES = 1
    MaxClicks = 2
    MaxChanges = 1
    MaxArrivals = 1
    MaxFaults = 1
SPECIFICATION Spec
INVARIANTS
    SettledOnServer
    ChipsMatch
PROPERTIES
    QuietAfterDestroy
    ClicksSettle
CHECK_DEADLOCK FALSE
