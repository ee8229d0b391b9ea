CONSTANTS
    Room = r1
    Rooms = {r1}
    Entries = {e1, e2}
    Tasks <- DeliveryTasks
    NoEntry = NoEntry
    MaxGeneration = 7
    Subscribers = {s1}
    Fetches = {f1}
    Bound <- OneRow
    EarlySubscribe = TRUE
SPECIFICATION Spec
PROPERTIES
    EveryRowIsDelivered
CHECK_DEADLOCK FALSE
