CONSTANTS
    Messages = {a, u}
    Mine = {u}
    Deletable = {a, u}
    PageLimit = 1
    LiveCap = 2
    HardCeiling = 2
    MaxLoops = 2
    Unshown = Unshown
SPECIFICATION Spec
PROPERTIES
    DoubleApplyIsSafe
CHECK_DEADLOCK FALSE
