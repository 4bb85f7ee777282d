SPECIFICATION Spec
CONSTANTS
    MaxTasks = 2
    MaxShots = 0
    MaxGestures = 0
    Scenarios <- GhostUsers
CHECK_DEADLOCK FALSE
INVARIANT WindowsLive
