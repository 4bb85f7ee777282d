SPECIFICATION Spec
CONSTANTS
    MaxTasks = 1
    MaxShots = 1
    MaxGestures = 0
    Scenarios <- GateUsers
CHECK_DEADLOCK FALSE
INVARIANT GateClosedByCapture
