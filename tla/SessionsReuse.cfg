SPECIFICATION Spec
CONSTANTS
    MaxTasks = 2
    MaxShots = 1
    MaxGestures = 0
    Scenarios <- GateUsers
CHECK_DEADLOCK FALSE
PROPERTY RecognitionKeepsPopup
