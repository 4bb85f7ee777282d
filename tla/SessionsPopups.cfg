SPECIFICATION Spec
CONSTANTS
    MaxTasks = 3
    MaxShots = 0
    MaxGestures = 0
    Scenarios <- PopupUsers
CHECK_DEADLOCK FALSE
INVARIANT OnePassivePopup
INVARIANT ResultOfSource
INVARIANT HandlesWanted
INVARIANT PopupsShown
PROPERTY PinnedKeepsSource
