SPECIFICATION Spec
CONSTANTS
    MaxShots = 2
    MaxOutputs = 2
    MaxOperations = 1
    MaxRevisions = 2
    MaxFailures = 1
    UserDoes <- TwoShots
CHECK_DEADLOCK FALSE
INVARIANT DesktopKept
INVARIANT PinKeepsPixels
INVARIANT ViewsAgree
INVARIANT ShotHasWork
