SPECIFICATION FairSpec
CONSTANTS
    MaxTasks = 2
    MaxShots = 2
    MaxGestures = 2
    Scenarios <- MainUsers
CHECK_DEADLOCK FALSE
INVARIANT ToolbarOffersLatest
INVARIANT WorkAccounted
PROPERTY EveryTranslationEnds
