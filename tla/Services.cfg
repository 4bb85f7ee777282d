SPECIFICATION Spec
CONSTANTS
    a = a
    b = b
    Unreadable = Unreadable
    ClipTexts = {a, b}
    Limits = {1, 2}
    Files <- SomeFiles
    MaxEntries = 2
    MaxRevisions = 3
    MaxSessions = 0
    MaxClicks = 0
    MaxJobs = 1
    UserActions = {"record", "limit", "clear", "exit"}
    k1 = k1
    k2 = k2
    k3 = k3
    Keys = {k1, k2, k3, k4}
    Defaults <- DefaultShortcuts
    MaxChanges = 2
    MaxStops = 1
    MaxStrangers = 2
    Headers = {h1, h2}
    MaxVaultOperations = 3
    MaxRequests = 3
    MaxShots = 2
    MaxCrashes = 1
    MaxDamages = 1
    MaxGenerations = 4
    MaxExports = 2
    Services = {"ollama", "lmstudio"}
    MaxEdits = 3
    MaxSaves = 1
    Models = 2
    MaxCaptures = 1
    MaxCopies = 1
    MaxRefusals = 2
    Texts = {"a", "b"}
    MaxPopups = 1
    MaxContents = 2
    MaxPopupCopies = 2
    MaxSpeeches = 0
    MaxGestures = 2
    MaxFailures = 1
CHECK_DEADLOCK FALSE
INVARIANT StorageFollows
PROPERTY UnreadableKept
INVARIANT ClicksServed
PROPERTY StoreKept
PROPERTY EngineVerified
INVARIANT ManagerTruthful
INVARIANT ShortcutServed
INVARIANT SecretsFollowSettings
INVARIANT EditsKept
INVARIANT ExportAccounted
INVARIANT CaptureLeavesNoTrace
INVARIANT MasksTruthful
INVARIANT FeedbackTruthful
