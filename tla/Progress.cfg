SPECIFICATION MCSpec
CONSTANTS
    Fields = {"theme", "korean"}
    Values <- TwoValues
    CredentialKinds = {"read", "deepl"}
    StoreAvailable = TRUE
    MaxRequests = 2
    MaxCredentials = 2
    LoadedSettings <- OneFile
    Inks = {"ink"}
    Glasses = {"glass"}
    RendererSessions = 1
    RendererEdits = 1
    RendererChanges = 2
    RendererFaults = 1
    RendererStalls = 0
CHECK_DEADLOCK FALSE
INVARIANT DesiredShowsLatest
PROPERTY EveryChangeEnds
PROPERTY PictureFollows
