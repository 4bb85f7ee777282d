SPECIFICATION MCSpec
CONSTANTS
    Fields <- AllFields
    Values <- TwoValues
    CredentialKinds = {"connection", "secret", "deepl"}
    StoreAvailable = TRUE
    MaxRequests = 3
    MaxCredentials = 1
    LoadedSettings <- OneFile
    Tools = {"text"}
    Crops = {TRUE}
    MaxIds = 1
    MaxUndo = 2
    Inks = {"ink"}
    Glasses = {"glass"}
    RendererSessions = 1
    RendererEdits = 2
    RendererChanges = 1
    RendererFaults = 1
    RendererStalls = 0
CHECK_DEADLOCK FALSE
INVARIANT SerialSaves
INVARIANT CredentialWritesAlone
INVARIANT DiskAgrees
INVARIANT LiveAgrees
PROPERTY ShortcutsDiffer
INVARIANT OwnSlotsSettle
PROPERTY CommitsOneChange
PROPERTY KoreanChecked
INVARIANT SnapshotOwned
PROPERTY UndoRetraces
INVARIANT PictureCovered
INVARIANT FrameHonest
