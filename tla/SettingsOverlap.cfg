SPECIFICATION Spec
CONSTANTS
    Fields = {"theme", "hotkey"}
    Values <- TwoValues
    CredentialKinds = {"read"}
    StoreAvailable = TRUE
    MaxRequests = 2
    MaxCredentials = 1
    LoadedSettings <- OneFile
CHECK_DEADLOCK FALSE
INVARIANT SerialSaves
