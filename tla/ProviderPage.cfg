SPECIFICATION PageSpec
CONSTANTS Services = {"ollama", "lmstudio"}
 MaxEdits = 3
 MaxSaves = 2
 Models = 2
INVARIANT LeavingKeepsDraft
CHECK_DEADLOCK FALSE
