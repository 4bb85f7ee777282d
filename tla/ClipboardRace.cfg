SPECIFICATION CaptureSpec
CONSTANTS
    MaxCaptures = 1
    MaxCopies = 1
    MaxRefusals = 0
CHECK_DEADLOCK FALSE
PROPERTY NewerContentWins
