SPECIFICATION FairSpec
CONSTANTS
    PerSend = 2
    MaxReadings = 9
    MaxBytes = 4
    MaxQw = 2
INVARIANTS
    ModeFollows
PROPERTIES
    StopHeeded
CHECK_DEADLOCK FALSE
