SPECIFICATION FairSpec
CONSTANTS
    Protocols = {"TCP", "UDP"}
    Timeouts = {0, 3}
    Faults = {"poll", "listen", "accept"}
    MaxBytes = 2
    MaxConns = 3
    MaxQn = 3
INVARIANTS
    TypeOK
    OneRecvQueued
    CommandsInOrder
PROPERTIES
    DrainedMeansReading
    CallerAccepted
CHECK_DEADLOCK FALSE
