SPECIFICATION Spec
CONSTANTS
    Protocols = {"TCP"}
    Timeouts = {0}
    Faults = {}
    MaxBytes = 1
    MaxConns = 1
    MaxQn = 1
PROPERTIES
    NeverBlocksOnSend
CHECK_DEADLOCK FALSE
