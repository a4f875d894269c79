SPECIFICATION Spec
CONSTANTS
    Sizes = {6, 8}
    ReadingSize = 4
    SizeRange = 16
    MaxReadings = 6
INVARIANTS
    TypeOK
    WindowIntact
    LogExact
    SentIntact
PROPERTIES
    WireInOrder
CHECK_DEADLOCK FALSE
