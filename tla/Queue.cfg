SPECIFICATION FairSpec
CONSTANTS
    Thread = {t1, t2, t3}
    Item = {null_item, a, b}
    null_item = null_item
    free = free
    MaxCalls = 5
INVARIANTS
    TypeOK
    NoLostWakeup
PROPERTIES
    ImplementsFifo
    CallsReturn
CHECK_DEADLOCK FALSE
