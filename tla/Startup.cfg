SPECIFICATION Spec
CONSTANTS
    signal <- Signals
    Noise <- AllNoise
    File <- Files
    Leftover <- Levels
    INT_MAX = 32767
    MS = 10
    PREIGNITE_MAX = 76
    HOTFLOW_MAX = 22900
INVARIANTS
    TypeOK
    TimesExact
    ExitRestores
    ReadingExact
CHECK_DEADLOCK FALSE
