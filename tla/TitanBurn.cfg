SPECIFICATION FairSpec
CONSTANTS
    Sensors <- OneSensor
    sensor_delay <- UnitDelay
    Budget <- OperatorBudget
    preignite_us = 1
    hotflow_us = 3
    gitvc_wait_time = 1
    ignition_on = TRUE
    pressure_shutoff = TRUE
    SEND_TIME = 0
    SHUTOFF_GRACE = 1
    MaxCommands = 3
    AgeCap = 4
INVARIANTS
    TypeOK
    BurnHasDeadline
    IgniterAccounted
    DefaultUnlessOperator
PROPERTIES
    IgniterOff
    AbortServed
