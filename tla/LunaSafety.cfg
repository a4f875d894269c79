SPECIFICATION Spec
CONSTANTS
    Sensors <- OneSensor
    sensor_delay <- UnitDelay
    Budget <- OperatorBudget
    gitvc_times <- TwoPulses
    preignite_us = 1
    hotflow_us = 3
    gitvc_wait_time = 0
    ignition_on = TRUE
    pressure_shutoff = TRUE
    SEND_TIME = 0
    SHUTOFF_GRACE = 1
    MaxCommands = 3
    AgeCap = 4
    use_gitvc = TRUE
    time_between_gitvc = 0
INVARIANTS
    TypeOK
    MainValveAccounted
    IgniterAccounted
    GitvcAccounted
    IgniterLeadsMain
    BurnHasDeadline
    TimedMultiplicity
PROPERTIES
    BurnTiming
    ShutoffSticks
