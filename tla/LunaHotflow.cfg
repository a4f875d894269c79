SPECIFICATION Spec
CONSTANTS
    Sensors <- OneSensor
    sensor_delay <- UnitDelay
    Budget <- RestartBudget
    gitvc_times <- OnePulse
    preignite_us = 1
    hotflow_us = 3
    gitvc_wait_time = 1
    ignition_on = TRUE
    pressure_shutoff = TRUE
    SEND_TIME = 0
    SHUTOFF_GRACE = 1
    MaxCommands = 2
    AgeCap = 4
    use_gitvc = TRUE
    time_between_gitvc = 0
PROPERTIES
    HotflowLengthFixed
