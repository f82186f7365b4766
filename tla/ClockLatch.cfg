SPECIFICATION ClockSpec
CONSTANTS
    Daemon = daemon
    Tools = {tool}
    MaxDrift = 2
    MaxBackwardReboot = 2
    Duration = 4
    Adjustments <- MCAdjustments
    None = none
    MaxPause = 1
    MaxTime = 1
    MaxAdjustments = 2
    MaxReboots = 0
    MaxChecks = 4
PROPERTIES LatchHolds
CHECK_DEADLOCK FALSE
