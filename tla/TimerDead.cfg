CONSTANTS
    Ids = {i1}
    ConfiguredTimeout = 2
    DefaultTimeout = 1
    Skew = 0
    MaxTime = 4
    ClockUnit = "TICK"
    Limit = 16
    Step = 3
    Cycles = 5
    Nanosecs = 2
    Mantissa = 16
    ExtendedMantissa = 32
SPECIFICATION FairSpec
PROPERTY DeadInstancesRemoved
