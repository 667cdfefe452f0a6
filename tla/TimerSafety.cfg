\* The clock runs for several timeouts; the disorder exceeds one timeout and
\* not the other. The clock counts nanoseconds, as clock_gettime() does, of which
\* a count can hold several runs of the clock.
CONSTANTS
    Ids = {i1, i2}
    ConfiguredTimeout = 2
    DefaultTimeout = 1
    Skew = 2
    MaxTime = 6
    ClockUnit = "NSEC"
    Limit = 16
    Step = 3
    Cycles = 5
    Nanosecs = 2
    Mantissa = 16
    ExtendedMantissa = 32
SPECIFICATION Spec
SYMMETRY Symmetry
INVARIANTS TypeOK StaleBound NoRevival DurationBound
