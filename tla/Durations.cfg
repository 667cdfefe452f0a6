\* 5/2 cycles per nanosecond: neither unit is a multiple of the other.
CONSTANTS
    Limit = 512
    Step = 3
    Cycles = 5
    Nanosecs = 2
    Mantissa = 64
    ExtendedMantissa = 1024
    Operands <- SomeDurations
    MaxSteps = 3
SPECIFICATION Spec
INVARIANTS Accurate CompareSound
\* The number of operations is bounded.
CHECK_DEADLOCK FALSE
