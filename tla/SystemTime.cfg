\* The second update of the offset may be tried when the first is expired.
CONSTANTS
    Environments <- SomeEnvironments
    Processors <- WithTsc
    TrueRate = 1
    SleepTimes = {10}
    Delays = {0, 1, 30}
    CYCLES_DELTA = 2
    TESTS_COUNT = 3
    Threads = {t1, t2}
    OFFSET_TIMEOUT = 1
    CLOSE_DISTANCE = 3
    MAX_UPDATE_TRIES = 2
    SystemOffsets = {10, 14}
    MaxTime = 4
SPECIFICATION Spec
INVARIANTS TypeOK RateAccurate PairTied
PROPERTIES ResultFreshStep LockReleased
\* Time ends with the bound of the model.
CHECK_DEADLOCK FALSE
