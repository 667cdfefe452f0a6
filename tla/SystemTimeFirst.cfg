\* Two threads that convert for the first time.
CONSTANTS
    Environments <- SomeEnvironments
    Processors <- WithTsc
    TrueRate = 1
    SleepTimes = {10}
    Delays = {0}
    CYCLES_DELTA = 2
    TESTS_COUNT = 3
    Threads = {t1, t2}
    OFFSET_TIMEOUT = 1
    CLOSE_DISTANCE = 3
    MAX_UPDATE_TRIES = 2
    SystemOffsets = {10, 14}
    MaxTime = 4
SPECIFICATION Spec
PROPERTIES ResultRightStep
CHECK_DEADLOCK FALSE
