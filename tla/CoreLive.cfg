CONSTANTS
    Controllers = {c1, c2}
    Producers = {p1, p2}
    Messages = {n1, n2}
    Names = {a}
    nullptr = null
    free = free
    ThreadStartMayFail = FALSE
SPECIFICATION FairSpec
PROPERTIES OperationsReturn EventsConsumed
