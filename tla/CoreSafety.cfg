CONSTANTS
    Controllers = {c1, c2}
    Producers = {p1, p2, p3}
    Messages = {n1, n2, n3}
    Names = {a, b}
    nullptr = null
    free = free
    ThreadStartMayFail = TRUE
SPECIFICATION Spec
SYMMETRY Symmetry
INVARIANTS
    TypeOK NoUseAfterDelete NoLeak EnabledHasProcessor
    CleanSession DumpWithinSession
