SPECIFICATION Spec
CONSTANTS
    p1 = p1
    p2 = p2
    Producers <- MCProducers
    Documents <- MCDocuments
    Calls <- MCCalls
    Scopes <- MCScopes
    MSEC = 2
    MaxInputs = 3
    MaxTime = 4
INVARIANTS
    TypeOK
    OptionsInEffect
    CounterPath
    ScopesBalance
    DumpComplete
SYMMETRY Symmetric
CHECK_DEADLOCK FALSE
