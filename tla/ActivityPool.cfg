SPECIFICATION FairSpec
CONSTANT Activities = {a1, a2, a3}
INVARIANTS
    TypeOK
    FreeAreIdle
    WokenForWork
    CountIsExact
PROPERTIES
    TerminationCompletes
CHECK_DEADLOCK FALSE
