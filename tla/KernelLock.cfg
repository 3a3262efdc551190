SPECIFICATION FairSpec
CONSTANTS
    Activities = {a1, a2, a3, a4}
    None = None
    SpuriousWakeups = FALSE
INVARIANTS
    TypeOK
    MutualExclusion
    NeverLockedTwice
    LineWellFormed
    OnlyHeadAwake
    ListedWhileAsleep
PROPERTIES
    ImplementsTurns
    EveryRequestIsGranted
CHECK_DEADLOCK FALSE
