CONSTANTS
    Activities = {a1, a2}
    Simple = {}
    Stems = {s}
    None = None
    MaxFrames = 3
SPECIFICATION FairSpec
INVARIANTS
    TypeOK
    NoChangeMissed
    ClearFindsDependents
    OthersGetIn
PROPERTIES
    ProceedsOnTruth
    GuardsProceed
CHECK_DEADLOCK FALSE
