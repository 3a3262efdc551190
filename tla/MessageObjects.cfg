SPECIFICATION Spec
CONSTANTS
    Activities = {a1, a2}
    Messages = {m1, m2}
    None = None
    MaxFrames = 6
    MaxParties = 2
SYMMETRY Renamings
INVARIANTS
    TypeOK
    ResultOrError
    AllNotifiedAreSent
    FailureReachesMessage
PROPERTIES
    StartIsHonoured
CHECK_DEADLOCK FALSE
