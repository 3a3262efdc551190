SPECIFICATION Spec
CONSTANTS
    Activities = {a1, a2}
    Messages = {m1, m2}
    None = None
    MaxFrames = 6
    MaxParties = 2
SYMMETRY Renamings
INVARIANTS
    SentIsAnswered
CHECK_DEADLOCK FALSE
