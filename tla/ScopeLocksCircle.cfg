SPECIFICATION Spec
CONSTANTS
    Activities = {a1, a2}
    Scopes = {s1}
    Messages = {m1}
    None = None
    MaxActivations = 4
SYMMETRY Renamings
INVARIANTS
    NoCircularWait
CHECK_DEADLOCK FALSE
