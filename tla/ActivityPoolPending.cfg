SPECIFICATION Spec
CONSTANT Activities = {a1, a2}
INVARIANTS
    PendingAreFinished
CHECK_DEADLOCK FALSE
