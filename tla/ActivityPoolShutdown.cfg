SPECIFICATION Spec
CONSTANT Activities = {a1, a2}
INVARIANTS
    ShutDownAlone
CHECK_DEADLOCK FALSE
