SPECIFICATION Spec
CONSTANTS
    Activities = {a1, a2, a3}
    None = None
    SpuriousWakeups = TRUE
SYMMETRY Renamings
INVARIANT DechainsOnceFirst
CHECK_DEADLOCK FALSE
