CONSTANTS
    o1 = o1
    o2 = o2
    o3 = o3
    Objects = {o1, o2, o3}
    None = None
    Hash <- MCHash
    Capacity = 2
    MaxCreated = 3
SPECIFICATION FairSpec
INVARIANTS
    TypeOK
    RunsOnce
    NoneForgotten
    DeadWhenSent
    KeptForUninit
    TableSound
PROPERTIES
    DeadAreUninited
CHECK_DEADLOCK FALSE
