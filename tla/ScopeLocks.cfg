SPECIFICATION Spec
CONSTANTS
    Activities = {a1, a2, a3}
    Scopes = {s1, s2}
    Messages = {m1}
    None = None
    MaxActivations = 4
SYMMETRY Renamings
INVARIANTS
    TypeOK
    ReservationsCounted
    WaitersAreListed
    OnlySelfCircles
PROPERTIES
    ReplyRefusedForLostMessage
CHECK_DEADLOCK FALSE
