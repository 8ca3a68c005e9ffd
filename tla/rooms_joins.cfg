SPECIFICATION Spec
CONSTANTS
    None = None
    Browser = {b1, b2}
    Edit = {}
    Outside = {w1}
    RoomId = {r1}
    Slot = {t1, t2}
    ClaimId = {c1, c2}
    Reconnect = FALSE
SYMMETRY Interchangeable
INVARIANTS
    SomebodyBuilds
CHECK_DEADLOCK FALSE
