SPECIFICATION Spec
CONSTANTS
    None = None
    Browser = {b1, b2}
    Edit = {}
    Outside = {}
    RoomId = {r1}
    Slot = {t1, t2}
    ClaimId = {c1, c2, c3}
    Reconnect = FALSE
SYMMETRY Interchangeable
INVARIANTS
    BuiltOnce
CHECK_DEADLOCK FALSE
