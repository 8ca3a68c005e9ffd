SPECIFICATION Spec
CONSTANTS
    None = None
    Browser = {b1, b2}
    Edit = {e1}
    Outside = {w1}
    RoomId = {r1, r2}
    Slot = {t1}
    ClaimId = {c1, c2, c3}
    Reconnect = TRUE
SYMMETRY Interchangeable
PROPERTIES
    OutsideWritesSurvive
CHECK_DEADLOCK FALSE
