SPECIFICATION Spec
CONSTANTS
    None = None
    Browser = {b1, b2}
    Edit = {e1}
    Outside = {}
    RoomId = {r1}
    Slot = {t1, t2}
    ClaimId = {c1, c2, c3}
    Reconnect = FALSE
SYMMETRY Interchangeable
INVARIANTS
    UnsavedIsDirty
CHECK_DEADLOCK FALSE
