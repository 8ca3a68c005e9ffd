SPECIFICATION Spec
CONSTANTS
    top = top
    child = child
    Whole = Whole
    None = None
    Actor = {alice, bot}
    Admin = {}
    Page = {top, child}
    Subtree <- MCSubtree
    FirstLink <- MCLink
    Section = {}
    ClaimId = {c1, c2}
    Hash = {h1, h2}
    FirstHash = h1
    Slot = {t1, t2}
    Ttl = {1}
    Horizon = 1
    MaxVersion = 2
    Faults = FALSE
SYMMETRY Interchangeable
PROPERTIES
    DeleteSparesOthers
CHECK_DEADLOCK FALSE
