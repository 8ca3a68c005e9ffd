SPECIFICATION Spec
CONSTANTS
    top = top
    child = child
    Whole = Whole
    None = None
    Actor = {alice, bot}
    Admin = {alice, bot}
    Page = {top}
    Subtree <- MCSubtree
    FirstLink <- MCLink
    Section = {s1}
    ClaimId = {c1, c2}
    Hash = {h1, h2}
    FirstHash = h1
    Slot = {t1, t2}
    Ttl = {2}
    Horizon = 3
    MaxVersion = 2
    Faults = TRUE
SYMMETRY Interchangeable
INVARIANTS
    TypeOK
    Exclusion
    LeaseBaseCurrent
    NotesFollowClaims
PROPERTIES
    EndedIsFinal
CHECK_DEADLOCK FALSE
