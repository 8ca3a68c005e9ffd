SPECIFICATION FairSpec
CONSTANTS
    top = top
    child = child
    Whole = Whole
    None = None
    Actor = {alice}
    Admin = {}
    Page = {top, child}
    Subtree <- MCSubtree
    FirstLink <- MCLink
    Section = {}
    ClaimId = {c1, c2}
    Hash = {h1}
    FirstHash = h1
    Slot = {t1, t2}
    Ttl = {1}
    Horizon = 1
    MaxVersion = 1
    Faults = FALSE
PROPERTIES
    LapsedEnds
    LockHoldersFinish
CHECK_DEADLOCK FALSE
