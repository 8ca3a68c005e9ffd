SPECIFICATION ServicesSpec
CONSTANTS
    Parts = {"imports"}
    t1 = t1
    t2 = t2
    x = x
    y = y
    p1 = p1
    p2 = p2
    p3 = p3
    s1 = s1
    Content = {x, y}
    FileName = {f1}
    FileTask = {t1, t2}
    Quota = 1
    MaxVersions = 3
    TreePage = {p1, p2, p3}
    TreeSpace = {s1, s2}
    Segment = {"a", "b"}
    MaxDepth = 2
    TreeSlot = {t1, t2}
    MaxRequests = 3
    Sequential = 2
    FirstPath <- MCOneUnborn
    FirstParent <- MCParent
    FirstSpace = s1
    Thread = {d1}
    DecisionPage = {x, y}
    Talker = {t1, t2}
    MaxMessages = 2
    Title = {"a", "b"}
    MaxNodes = 4
    MaxAttempts = 2
    Spread <- MCSpread
    Parsed <- MCParsed
    Reviewed <- MCReviewed
    ImportDepth = 2
    Applier = {t1, t2}
    MaxEdits = 1
    Reviewer = {t1, t2}
    Body = {x, y}
    MaxRevisions = 4
    Person = {x, y}
    Invite = {x, y}
    Clerk = {t1, t2}
    Capacity = 2
    Window = 3
    MaxMissed = 2
INVARIANT LandsWhereReviewed
CHECK_DEADLOCK FALSE
