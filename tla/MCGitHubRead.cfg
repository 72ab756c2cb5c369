SPECIFICATION Spec
CONSTANTS
    None = None
    Last = Last
    Malformed = Malformed
    t1 = t1
    t2 = t2
    c1 = c1
    c2 = c2
    Threads = {t1, t2}
    Listings <- MCListings
    PushedFiles <- MCPushedFiles
    Books <- MCBooks
    Documents <- MCDocuments
    GhFailures = {"timeout", "forbidden"}
    PerPage = 2
    MaxPages = 2
    MaxAdded = 1
    MaxRemoved = 1
    MaxPushes = 1
    MaxRequests = 5
INVARIANTS
    TypeOK
    ResultJustified
PROPERTIES
    ReadsWhole
    ReadEnds
CHECK_DEADLOCK FALSE
