CONSTANTS
    Sales <- MCSales
    Ws <- MCWs
    At <- MCAt
    Tag <- MCDistinctTag
    Checkouts <- MCCheckouts
    Polled <- MCPolled
    Posts <- MCPosts
    Handlers = {h1, h2}
    h1 = h1
    h2 = h2
    Overlap = 1
    Lookback = 2
    MaxDelay = 1
    MaxTime = 3
    MaxPosts = 2
    MaxFailures = 1
SPECIFICATION FairSpec
INVARIANTS
    TypeOK
    RowsStayReachable
    EventsHaveCases
PROPERTIES
    CaughtUp
