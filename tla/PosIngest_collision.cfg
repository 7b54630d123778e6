CONSTANTS
    Sales <- MCSales
    Ws <- MCWs
    At <- MCAt
    Tag <- MCTag
    Checkouts <- MCCheckouts
    Polled <- MCPolled
    Posts <- MCPosts
    Handlers = {}
    Overlap = 1
    Lookback = 2
    MaxDelay = 1
    MaxTime = 3
    MaxPosts = 0
    MaxFailures = 0
SPECIFICATION Spec
INVARIANTS
    DuplicatesAreStored
