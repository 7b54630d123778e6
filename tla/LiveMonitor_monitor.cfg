CONSTANTS
    Cameras = {c1, c2}
    c1 = c1
    c2 = c2
    Prefix <- MCPrefix
    Cooldown <- MCCooldown
    EndEmpty = 1
    MaxSession = 2
    MinSession = 1
    MergeWindow = 1
    Margin = 1
    QueueMax = 1
    LastTick = 5
    MaxSessions = 2
    MaxTroubles = 1
SPECIFICATION FairSpec
INVARIANTS
    TypeOK
    EachSessionOnce
    RowsInOrder
    ReturnsMerged
    EvidenceIsOwn
PROPERTIES
    SessionsSettle
CHECK_DEADLOCK FALSE
