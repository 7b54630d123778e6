CONSTANTS
    Cases = {1, 2, 3, 4}
    Clients = {}
    Risks = {"low", "high"}
    Decisions <- MCVerdicts
    ReviewForms <- MCAllForms
    AutoEnabled = TRUE
    Batch = 1
    MaxRequests = 0
    MaxReviews = 0
    MaxRestarts = 1
    MaxFailures = 2
    MaxLost = 0
    OpenedAt <- MCOpenedAt
SPECIFICATION FairSpec
INVARIANTS
    NoDoublePickup
    BacklogBounded
    ClosedVerdictPackaged
PROPERTIES
    ImplementsDesk
    EventuallySettled
CHECK_DEADLOCK FALSE
