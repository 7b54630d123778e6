CONSTANTS
    Cases = {1}
    Clients = {p1, p2}
    p1 = p1
    p2 = p2
    Risks = {"low"}
    Decisions <- MCVerdicts
    ReviewForms <- MCAllForms
    AutoEnabled = TRUE
    Batch = 1
    MaxRequests = 2
    MaxReviews = 1
    MaxRestarts = 1
    MaxFailures = 1
    MaxLost = 1
    MaxFaults = 1
    OpenedAt <- MCOpenedAt
SPECIFICATION ExportSpec
SYMMETRY MCSymmetry
INVARIANTS
    ExportTypeOK
    Custody
    OneRefund
    Reported
CHECK_DEADLOCK FALSE
