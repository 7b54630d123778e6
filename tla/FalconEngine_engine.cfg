CONSTANTS
    r1 = r1
    r2 = r2
    page = page
    Requests <- MCRequests
    Layout <- MCLayout
    Regions <- MCRegions
    Prompt <- MCPrompt
    MaxNew = 3
    MaxSeq = 4
    NSlots = 3
    NPages = 4
    PrefillLimit = 4
    MaxDecode = 1
    MaxFailures = 2
SPECIFICATION FairSpec
INVARIANTS
    TypeOK
    SlotsExclusive
    NothingForgotten
    WholePage
PROPERTIES
    RequestsAnswered
CHECK_DEADLOCK FALSE
