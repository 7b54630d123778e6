CONSTANTS
    Analyses = {auto, reprocess}
    Viewers = {viewer}
    Order <- MCChain
    InProcess = {"qwen3_vl"}
    MaxBuilt = 2
    MaxViews = 2
SPECIFICATION FairSpec
INVARIANTS
    TypeOK
    GateHeld
    OneOfAChain
    HardLimitUnloads
PROPERTIES
    AnalysesEnd
CHECK_DEADLOCK FALSE
