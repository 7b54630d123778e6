CONSTANTS
    LastSeg = 3
    Legacy = 2
    Cases = {1, 2}
    Overlap <- MCOverlap
    Needed = 2
    Cleaners = {k1}
    k1 = k1
    MaxRuns = 1
    MaxCleanups = 1
    MaxCrashes = 0
    MaxFailures = 0
SPECIFICATION Spec
PROPERTIES
    LinkedNeverDeleted
CHECK_DEADLOCK FALSE
