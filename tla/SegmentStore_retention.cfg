CONSTANTS
    LastSeg = 3
    Legacy = 2
    Cases = {1, 2}
    Overlap <- MCOverlap
    Needed = 1
    Cleaners = {k1, k2}
    k2 = k2
    k1 = k1
    MaxRuns = 1
    MaxCleanups = 2
    MaxCrashes = 1
    MaxFailures = 1
SPECIFICATION Spec
SYMMETRY MCSymmetry
INVARIANTS
    TypeOK
    LinkedKept
    FilesAccounted
    RowsDescribeFiles
CHECK_DEADLOCK FALSE
