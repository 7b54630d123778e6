CONSTANTS
    Editors = {e1, e2}
    Savers = {s1, s2}
    c1 = c1
    Cameras = {c1}
    Workstations = {"w1", "w2"}
    Rois = {r1}
    Values = {"new"}
    Payloads <- MCPayloads
    Initial <- MCInitial
    MaxEdits = 2
    MaxCrashes = 1
    MaxSaves = 1
SYMMETRY MCSymmetry
SPECIFICATION Spec
INVARIANTS
    TypeOK
    FlagsLegal
    RouteUnambiguous
    EditsKept
CHECK_DEADLOCK FALSE
