SPECIFICATION Spec
CONSTANTS
    None = None
    Error = Error
    Horizon = 6
    ZonesAt <- MCZonesAt
    ConfirmHits = 2
    CloseMiss = 2
    Gap = 1
    MaxEpisode = 4
    Tolerance = 1
    FragmentGap = 2
    Near = 1
    Scenes <- MCScenes
    Baskets = {0, 1, 3}
    Answers <- MCAnswers
    PreRolls = {2, 5}
    Shifts = {0}
    Lost = {0, 2}
    NvrPre = 2
    NvrPost = 4
    NvrMax = 6
INVARIANTS
    VisitAtSale
CHECK_DEADLOCK FALSE
