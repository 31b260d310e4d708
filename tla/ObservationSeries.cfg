SPECIFICATION Spec
CONSTANTS
    Kinds = {"oi", "funding"}
    LastBucket = 4
    StartBucket = 3
    Warmup = 2
    Retain = 3
    PageSize = 1
    Window = 1
    WindowsPerRound = 2
    HoleChoices = {{}, {0, 1, 2}, {3}}
    OldRows = {{}, {0, 2}}
    MaxDisturbances = 2
INVARIANTS
    SeriesComplete
    ReplaySeesLess
PROPERTY
    SeriesCatchesUp
CHECK_DEADLOCK FALSE
