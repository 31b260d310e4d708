SPECIFICATION Spec
CONSTANTS
    None = None
    Period = 2
    Lookback = 1
    AvgWindow = 3
    Unit = 10
    BaseDuration = 2
    DecisionDelay = 1
    MinCrossSection = 2
    TopK = 2
    Points = 100
    Symbols <- MCSymbols
    FirstFrame = 3
    LastFrame = 4
    Markets <- MCMarkets
    Allowance = 0
    RecentWindow = 4
    SlotsPerDay = 2
    Requests = {"request"}
    Candidates <- MCCandidates
    Qualifications <- MCQualifications
    Configured <- MCConfigured
    Files <- MCFiles
    CacheSize = 1
    PageSize = 1
    MaxClock = 9
    MaxEdits = 1
    MaxAnalyses = 2
    MaxReaders = 2
    MaxCalls = 1
INVARIANTS
    WalkIsExact
    ReportsAgree
PROPERTIES
    ServedCurrent
CHECK_DEADLOCK FALSE
