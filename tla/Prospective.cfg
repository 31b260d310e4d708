SPECIFICATION Spec
CONSTANTS
    Proposals <- Some
    Reports <- Shown
    Evaluators = {e1, e2}
    LastDay = 5
    ShardDays = {1, 4}
    MaxAttempts = 2
    MaxCrashes = 1
    StudyDays = {0, 3, 4}
    MaxStudies = 1
INVARIANTS
    IndependentIsFirst
    LedgerBacked
SYMMETRY Symmetric
PROPERTIES
    ReservedUnread
    KeepsAttemptLog
CHECK_DEADLOCK FALSE
