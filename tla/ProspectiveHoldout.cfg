SPECIFICATION Spec
CONSTANTS
    Proposals <- Single
    Reports <- Shown
    Evaluators = {e1}
    LastDay = 5
    ShardDays = {1, 2, 4}
    MaxAttempts = 2
    MaxCrashes = 0
    StudyDays = {}
    MaxStudies = 0
INVARIANT HoldoutAfterValidation
CHECK_DEADLOCK FALSE
