SPECIFICATION Spec
CONSTANTS
    StartClock = 1
    MaxClock = 3
    Retention = 1
    MaxFrames = 1
    MaxRetries = 1
    MaxFaults = 1
INVARIANT
    NoDanglingReference
PROPERTIES
    DropsOnlyExpired
    FramesNotBlocked
    MaintenanceSettles
CHECK_DEADLOCK FALSE
