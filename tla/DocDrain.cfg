SPECIFICATION Spec
CONSTANTS
    MaxAttempts = 2
    MaxFailures = 2
    SuccessThreshold = 2
    Overlap = TRUE
    MaxLosses = 2
    MaxFailedDials = 3
    MaxAsks = 1
PROPERTIES
    DrainsOnlyStale
CHECK_DEADLOCK FALSE
