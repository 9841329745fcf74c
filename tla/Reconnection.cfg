SPECIFICATION FairSpec
CONSTANTS
    MaxAttempts = 2
    MaxFailures = 2
    SuccessThreshold = 2
    Overlap = FALSE
    MaxLosses = 2
    MaxFailedDials = 3
    MaxAsks = 1
INVARIANTS
    TypeOK
    NoLostClosure
    OpenConnectionIsServed
PROPERTIES
    Recovers
    Terminates
CHECK_DEADLOCK FALSE
