SPECIFICATION Spec
CONSTANTS
    c1 = c1
    c2 = c2
    c3 = c3
    Callers <- MCCallers
    MaxFailures = 2
    SuccessThreshold = 2
    MaxRecorded = 8
INVARIANTS
    TypeOK
    BelowThresholds
PROPERTIES
    TripsAndRecoversExactly
    OpenHoldsUntilTimeout
CHECK_DEADLOCK FALSE
