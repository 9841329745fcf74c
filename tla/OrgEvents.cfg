SPECIFICATION FairSpec
CONSTANTS
    Orgs = {o1}
    NoOrg = NoOrg
    MaxEvents = 3
    MaxConnections = 2
    MaxFailures = 2
    MaxCrashes = 1
INVARIANTS
    TypeOK
    NothingLost
    FollowsTheLastEvent
PROPERTIES
    ProperEventsHandled
CHECK_DEADLOCK FALSE
