SPECIFICATION FairSpec
CONSTANTS
    o1 = o1
    o2 = o2
    v1 = v1
    v2 = v2
    Orgs <- MCOrgs
    Vhosts <- OneVhost
    VhostOf <- Shared
    AllowedVhosts <- OneVhost
    Faults = {"broker", "channel"}
    Overlap = FALSE
    Prompt = TRUE
    MaxEvents = 3
    MaxFaults = 2
    MaxConsumers = 8
    MaxGenerations = 4
    MaxDials = 12
INVARIANTS
    NoAbandonedChannel
PROPERTIES
    Served
CHECK_DEADLOCK FALSE
