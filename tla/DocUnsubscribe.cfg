SPECIFICATION Spec
CONSTANTS
    o1 = o1
    o2 = o2
    v1 = v1
    v2 = v2
    Orgs <- MCOrgs
    Vhosts <- OneVhost
    VhostOf <- Shared
    AllowedVhosts <- OneVhost
    Faults = {"mainChannel"}
    Overlap = FALSE
    Prompt = FALSE
    MaxEvents = 2
    MaxFaults = 2
    MaxConsumers = 3
    MaxGenerations = 3
    MaxDials = 3
PROPERTIES
    UnsubscribeStopsConsuming
CHECK_DEADLOCK FALSE
