SPECIFICATION Spec
CONSTANTS
    o1 = o1
    o2 = o2
    v1 = v1
    v2 = v2
    Orgs <- MCOrgs
    Vhosts <- OneVhost
    VhostOf <- Shared
    AllowedVhosts <- OneVhost
    Faults = {"main"}
    Overlap = FALSE
    Prompt = FALSE
    MaxEvents = 1
    MaxFaults = 1
    MaxConsumers = 3
    MaxGenerations = 2
    MaxDials = 3
PROPERTIES
    InvalidatesOnlyClosed
CHECK_DEADLOCK FALSE
