SPECIFICATION Spec
CONSTANTS
    o1 = o1
    o2 = o2
    v1 = v1
    v2 = v2
    Orgs <- MCOrgs
    Vhosts <- OneVhost
    VhostOf <- Shared
    AllowedVhosts <- OneVhost
    Faults = {"tenantChannel", "vhost", "mainChannel", "main", "broker", "dial", "channel", "stop"}
    Overlap = TRUE
    Prompt = FALSE
    MaxEvents = 2
    MaxFaults = 1
    MaxConsumers = 3
    MaxGenerations = 2
    MaxDials = 2
SYMMETRY Symmetry
INVARIANTS
    TypeOK
    NewestRegistered
    CountsCovered
    CountsExact
CHECK_DEADLOCK FALSE
