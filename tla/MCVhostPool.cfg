SPECIFICATION Spec
CONSTANTS
    c1 = c1
    c2 = c2
    c3 = c3
    v1 = v1
    v2 = v2
    Clients <- MCClients
    Vhosts <- MCVhosts
    MaxDials = 4
SYMMETRY Symmetry
INVARIANTS
    TypeOK
    EntriesAreOwned
    CountsAtMostHolders
    HeldConnectionsStayOpen
    OnlyInvalidateLeaks
CHECK_DEADLOCK FALSE
