SPECIFICATION ProvisionSpec
CONSTANTS
    Ids = {a, b}
    Addresses = {x}
    GatewayAddr = gw
    Absent = Absent
    Torn = Torn
    MaxCreds = 2
    MaxCerts = 2
    Width = 4
    RouteSets <- MCRouteSets
    MaxClients = 2
    None = None
INVARIANTS
    ServerFollowsState
    EnrolledIsComplete
    AuthorizedHasBundle
    BundlesPinTheCA
    PlanFitsTogether
CHECK_DEADLOCK FALSE
SYMMETRY IdSymmetry
