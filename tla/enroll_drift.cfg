SPECIFICATION Spec
CONSTANTS
    Ids = {a, b}
    Addresses = {x}
    GatewayAddr = gw
    Absent = Absent
    Torn = Torn
    MaxCreds = 3
    MaxCerts = 2
INVARIANT EnrollNeverDrifts
CHECK_DEADLOCK FALSE
