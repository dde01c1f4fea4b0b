SPECIFICATION Spec
CONSTANTS
    a = a
    b = b
    m1 = m1
    m2 = m2
    None = None
    Conns = {c1, c2, c3}
    Ids <- MCIds
    Macs <- MCMacs
    Configs <- MCConfigs
    MaxPendingHandshakes = 2
SYMMETRY ConnSymmetry
INVARIANTS
    TypeOK
    AuthSlotsExact
    NoGhostPeers
    ReachableUnlessDisplaced
    OneSessionPerIdentity
    RevocationTakesEffect
PROPERTIES
    ReloadSparesAuthorized
