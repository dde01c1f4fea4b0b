SPECIFICATION Spec
CONSTANTS
    a = a
    b = b
    m1 = m1
    m2 = m2
    None = None
    Conns = {c1, c2}
    Ids <- MCIds
    Macs <- MCMacs
    Configs <- Reenrolled
    MaxPendingHandshakes = 2
INVARIANTS
    DisplacedByAuthorizedOnly
