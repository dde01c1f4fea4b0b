SPECIFICATION ConnectionSpec
CONSTANTS
    k1 = k1
    k2 = k2
    None = None
    Version = 2
    MaxClientIDSize = 2
    ChallengeSize = 1
    MACSize = 2
    Clients <- MCClients
    Lists <- MCLists
    Challenges <- MCChallenges
    Messages <- MCMessages
    Idles = {9}
    Delay = 1
    MaxSkips = 1
    Senders = {s1, s2}
    Interval = 3
    MaxStall = 2
    MaxTime = 6
    MaxDrops = 4
INVARIANTS
    EndsAgree
    HealthyNeverCut
    DropsReported
PROPERTIES
    DeadPeerNoticed
CHECK_DEADLOCK FALSE
