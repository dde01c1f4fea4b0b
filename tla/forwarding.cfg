SPECIFICATION ForwardFair
CONSTANTS
    Peers = {p1, p2, p3}
    Group = Group
    Senders = {p1, p2}
    ClientQueueSize = 2
    MaxFrames = 3
INVARIANTS
    PerSenderOrder
    NothingLostSilently
PROPERTIES
    ForwardNeverBlocks
CHECK_DEADLOCK FALSE
