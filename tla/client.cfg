SPECIFICATION ServiceSpec
CONSTANTS
    Slots = {s1, s2}
    None = None
    maximumBackoff = 3
    Platforms = {"linux", "windows"}
INVARIANTS
    ReportNeverBlocks
    BackoffFollowsFailures
    DeviceNotLeaked
    StoppedIsClean
PROPERTIES
    StopReturns
    KeepsDialling
    PumpsEnd
CHECK_DEADLOCK FALSE
