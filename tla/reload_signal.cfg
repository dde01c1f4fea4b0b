SPECIFICATION FairSpec
CONSTANTS
    Lists = {l1, l2, l3}
    Nothing = Nothing
    MaxScripts = 3
    MaxCrashes = 2
INVARIANTS
    SettledIsCurrent
    NeverTruncated
PROPERTIES
    FinallyCurrent
CHECK_DEADLOCK FALSE
