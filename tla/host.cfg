SPECIFICATION Spec
CONSTANTS
    Versions = {v1, v2, bad}
    Works = {v1, v2}
    Installed = v1
    Torn = Torn
    Missing = Missing
    MaxFaults = 3
    Networks = {n1, n2}
    Width = 4
    RouteSets <- MCRouteSets
    MaxLines = 1
    Limit = 4
    Lengths = {2, 5}
    MaxPieces = 4
INVARIANTS
    ScriptsTellTruth
    RepairIsPossible
    HookedIsConfined
    CheckExact
    LogKeepsLatest
CHECK_DEADLOCK FALSE
