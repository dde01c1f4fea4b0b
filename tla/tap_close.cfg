SPECIFICATION BusyHost
CONSTANT MaxBuffered = 2
INVARIANTS
    NoUseAfterClose
PROPERTIES
    TapPumpsEnd
CHECK_DEADLOCK FALSE
