SPECIFICATION FairSpec
CONSTANT MaxBuffered = 2
PROPERTIES
    CloseReturns
CHECK_DEADLOCK FALSE
