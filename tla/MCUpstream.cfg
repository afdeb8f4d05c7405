CONSTANTS
    Option <- MCOption
    Budget = 4
    BackoffBase = 1
    BackoffMax = 3
SPECIFICATION FairSpec
INVARIANT NothingIsLeftOpen
INVARIANT TheTerminalDecides
PROPERTY OneAnswer
PROPERTY EveryRequestEnds
CHECK_DEADLOCK FALSE
