SPECIFICATION FairSpec
CONSTANTS
    Overhead = 2
    Events <- TwoEvents
    Configs <- NoLimit
PROPERTIES EventsDelivered StopReturns
CHECK_DEADLOCK FALSE
