SPECIFICATION Spec
CONSTANTS
    Overhead = 2
    Events <- ThreeEvents
    Configs <- NoLimit
INVARIANT FlushedIsDelivered
CHECK_DEADLOCK FALSE
