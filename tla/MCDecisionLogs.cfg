SPECIFICATION Spec
CONSTANTS
    Overhead = 2
    Events <- ThreeEvents
    Configs <- Limits
INVARIANTS NothingLost NoDuplicates
CHECK_DEADLOCK FALSE
