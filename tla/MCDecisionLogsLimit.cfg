SPECIFICATION Spec
CONSTANTS
    Overhead = 2
    Events <- ThreeEvents
    Configs <- OneLimit
INVARIANT BufferWithinLimit
CHECK_DEADLOCK FALSE
