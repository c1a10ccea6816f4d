SPECIFICATION Spec
CONSTANTS
    Overhead = 2
    Limit = 12
    Events <- Compressible
    MaxEvents = 5
CHECK_DEADLOCK FALSE
PROPERTY FlushEmpties
