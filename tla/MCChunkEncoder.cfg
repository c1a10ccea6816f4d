SPECIFICATION Spec
CONSTANTS
    Overhead = 2
    Limit = 12
    Events <- Compressible
    MaxEvents = 7
INVARIANTS EventsConserved ChunksFit
CHECK_DEADLOCK FALSE
