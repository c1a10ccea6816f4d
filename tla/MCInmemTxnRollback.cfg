SPECIFICATION Spec
CONSTANTS
    InitialData <- MCInitialData
    Writes <- MCWrites
    Truncates <- NoTruncates
    Universe <- MCUniverse
    ArraysOfObjects = TRUE
    MaxWrites = 2
INVARIANTS
    CommittedIsExact
