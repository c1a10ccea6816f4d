SPECIFICATION Spec
CONSTANTS
    InitialData <- MCInitialData
    Writes <- MCWrites
    Truncates <- MCTruncates
    Universe <- MCUniverse
    ArraysOfObjects = FALSE
    MaxWrites = 3
INVARIANTS
    NoOverlap
    ReadYourWrites
    CommittedIsExact
