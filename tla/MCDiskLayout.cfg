SPECIFICATION Spec
CONSTANTS
    r1 = r1
    r2 = r2
    Readers <- MCReaders
    Databases <- MCDatabases
    Settings <- Replacing
INVARIANT PointReadsAgree
CHECK_DEADLOCK FALSE
