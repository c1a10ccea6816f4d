SPECIFICATION FairSpec
CONSTANTS
    r1 = r1
    r2 = r2
    Readers <- MCReaders
    Databases <- MCDatabases
    Settings <- MCSettings
INVARIANTS PointReadsAgree ReadersUndisturbed
PROPERTIES WriteIsPatch AbortRestores RestartKeeps CommitReturns
CHECK_DEADLOCK FALSE
