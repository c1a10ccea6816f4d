SPECIFICATION Spec
CONSTANTS
    r1 = r1
    r2 = r2
    Readers <- MCReaders
    Databases <- MCDatabases
    Settings <- Aborting
INVARIANT ActiveExists
CHECK_DEADLOCK FALSE
