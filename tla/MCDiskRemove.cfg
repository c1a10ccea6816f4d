SPECIFICATION Spec
CONSTANTS
    r1 = r1
    r2 = r2
    Readers <- MCReaders
    Databases <- MCDatabases
    Settings <- Removing
PROPERTY RemoveAddsNothing
CHECK_DEADLOCK FALSE
