SPECIFICATION FairSpec
CONSTANT Deployments <- MCDeployments
INVARIANTS StoppedIsQuiet ReportsSettle
PROPERTIES ReportsArrive StopReturns
CHECK_DEADLOCK FALSE
