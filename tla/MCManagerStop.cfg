SPECIFICATION FairSpec
CONSTANT Deployments <- StatusFirst
PROPERTY StopReturns
CHECK_DEADLOCK FALSE
