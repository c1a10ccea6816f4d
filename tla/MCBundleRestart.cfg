SPECIFICATION FairSpec
CONSTANTS
    Names = {"a", "b"}
    Services = {"s1", "s2", "s3"}
    Callers = {"t", "u"}
    Triggered = {"b"}
    Deployments <- Restarted
    Deltas <- S2Deltas
    MaxLoaders = 2
PROPERTIES ConfirmedIsReady
CHECK_DEADLOCK FALSE
