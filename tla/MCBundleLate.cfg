SPECIFICATION Spec
CONSTANTS
    Names = {"a", "b"}
    Services = {"s1", "s2", "s3"}
    Callers = {"t", "u"}
    Triggered = {"b"}
    Deployments <- Removing
    Deltas <- S2Deltas
    MaxLoaders = 2
INVARIANTS NoPanic
CHECK_DEADLOCK FALSE
