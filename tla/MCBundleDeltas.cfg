SPECIFICATION Spec
CONSTANTS
    Names = {"a", "b"}
    Services = {"s1", "s2", "s3"}
    Callers = {"t", "u"}
    Triggered = {"b"}
    Deployments <- OverlappingDeltas
    Deltas <- S2Deltas
    MaxLoaders = 2
INVARIANTS StatusIsTrue
CHECK_DEADLOCK FALSE
