SPECIFICATION Spec
CONSTANTS
    Names = {"a", "b"}
    Services = {"s1", "s2", "s3"}
    Callers = {"t", "u"}
    Triggered = {"b"}
    Deployments <- Overlapping
    Deltas <- S2Deltas
    MaxLoaders = 2
INVARIANTS ConfirmsWhatIsStored
CHECK_DEADLOCK FALSE
