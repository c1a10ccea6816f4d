SPECIFICATION FairSpec
CONSTANTS
    Names = {"a", "b"}
    Services = {"s1", "s2", "s3"}
    Callers = {"t", "u"}
    Triggered = {"b"}
    Deployments <- Polls
    Deltas <- S2Deltas
    MaxLoaders = 2
INVARIANTS ReadyMeansActive EtagNamesBundle StatusIsTrue
PROPERTIES QuietAfterStop Converges BecomesReady StopReturns
CHECK_DEADLOCK FALSE
