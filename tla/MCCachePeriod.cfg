SPECIFICATION Spec
CONSTANTS
    Keys = {k1, k2, k3}
    Sizes = {1, 2, 3}
    Configs <- Switched
    MaxTime = 2
INVARIANT ZeroPeriodDisables
