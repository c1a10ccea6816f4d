SPECIFICATION Spec
CONSTANTS
    Keys = {k1, k2, k3}
    Sizes = {1, 2, 3}
    Configs <- Percentage
    MaxTime = 2
PROPERTY ThresholdIsPercentage
