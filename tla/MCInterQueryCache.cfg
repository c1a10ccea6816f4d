SPECIFICATION FairSpec
CONSTANTS
    Keys = {k1, k2, k3}
    Sizes = {1, 2, 3}
    Configs <- Resized
    MaxTime = 2
INVARIANTS Accounting
PROPERTIES GrowthWithinLimit EvictionIsFIFO StaleEntriesLeave
