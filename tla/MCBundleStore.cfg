SPECIFICATION Spec
CONSTANTS
    Activations <- ActivationsMC
    DataPaths <- DataPathsMC
    DataValues <- DataValuesMC
    PatchLists <- PatchListsMC
    ApiPolicies <- ApiPoliciesMC
INVARIANTS RootsDisjoint BundleIntact RulesOffData
PROPERTIES OnlyRemovalBreaks OthersUntouched
