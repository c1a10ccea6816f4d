SPECIFICATION Spec
CONSTANTS
    Activations <- ActivationsIds
    DataPaths <- DataPathsMC
    DataValues <- DataValuesMC
    PatchLists <- PatchListsMC
    ApiPolicies <- ApiPoliciesIds
INVARIANT BundleIntact
