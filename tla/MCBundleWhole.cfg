SPECIFICATION Spec
CONSTANTS
    Activations <- ActivationsWhole
    DataPaths <- DataPathsMC
    DataValues <- DataValuesMC
    PatchLists <- PatchListsMC
    ApiPolicies <- ApiPoliciesMC
PROPERTY RemovalErases
