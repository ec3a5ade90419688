CONSTANTS
    Nothing = Nothing
    Outputs <- MCOutputs
    Produces <- MCProduces
    TooMany <- MCTooMany
    Silent <- MCSilent
    Score <- MCScore
    Batches <- MCBatches
    Registries <- MCRegistries
SPECIFICATION Spec
INVARIANTS
    AdjudicatedByWorkingJudge
CHECK_DEADLOCK FALSE
