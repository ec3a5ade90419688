CONSTANTS
    Nothing = Nothing
    Outputs <- MCOutputs
    Produces <- MCProduces
    TooMany <- MCTooMany
    Silent <- MCSilent
    Score <- MCScore
    Batches <- MCBatches
    Registries <- MCRegistries
SPECIFICATION FairSpec
INVARIANTS
    OneCheckpoint
    OnlyConsensusIsUsed
    RecordsAreValid
    StatusIsHonest
    RetryCanHelp
PROPERTIES
    StepsRunOut
    BatchEnds
CHECK_DEADLOCK FALSE
