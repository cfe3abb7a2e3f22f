SPECIFICATION Spec
CONSTANTS
    Source <- MCOneSource
    Rows <- MCOneRows
    Weight <- MCOneWeight
    Scale = 1
    PackLength = 3
    PoolFactor = 1
    PacksPerStep = 1
    TotalSteps = 6
    BatchRows = 1
    Prefetch = 3
    MaxAttempts = 2
    MaxLost = 1
INVARIANTS
    LossIsAnError
