SPECIFICATION Spec
CONSTANTS
    Source <- MCSource
    Rows <- MCRows
    Weight <- MCWeight
    Scale = 4
    PackLength = 3
    PoolFactor = 2
    PacksPerStep = 2
    TotalSteps = 4
    BatchRows = 2
    Prefetch = 2
    MaxAttempts = 2
    MaxLost = 1
INVARIANTS
    SharesBounded
    NoDocumentStarves
    LossFailsItsAttempt
PROPERTIES
    ImplementsDocumentStream
