SPECIFICATION Spec
CONSTANTS
    Group <- MCGroup
    Upstream <- MCUpstream
    Instruct = {"i"}
    Limits = {3, NoLimit}
    NoLimit = NoLimit
    Needs = {1, 4}
    BatchSize = 2
    ShardSize = 2
    QueueDepth = 1
    InFlight = 2
    MaxMalformed = 2
    MaxPasses = 3
    MaxFaults = 1
INVARIANTS
    OffsetMatchesRows
    ExhaustedIsAtEnd
    StopLosesAtMostABatch
    OutcomeHonest
PROPERTIES
    PassEnds
CHECK_DEADLOCK FALSE
