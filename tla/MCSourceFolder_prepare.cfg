SPECIFICATION Spec
CONSTANTS
    Config <- MCAll
    Hash <- MCHash
    RawHash <- MCRawHash
    WholeSource <- MCWholeSource
    Keeps <- MCKeeps
    Upstream <- MCUpstream
    ShardSize = 3
    Needed <- MCNeeded
    Sufficient <- MCSufficient
    MaxRounds = 2
    MaxRuns = 4
    MaxFaults = 1
INVARIANTS
    DerivedMatchesRaw
    SnapshotAttests
    SatisfiedIsPublishable
    FinishedIsServed
PROPERTIES
    WorkKept
    LastGenerationKept
