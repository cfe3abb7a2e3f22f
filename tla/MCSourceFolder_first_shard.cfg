SPECIFICATION Spec
CONSTANTS
    Config <- MCSharded
    Hash <- MCHash
    RawHash <- MCRawHash
    WholeSource <- MCWholeSource
    Keeps <- MCKeeps
    Upstream <- MCUpstream
    ShardSize = 3
    Needed <- MCNeeded
    Sufficient <- MCSufficient
    MaxRounds = 2
    MaxRuns = 3
    MaxFaults = 0
INVARIANTS
    DownloadsResume
