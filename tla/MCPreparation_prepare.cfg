SPECIFICATION Spec
CONSTANTS
    Order <- MCOrder
    Upstream <- MCUpstream
    Early <- MCEarly
    Needed <- MCNeeded
    Sufficient <- MCSufficient
    Bits <- MCBits
    Seeds = {}
    MaxFaults = 1
    MaxParallelDownloads = 1
    NumWorkers = 1
    BatchRows = 1
    MaxRounds = 3
    Tool = "tool"
    SharedRuns = {"reader"}
    AutoRuns = {"auto"}
    World <- MCWorld
    MaxPreparations = 1
INVARIANTS
    CommittedIsReference
    ReadersSeeWholeDataset
    RoundHonest
PROPERTIES
    LockReleased
CHECK_DEADLOCK FALSE
