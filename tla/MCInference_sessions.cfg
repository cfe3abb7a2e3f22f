SPECIFICATION MCSpec
CONSTANTS
    World = 3
    Batches = 2
    SampleSettings = 2
    Recurrences = 2
    Calls <- MCCalls
    TargetRequests = 2
    MaxFaults = 1
    Prelude = 1
    Coda = 1
    CoreLayers <- MCCoreLayers
    MaxPositions = 4
    LearnedStart = FALSE
    Requests <- MCRequests
    Embed <- MCEmbed
    Draw <- MCDraw
    Learned <- MCLearned
    EnterCore <- MCEnter
    Layer <- MCLayer
INVARIANTS
    RoundsMatch
    PublishedComplete
    CacheIsTransparent
PROPERTIES
    InferenceEnds
CHECK_DEADLOCK FALSE
