SPECIFICATION FairSpec
CONSTANTS
    r0 = r0
    r1 = r1
    Rank <- MCTwoRanks
    Main = r0
    Stages <- MCOneStage
    TokensPerStep = 2
    WarmupSteps = 0
    CooldownSteps = 0
    MinLR = 0
    TotalSteps <- MCTotalSteps
    SaveInterval = 2
    SaveLastStep = FALSE
    StageEnds <- MCStageEnds
    EvalInterval = 2
    SampleSteps <- MCAtHalf
    BenchmarkSteps <- MCAtStart
    Supervised = {TRUE, FALSE}
    MaxLaunches = 2
INVARIANTS
    CollectivesMatch
    StoppedStateSaved
    OneRunPerDirectory
    OnePassOverData
    LostWorkBounded
PROPERTIES
    AttemptEnds
    ImplementsResumableRun
