SPECIFICATION MCSpec
CONSTANTS
    web = web
    code = code
    Stages <- MCStages
    TokensPerStep = 10
    WarmupSteps = 0
    CooldownSteps = 0
    MinLR = 0
    StartStep = 1
    LogInterval = 2
    IsMain = TRUE
    Sources <- MCSources
    WarnPercent = 5
    WarnQuiet = 4
    Durations = {1, 2}
    main = main
    worker = worker
    Boards = {TRUE, FALSE}
    Lives = {first, second}
    Notes = {note}
    Breaks = TRUE
    Loses = TRUE
    Hups = 1
INVARIANTS
    TransitionsAnnounced
    FailureIsSaid
    CirclesOnlyThroughSighup
    ClosedCleanly
    KeptOnce
PROPERTIES
    DictReportsItsInterval
    SamplesAreTraining
SYMMETRY SourceSymmetry
CHECK_DEADLOCK FALSE
