SPECIFICATION Spec
CONSTANTS
    Key <- MCKey
    Extra = {"x"}
    Plain = "all"
    Repo <- MCEvery
    MaxCount = 2
    MaxPasses = 3
INVARIANTS
    ContiguousUnlessSkipped
    IndexTruthful
    ServedInFull
CHECK_DEADLOCK FALSE
