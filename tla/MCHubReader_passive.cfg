SPECIFICATION Spec
CONSTANTS
    Key <- MCKey
    Extra = {"x"}
    Plain = "all"
    Repo <- MCPassive
    MaxCount = 2
    MaxPasses = 3
INVARIANT
    Contiguous
CHECK_DEADLOCK FALSE
