SPECIFICATION Spec
CONSTANTS
    main = main
    worker = worker
    None = None
    Boards = {FALSE}
    Lives = {first}
    Notes = {note}
    Breaks = FALSE
    Loses = FALSE
    Hups = 1
INVARIANT NoWaitCycle
CHECK_DEADLOCK FALSE
