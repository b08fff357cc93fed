SPECIFICATION FairSpec
CONSTANTS
    Functions = {"Get", "Set"}
    Valued = {"Get"}
    TxnMod = 2
    Callable = {"Get"}
    Events = {"Event"}
    Timeouts = {FALSE}
    MayBreak = TRUE
    MayDispose = FALSE
    MaxCalls = 2
    MaxNotifs = 0
PROPERTIES
    BreakEndsCalls
CHECK_DEADLOCK FALSE
