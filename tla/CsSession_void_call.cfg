SPECIFICATION FairSpec
CONSTANTS
    Functions = {"Get", "Set"}
    Valued = {"Get"}
    TxnMod = 2
    Callable = {"Get", "Set"}
    Events = {"Event"}
    Timeouts = {FALSE}
    MayBreak = FALSE
    MayDispose = FALSE
    MaxCalls = 2
    MaxNotifs = 0
PROPERTIES
    CallsEnd
CHECK_DEADLOCK FALSE
