SPECIFICATION FairSpec
CONSTANTS
    Functions = {"Get", "Set"}
    Valued = {"Get"}
    TxnMod = 2
    Callable = {"Get"}
    Events = {"Event"}
    Timeouts = {TRUE, FALSE}
    MayBreak = TRUE
    MayDispose = TRUE
    MaxCalls = 3
    MaxNotifs = 0
INVARIANTS
    WaitingCallIsStored
PROPERTIES
    TimedCallsEnd
    ReplyEndsCall
    DisposeEndsCalls
CHECK_DEADLOCK FALSE
