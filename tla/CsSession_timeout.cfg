SPECIFICATION Spec
CONSTANTS
    Functions = {"Get", "Set"}
    Valued = {"Get"}
    TxnMod = 2
    Callable = {"Get", "Set"}
    Events = {"Event"}
    Timeouts = {TRUE}
    MayBreak = TRUE
    MayDispose = FALSE
    MaxCalls = 3
    MaxNotifs = 1
INVARIANTS
    TypeOK
    AnswerIsOfTheSameFunction
PROPERTIES
    ClientSpec
CHECK_DEADLOCK FALSE
