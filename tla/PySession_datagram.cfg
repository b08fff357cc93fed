SPECIFICATION Spec
CONSTANTS
    Functions = {"Get", "Note"}
    Valued = {"Get"}
    TxnMax = 2
    PyIds = {"Get", "Skew", "Note", "Event"}
    Callable = {"Get", "Skew"}
    Notes = {"Note"}
    Events = {"Event", "NewEvent"}
    Reliable = FALSE
    MaxCalls = 3
    MaxNotifs = 0
    MaxSpurious = 1
    MaxCopies = 1
INVARIANTS
    TypeOK
    WrongAnswerIsOld
    AnswerWasExecuted
PROPERTIES
    ClientSpec
CHECK_DEADLOCK FALSE
