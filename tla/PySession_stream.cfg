SPECIFICATION FairSpec
CONSTANTS
    Functions = {"Get", "Note"}
    Valued = {"Get"}
    TxnMax = 2
    PyIds = {"Get", "Skew", "Note", "Event"}
    Callable = {"Get", "Skew"}
    Notes = {"Note"}
    Events = {"Event", "NewEvent"}
    Reliable = TRUE
    MaxCalls = 3
    MaxNotifs = 1
    MaxSpurious = 1
    MaxCopies = 0
INVARIANTS
    OutOfStepForGood
PROPERTIES
    DeadListenerFailsFast
    CallsEnd
    NotificationsDispatched
CHECK_DEADLOCK FALSE
