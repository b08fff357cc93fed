SPECIFICATION FairSpec
CONSTANTS
    Instances = {d1, d2}
    Notifying = {d1}
    Handlers = {g, h}
    Users = {u, v}
    None = None
    MaxSubscribes = 3
INVARIANTS
    TypeOK
    SkippedAtMostRemoved
    NoneServedTwice
PROPERTIES
    DispatchEnds
CHECK_DEADLOCK FALSE
