SPECIFICATION FairSpec
CONSTANTS
    Readers = {"TcpTransport", "StdioTransport", "SerialTransport", "ReadExactly"}
    MaxWords = 2
    MaxMessages = 2
INVARIANTS
    TypeOK
    WholeUnlessCut
PROPERTIES
    DeliveredUnlessCut
    CloseIsReported
CHECK_DEADLOCK FALSE
