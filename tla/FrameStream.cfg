SPECIFICATION Spec
CONSTANTS
    HeaderSize = 3
    Nonce = 1
    Limit = 4
    Sizes <- MCSizes
    MaxMsgs = 3
    Capacity = 6
INVARIANTS
    FrameTypeOK
    ReportedIsKept
PROPERTIES
    ImplementsChannel
    SentIsReceived
CHECK_DEADLOCK FALSE
