\* One session, one transfer, two items, a server that keeps reading.
CONSTANTS
    MaxSessions = 1
    MaxTransfers = 1
    MaxItems = 2
    MaxChunk = 2
    MayStall = FALSE
SPECIFICATION Spec
PROPERTY SessionsEnd

CHECK_DEADLOCK FALSE
