\* Two sessions, two transfers, two items, a server that may stop reading.
CONSTANTS
    MaxSessions = 2
    MaxTransfers = 2
    MaxItems = 2
    MaxChunk = 2
    MayStall = TRUE
SPECIFICATION Spec
INVARIANTS OneStream SessionsAreApart
CHECK_DEADLOCK FALSE
