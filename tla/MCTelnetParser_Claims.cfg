\* A server that breaks off a subnegotiation.
CONSTANTS
    SbMax = 3
    MaxUnits = 2
    RecvBuf = 3
SPECIFICATION ParserSpec
INVARIANT AbandonedCleanly
CHECK_DEADLOCK FALSE
