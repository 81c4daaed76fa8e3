\* Four units, chunks of up to three bytes, a body longer than sb_buf.
CONSTANTS
    SbMax = 3
    MaxUnits = 4
    RecvBuf = 3
SPECIFICATION ParserSpec
INVARIANTS PayloadExact OptionsSettled
PROPERTY NegotiationEnds
CHECK_DEADLOCK FALSE
