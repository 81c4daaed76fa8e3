CONSTANTS
    RingBytes = 3
    IdlePolls = 2
    PushPolls = 1
    MaxChunk = 4
    MaxSent = 6
SPECIFICATION FairSpec
INVARIANTS NoLostWakeup OneByteAfterCancel NoFreeUnderWorker
PROPERTIES WaitsEnd StreamSpec
\* a session ends, and once it is freed or leaked nothing is left to do
CHECK_DEADLOCK FALSE
