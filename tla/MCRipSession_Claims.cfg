\* Claims the code does not keep: TLC finds each violated; keep one line at a time.
\* The last, the type invariant, holds.
\* One session, one transfer, two items, a server that may stop reading.
CONSTANTS
    MaxSessions = 1
    MaxTransfers = 1
    MaxItems = 2
    MaxChunk = 2
    MayStall = TRUE
SPECIFICATION Spec
INVARIANT JoinedBeforeFree
\* INVARIANT WorkerNeverLeaked
\* INVARIANT SceneKept
\* INVARIANT TypeOK
CHECK_DEADLOCK FALSE
