\* What a comment says and the code does not do.  TabRuns, which takes another
\* line, holds.
CONSTANTS
    PasteLen = 2
    QueueCap = 2
    Reserve = 1
    MaxInputs = 2
    MaxBoots = 2
SPECIFICATION BasicSpec
INVARIANT OneOwner
\* PROPERTY TabRuns
CHECK_DEADLOCK FALSE
