\* Claims the code does not keep: TLC finds each violated; keep one line at a time.
\* The index may change between two requests.
CONSTANTS
    Sizes <- SizesVal
    Steady = FALSE
    Retries = 1
    Blocks = 2
    MaxCopies = 1
SPECIFICATION Spec
INVARIANT NoHole
\* PROPERTY TheirsUntilOpened
CHECK_DEADLOCK FALSE
