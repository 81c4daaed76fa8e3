\* Claims the code does not keep: TLC finds each violated; keep one line at a time.
\* The last, the type invariant, holds.
CONSTANTS
    MaxErrors = 2
    Ceiling = 2
    Slots = 2
    Vals = {7}
SPECIFICATION Spec
PROPERTY TheirsKept
\* INVARIANT BadBlocksBounded
\* INVARIANT NoPartialLeft
\* INVARIANT SenderCancelReported
\* INVARIANT SessionCeiling
\* INVARIANT TailKept
\* INVARIANT TypeOK
CHECK_DEADLOCK FALSE
