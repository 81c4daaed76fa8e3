\* Claims the code does not keep: TLC finds each violated; keep one line at a time.
\* The last, the type invariant, holds.
CONSTANTS
    gt113 = gt113
    gt112 = gt112
    gt111 = gt111
    NoPage = NoPage
    Issues = {gt113, gt112, gt111}
    Latest = gt113
    CacheCap = 2
    MaxPicks = 3
SPECIFICATION NewsSpec
INVARIANT NothingAfterFree
\* PROPERTY PickStays
\* INVARIANT PrintHasManifest
\* INVARIANT PrintedStays
\* INVARIANT NewsTypeOK
CHECK_DEADLOCK FALSE
