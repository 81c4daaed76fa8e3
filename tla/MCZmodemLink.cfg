CONSTANTS
    MaxErrors = 2
    Ceiling = 2
    Slots = 1
    Vals = {1, 2}
    FileLen = 2
    MaxWire = 4
    MaxFaults = 2
    MayLose = FALSE
SPECIFICATION LinkFairSpec
INVARIANT SourceArrives
PROPERTIES LinkEnds
\* an ended conversation stays as it is
CHECK_DEADLOCK FALSE
