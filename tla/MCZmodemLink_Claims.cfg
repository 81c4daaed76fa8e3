\* Claims the code does not keep: TLC finds each violated; keep one line at a time.
\* The wire may lose items unseen.
CONSTANTS
    MaxErrors = 2
    Ceiling = 3
    Slots = 1
    Vals = {1, 2, 3}
    FileLen = 3
    MaxWire = 4
    MaxFaults = 1
    MayLose = TRUE
SPECIFICATION LinkSpec
INVARIANT OkMeansWhole
\* INVARIANT DropNeverCorrupts
CHECK_DEADLOCK FALSE
