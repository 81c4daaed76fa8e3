\* Claims the code does not keep: TLC finds each violated; keep one line at a time.
CONSTANTS
    MaxPlays = 3
    MaxEvents = 2
SPECIFICATION TvSpec
INVARIANT OnePlayer
\* INVARIANT LockstepAlways
\* INVARIANT WarmUpSurvivesDestroy
\* PROPERTY ErrorStays
CHECK_DEADLOCK FALSE
