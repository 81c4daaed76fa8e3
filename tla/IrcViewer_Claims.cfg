\* Claims the code does not keep: TLC finds each violated; keep one line at a time.
CONSTANTS
    SeenMax = 1
    Window = 1
    MaxTalk = 3
    MaxDials = 2
    MaxClients = 2
SPECIFICATION Spec
INVARIANT DisconnectIsSilent
\* INVARIANT BannerOnlyAtFirst
\* INVARIANT ClosedOnce
CHECK_DEADLOCK FALSE
