\* Frames of two symbols, metadata after every three, a ring of one block; two
\* requests to play a sound; two attempts to watch, two events of their engines.
CONSTANTS
    MetaInt = 3
    FrameLen = 2
    RingCap = 1
    MaxChunk = 2
    MaxAudio = 6
    MaxStarts = 2
    MaxRequests = 2
    MaxPlays = 2
    MaxEvents = 2
SPECIFICATION MCSpec
INVARIANTS HeardAsSent TabFollowsEngine ReaderIsJoined RunsAreApart PictureHasSound
PROPERTIES StopEnds EveryWindowCloses ConnectingEnds
\* an engine that was stopped and a service that was shut down do nothing more
CHECK_DEADLOCK FALSE
