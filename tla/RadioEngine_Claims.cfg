\* Claims the code does not keep: TLC finds each violated; keep one line at a time.
CONSTANTS
    MetaInt = 3
    FrameLen = 2
    RingCap = 1
    MaxChunk = 2
    MaxAudio = 6
    MaxStarts = 2
SPECIFICATION Spec
INVARIANT JoinedBeforeFree
\* INVARIANT DecoderFailurePublished
CHECK_DEADLOCK FALSE
