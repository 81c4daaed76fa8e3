\* Two searches, one retransmission, one doubled datagram, files of two blocks.
CONSTANTS
    Sizes <- SizesVal
    Steady = TRUE
    Retries = 1
    Blocks = 2
    MaxCopies = 1
SPECIFICATION Spec
INVARIANTS AnswerIsWhole DownloadVerdict
PROPERTY JobsEnd
CHECK_DEADLOCK FALSE
