\* Claims the code does not keep: TLC finds each violated; keep one line at a time.
CONSTANT MaxRequests = 3
SPECIFICATION AudioLiveSpec
INVARIANT LockOutlivesWorker
\* INVARIANT FreshStartKeepsMeter
\* INVARIANT FreshStartKeepsStatus
CHECK_DEADLOCK FALSE
