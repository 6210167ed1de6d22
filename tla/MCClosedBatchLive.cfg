\* Liveness of the micro-batch: reads, writes and locks may fail, a wait may but
\* need not time out, and a caller whose wait timed out calls again.
CONSTANTS
    c1 = c1
    c2 = c2
    here = here
    there = there
    Callers <- TwoCallers
    Closers <- OtherCloser
    Local <- NoCloser
    Row = {1}
    StoreLimit = 1
    MaxCalls = 2
    MaxCloses = 1
    MaxRestarts = 0
    ReadMayFail = TRUE
    ReplaceMayFail = TRUE
    NoThread = NoThread
SPECIFICATION FairSpec
PROPERTIES
    EveryCallReturns
CHECK_DEADLOCK FALSE
