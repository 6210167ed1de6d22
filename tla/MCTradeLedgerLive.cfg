\* The runner writes and may be restarted, the API server syncs its copy;
\* positions may be closed in part and queries may fail.
CONSTANTS
    t1 = t1
    t2 = t2
    runner = runner
    api = api
    Ticket <- OneTicket
    Writer <- Runner
    Syncer <- Api
    MaxRestarts = 1
    MaxForced = 2
    ReadMayFail = FALSE
    WriteMayFail = FALSE
    ReplaceMayFail = FALSE
    QueryMayFail = TRUE
    PartialCloses = TRUE
SPECIFICATION FairSpec
INVARIANTS
    OpenRowsWatched
    ClosedOnce
    MirrorAgrees
PROPERTIES
    CloseGetsRecorded
CHECK_DEADLOCK FALSE
