\* The broker does not answer while reconcile runs: a trade that is only closed
\* in part is recorded as closed.
CONSTANTS
    t1 = t1
    t2 = t2
    runner = runner
    api = api
    Ticket <- OneTicket
    Writer <- Runner
    Syncer <- Nobody
    MaxRestarts = 0
    MaxForced = 0
    ReadMayFail = FALSE
    WriteMayFail = FALSE
    ReplaceMayFail = FALSE
    QueryMayFail = TRUE
    PartialCloses = TRUE
SPECIFICATION Spec
INVARIANTS
    NoPhantomClose
CHECK_DEADLOCK FALSE
