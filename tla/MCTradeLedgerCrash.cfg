\* The runner alone, which may die, and whose writes may fail or break off: two
\* trades.
CONSTANTS
    t1 = t1
    t2 = t2
    runner = runner
    api = api
    Ticket <- TwoTickets
    Writer <- Runner
    Syncer <- Nobody
    MaxRestarts = 1
    MaxForced = 0
    ReadMayFail = FALSE
    WriteMayFail = TRUE
    ReplaceMayFail = TRUE
    QueryMayFail = TRUE
    PartialCloses = FALSE
SPECIFICATION Spec
SYMMETRY TicketSymmetry
INVARIANTS
    TypeOK
PROPERTIES
    ImplementsLifecycle
CHECK_DEADLOCK FALSE
