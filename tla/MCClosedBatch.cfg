\* Safety of the micro-batch with files that can be read: two callers, a closer
\* in their process and one in another process, one restart.
CONSTANTS
    c1 = c1
    c2 = c2
    here = here
    there = there
    Callers <- TwoCallers
    Closers <- BothClosers
    Local <- HereOnly
    Row = {1, 2}
    StoreLimit = 1
    MaxCalls = 1
    MaxCloses = 1
    MaxRestarts = 1
    ReadMayFail = FALSE
    ReplaceMayFail = TRUE
    NoThread = NoThread
SPECIFICATION Spec
SYMMETRY CallerSymmetry
INVARIANTS
    TypeOK
    NoStrandedRequest
    OkMeansDurable
    TableBehindFile
PROPERTIES
    ImplementsJournal
CHECK_DEADLOCK FALSE
