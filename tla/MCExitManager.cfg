SPECIFICATION FairSpec
CONSTANTS
    Config <- MCConfig
    Side = "SELL"
    MaxMove = 2
    QueryMayFail = TRUE
INVARIANTS
    TypeOK
    ExtremeNeverHeld
    AdverseWaitBounded
    OnePart
PROPERTIES
    ImplementsCare
    HeldRunnerIsSecured
    AdverseGetsClosed
