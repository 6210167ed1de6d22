\* Crashes of the runner, failures of the store, the handler and the delivery;
\* every click is handled whatever fails.
CONSTANTS
    MaxProposals = 1
    MaxClicks = 2
    MaxRestarts = 1
    StoreMayFail = TRUE
    HandlerMayFail = TRUE
    DeliveryMayFail = TRUE
SPECIFICATION FairSpec
INVARIANTS
    TypeOK
    ClickDecidesOnce
    AppliedIsTrue
PROPERTIES
    EveryClickHandled
CHECK_DEADLOCK FALSE
