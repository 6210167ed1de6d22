\* Nothing fails, but the runner may restart; the orchestrator races the runner.
CONSTANTS
    MaxProposals = 2
    MaxClicks = 2
    MaxRestarts = 1
    StoreMayFail = FALSE
    HandlerMayFail = FALSE
    DeliveryMayFail = FALSE
SPECIFICATION Spec
INVARIANTS
    AppliedOnce
    DecidesOpenGroups
PROPERTIES
    ImplementsPromise
CHECK_DEADLOCK FALSE
