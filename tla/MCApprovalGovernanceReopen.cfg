\* The bridge reopens a group that was closed since it read it.
CONSTANTS
    MaxProposals = 2
    MaxClicks = 1
    MaxRestarts = 0
    StoreMayFail = FALSE
    HandlerMayFail = FALSE
    DeliveryMayFail = FALSE
SPECIFICATION Spec
PROPERTIES
    ReopensUnderNewId
CHECK_DEADLOCK FALSE
