\* One canary, any number of activations and one crash, both processes interleaved.
CONSTANTS
    MaxCrashes = 1
SPECIFICATION FairSpec
INVARIANTS
    TypeOK
PROPERTIES
    ClosesOutOwnWindow
    HandsOverPrepared
    TriggersGetAnswered
