\* The watch, one refresh by a script, a fault of either: the floors are in
\* reach, and the limit of the light cycle is below the rows that may come.
CONSTANTS
    MaxRows = 3
    LightRows = 2
    HeavyRows = 2
    SampleFloor = 2
    LightLimit = 1
    HeavyLimit = 2
    MaxToolRuns = 1
    MaxFaults = 1
SPECIFICATION FairSpec
INVARIANTS
    TypeOK
PROPERTIES
    ImplementsAccount
    RowsGetCounted
    AnalysisCatchesUp
    DegradedRecovers
