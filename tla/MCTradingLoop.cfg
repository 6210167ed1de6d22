SPECIFICATION Spec
CONSTANTS
    Slots = {s1, s2, s3}
    MaxPositions = 2
    Cooldown = 3
    PendingTTL = 2
    BlockTime = 1
    Mode = "reexec"
    Interval = 2
    FlatGrace = 1
    PostOrderGrace = 3
SYMMETRY Symmetry
INVARIANTS
    TypeOK
    ReverseAlone
    ReverseIsFresh
    RecyclesFlat
PROPERTIES
    PositionsBounded
