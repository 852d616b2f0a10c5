SPECIFICATION Spec
CONSTANTS
    Modulus = 32
    Capacity = 3
    Bases <- MCBases
    Oversized <- MCOversized
    MaxRecords = 9
    MaxClears = 2
    Begins <- MCBegins
    Limit = 6
    Firsts <- MCFirsts
    BufferMax = 2
INVARIANTS
    NoneTwiceNoneBelow
PROPERTIES
    NoSilentGap
    EventuallyYielded
    EndMeansComplete
    ReadAllReturns
CHECK_DEADLOCK FALSE
