SPECIFICATION Spec
CONSTANTS
    system = system
    p1 = p1
    p2 = p2
    Pids <- MCPids
    Protected <- MCProtected
    Cpus = 2
    EnumLimit = 2
    Offsets <- MCOffsets
    MaxNow = 2
    MaxStarts = 2
SYMMETRY MCSymmetry
CHECK_DEADLOCK FALSE
INVARIANTS
    UsageWithinSamples
    EveryoneCounted
