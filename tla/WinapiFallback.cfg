SPECIFICATION Spec
CONSTANTS
    Rows = {r1, r2}
    WordLimit = 2
    KeyNames = {n1, n2, n3, n4}
    LongNames = {n4}
    MaxNames = 3
    MaxChanges = 2
    MaxUnits = 10
    PdhNames = {m1, m2}
    MaxMoves = 1
    ProcessIds = {system, p1, p2}
    Refused = {system}
    MaxBorn = 2
    LogNames = {"Security", "Setup"}
    Sources = {1, 4}
    Files = {f1, f2}
    MaxModules = 1
    MaxMoved = 1
INVARIANTS
    FallbackKeepsSource
