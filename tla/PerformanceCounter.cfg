SPECIFICATION Spec
CONSTANTS
    t1 = t1
    t2 = t2
    Threads <- MCThreads
    MaxAdds = 2
SYMMETRY MCSymmetry
INVARIANTS
    Aligned
    SerialIsExact
CHECK_DEADLOCK FALSE
