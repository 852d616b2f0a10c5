SPECIFICATION Spec
CONSTANTS
    t1 = t1
    t2 = t2
    Threads <- MCThreads
SYMMETRY MCThreadSymmetry
INVARIANTS
    ModuleTestHolds
    FailureLeaksNothing
