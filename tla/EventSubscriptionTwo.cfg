SPECIFICATION Spec
CONSTANTS
    r1 = r1
    r2 = r2
    Readers <- MCTwoReaders
    MaxLog = 2
    Retention = 2
    MaxEvents = 3
    Timeouts = {"zero", "finite", "infinite"}
SYMMETRY MCReaderSymmetry
INVARIANTS
    NoLostWakeup
PROPERTIES
    LossNeedsCrash
