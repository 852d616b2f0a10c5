SPECIFICATION FairSpec
CONSTANTS
    r1 = r1
    r2 = r2
    Readers <- MCOneReader
    MaxLog = 2
    Retention = 3
    MaxEvents = 4
    Timeouts = {"zero", "finite", "infinite"}
INVARIANTS
    NothingLost
PROPERTIES
    ImplementsFeed
    EventuallyHanded
