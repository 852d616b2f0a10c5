SPECIFICATION Spec
CONSTANTS
    Capacity = 2
    MaxOut = 4
    MaxErr = 4
    MaxRows = 2
    MaxRecords = 2
    ProcDirs = {d1, d2}
    MaxSpawned = 3
    Cores = {0, 1, 2}
    MaxTicks = 2
    Sockets = {s1, s2}
    Sockets6 = {s2}
    Pids = {1, 2}
    Uids = {0, 1, 2}
    Passwd = {0, 1}
    MaxMoves = 1
    Width = 2
    Routes <- MCRoutes
    MaxRoutes = 3
    MaxCommands = 2
INVARIANTS
    OutputIsWhole
    PartitionsAreRows
    EntriesAreRecords
    ListedAsTheyRan
    SharesOfOneCore
    PidIsOfTheUser
    FoundIsTheLongest
    CommandsDoWhatIsNamed
PROPERTIES
    RunReturns
