SPECIFICATION DnsSpec
CONSTANTS
    s1 = s1
    s2 = s2
    a1 = a1
    d1 = d1
    Domains <- MCDomains
    Sessions <- MCTwoSessions
    Addresses <- MCOneAddress
    ResolvFiles <- MCFiles
    MaxNameserver = 2
    MaxSearch = 2
    MaxUnkept = 1
SYMMETRY MCSymmetry
INVARIANTS
    SaveWritesItsObject
    ReloadLosesOnlySortlist
