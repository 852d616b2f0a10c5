SPECIFICATION DnsSpec
CONSTANTS
    s1 = s1
    s2 = s2
    a1 = a1
    d1 = d1
    Domains <- MCDomains
    Sessions <- MCOneSession
    Addresses <- MCOneAddress
    ResolvFiles <- MCCrowdedFiles
    MaxNameserver = 3
    MaxSearch = 1
    MaxUnkept = 0
PROPERTIES
    NameserverLimit
