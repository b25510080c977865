CONSTANTS
    h1 = h1  h2 = h2
    a1 = a1  a2 = a2  b1 = b1  b2 = b2
    us = us  them = them  own = own  none = none
    Hosts <- OneHost
    IPv4s <- OneIPv4
    IPv6s <- TwoIPv6s
    Specs <- PlainSpecs
    Instances <- Both
    Own = own
    Self = us
    Blank = none
    ProxyHosts <- OneRule
    Configs <- IPv6Configs
    InitZones <- EmptyZone
    AdminAdds <- NoRecords
    AdminDeletes <- NoRecords
    AdminWhen = "cycles"
    AdminAvoidsOwned = TRUE
    LateRequests = "never"
    MaxEdits = 5
    MaxFaults = 1
SPECIFICATION Spec
INVARIANTS OwnRecordsMarked
