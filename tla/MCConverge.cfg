CONSTANTS
    h1 = h1  h2 = h2
    a1 = a1  a2 = a2  b1 = b1  b2 = b2
    us = us  them = them  own = own  none = none
    Hosts <- TwoHosts
    IPv4s <- TwoIPv4s
    IPv6s <- OneIPv6
    Specs <- PlainSpecs
    Instances <- Both
    Own = own
    Self = us
    Blank = none
    ProxyHosts <- OffRules
    Configs <- OwnershipConfigs
    InitZones <- EmptyZone
    AdminAdds <- ForeignersH2
    AdminDeletes <- ForeignersH2
    AdminWhen = "cycles"
    AdminAvoidsOwned = TRUE
    LateRequests = "steady"
    MaxEdits = 2
    MaxFaults = 1
SPECIFICATION FairSpec
PROPERTIES Converges
