CONSTANTS
    h1 = h1  h2 = h2
    a1 = a1  a2 = a2  b1 = b1  b2 = b2
    us = us  them = them  own = own  none = none
    Hosts <- OneHost
    IPv4s <- TwoIPv4s
    IPv6s <- OneIPv6
    Specs <- PlainSpecs
    Instances <- Both
    Own = own
    Self = us
    Blank = none
    ProxyHosts <- OneRule
    Configs <- OwnershipConfigs
    InitZones <- SomeZones
    AdminAdds <- Foreigners
    AdminDeletes <- MarkersToo
    AdminWhen = "calls"
    AdminAvoidsOwned = FALSE
    LateRequests = "never"
    MaxEdits = 3
    MaxFaults = 2
SPECIFICATION Spec
INVARIANTS WriteUnderMarker
PROPERTIES ForeignHostLeftAlone
