CONSTANTS
    h1 = h1  h2 = h2
    a1 = a1  a2 = a2  b1 = b1  b2 = b2
    us = us  them = them  own = own  none = none
    Hosts <- TwoHosts
    IPv4s <- TwoIPv4s
    IPv6s <- TwoIPv6s
    Specs <- AutoSpecs
    Instances <- Both
    Own = own
    Self = us
    Blank = none
    ProxyHosts <- ApartRules
    Configs <- HttpsConfigs
    InitZones <- EarlierZones
    AdminAdds <- NoRecords
    AdminDeletes <- OwnAddresses
    AdminWhen = "cycles"
    AdminAvoidsOwned = TRUE
    LateRequests = "never"
    MaxEdits = 3
    MaxFaults = 1
SPECIFICATION Spec
INVARIANTS HTTPSIdentityFresh HintsCurrent
