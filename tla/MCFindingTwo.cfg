CONSTANTS
    h1 = h1  a1 = a1  a2 = a2  b1 = b1
    us = us  them = them  own = own  none = none
    Hosts <- OneHost
    IPv4s <- TwoIPv4s
    IPv6s <- OneIPv6
    Specs <- PlainSpecs
    Instances <- Both
    Own = own
    Blank = none
    ProxyHosts <- OneRule
    MaxEdits = 3
    MaxFaults = 0
    IdA = us
    IdB = them
    ConfigsA <- OurConfigs
    ConfigsB <- TheirConfigs
SPECIFICATION Spec
PROPERTIES OnlyItsOwn
