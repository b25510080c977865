CONSTANTS
    code = code  nokey = nokey  blank = blank  absent = absent
    h2 = h2  h3 = h3  x = x  y = y  u = u  hex = hex
    p443 = p443  p444 = p444  path = path  own = own  other = other
    Texts <- AllTexts
    Codes <- TheCodes
    NoKey = nokey
    Blank = blank
    ValidTexts <- TheTexts
    Specs <- TheSpecs
    HintSets <- TheHints
    Absent = absent
    malformed = malformed  noaddress = noaddress  notrun = notrun
    assigned = assigned  random = random  token = token
    Bytes <- TheByteRange
    Ids <- TheIds
    Indexes = {1, 2}
    MacOf <- TheMacs
    Malformed = malformed
    NoAddress = noaddress
    NotRun = notrun
    InitFiles <- TheFiles
    Tokens <- TheTokens
    MaxLines = 4
SPECIFICATION InputsSpec
INVARIANTS Arrives TargetLasts PicksTheBest
PROPERTIES Settles RotationHarmless
