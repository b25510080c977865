CONSTANTS
    i1 = i1  i2 = i2  i3 = i3  r0 = r0  r1 = r1
    blank = blank  absent = absent  none = none  torn = torn  empty = empty
    Ids <- ThreeIds
    Polls <- SomePolls
    Rests <- SomeRests
    Complete <- Accepted
    DefaultRest = r0
    MinPoll = 5
    DefaultPoll = 30
    InitFiles <- WholeFiles
    Blank = blank
    Absent = absent
    None = none
    Torn = torn
    Empty = empty
    LazyDir = FALSE
SPECIFICATION Spec
INVARIANTS TypeOK NeverTorn InstanceStable
PROPERTIES ImplementsDurable
