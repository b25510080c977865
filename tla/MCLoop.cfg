CONSTANTS
    i1 = i1  i2 = i2  r0 = r0  r1 = r1
    blank = blank  absent = absent  none = none  p = p  q = q
    Ids <- TwoIds
    Polls <- SomePolls
    Rests <- SomeRests
    Complete <- Accepted
    DefaultRest = r0
    MinPoll = 5
    DefaultPoll = 30
    InitFiles <- AnyFiles
    Blank = blank
    Absent = absent
    None = none
    Handlers <- TwoPosts
    Second = 10
    MaxInt = 511
    MaxEnds = 1
SPECIFICATION FairSpec
INVARIANTS TypeOK SavesAreSignalled IntervalFresh NeverPanics
PROPERTIES EverySaveUsed
