---------------------------- MODULE MCPluginLoop ----------------------------
(***************************************************************************)
(* Small instances of PluginLoop for TLC.                                  *)
(***************************************************************************)
EXTENDS PluginLoop

CONSTANTS i1, i2, r0, r1, blank, absent, none, p, q

TwoIds    == {i1, i2}
SomePolls == {0, 5, 30}
\* With Second = 10 and MaxInt = 511, 52 seconds are more than an int64 of
\* nanoseconds holds.
LongPolls == {5, 30, 52}
SomeRests == {r0, r1}
Accepted  == {r1}
TwoPosts  == {p, q}
OnePost   == {p}

File(i, poll) == [id |-> i, poll |-> poll, rest |-> r1]

AnyFiles  == {absent, File(i1, 5), File(i1, 0)}
GoodFiles == {File(i1, 5)}
=============================================================================
