--------------------------- MODULE MCConfigStore ----------------------------
(***************************************************************************)
(* Small instances of ConfigStore for TLC.                                 *)
(***************************************************************************)
EXTENDS ConfigStore

CONSTANTS i1, i2, i3, r0, r1, blank, absent, none, torn, empty

ThreeIds  == {i1, i2, i3}
SomePolls == {0, 5, 30}
SomeRests == {r0, r1}
Accepted  == {r1}

File(i, poll) == [id |-> i, poll |-> poll, rest |-> r1]

\* Nothing yet, a whole file, one whose interval is out of range.
WholeFiles == {absent, File(i1, 5), File(i1, 0)}
=============================================================================
