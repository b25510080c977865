---------------------------- MODULE ConfigValues ----------------------------
(***************************************************************************)
(* The values of internal/config: a configuration, what Validate accepts,  *)
(* what a first run starts from, what clampDefaults repairs at a load.     *)
(*                                                                         *)
(* Every setting but two is folded into `rest': the instance ID, because   *)
(* ownership of records hangs on it, and the poll interval, because the    *)
(* loop's ticker does.  TTLSeconds is clamped and validated just as the    *)
(* poll interval is; LANIPv4 is detected again when it is blank.           *)
(***************************************************************************)
EXTENDS Integers

CONSTANTS
    Ids,          \* instance IDs newInstanceID may generate
    Polls,        \* values of PollIntervalSeconds, in a file or in a payload
    Rests,        \* values of the other settings
    Complete,     \* those of them that Validate accepts
    DefaultRest,  \* the first run's: no server URL and no zone
    MinPoll,      \* MinPollIntervalSeconds
    DefaultPoll,  \* DefaultPollIntervalSeconds
    InitFiles,    \* what config.json may hold when the plugin is installed
    Blank,        \* the empty instance ID
    Absent,       \* no such file
    None          \* no configuration at all

Config == [id : Ids \cup {Blank}, poll : Polls, rest : Rests]

ASSUME PollAssumption ==
    /\ Polls \subseteq Int
    /\ MinPoll \in Int
    /\ DefaultPoll \in Polls
    /\ DefaultPoll >= MinPoll

ASSUME RestAssumption == Complete \subseteq Rests /\ DefaultRest \in Rests

ASSUME FileAssumption == InitFiles \subseteq Config \cup {Absent}

ASSUME SentinelAssumption ==
    /\ Blank \notin Ids
    /\ Absent \notin Config
    /\ None \notin Config \cup {Absent}

Valid(c) == c.poll >= MinPoll /\ c.rest \in Complete

Default(i) == [id |-> i, poll |-> DefaultPoll, rest |-> DefaultRest]

\* IDs are random, hence never repeat while the finite set lasts.
FreshIds(used) == IF Ids \subseteq used THEN Ids ELSE Ids \ used

\* Plausible bug: the interval is not repaired.
ClampKeepsPoll(c, i) == [c EXCEPT !.id = IF @ = Blank THEN i ELSE @]

\* In memory only: Load does not write back what it repairs.
Clamp(c, i) ==
    [c EXCEPT !.id   = IF @ = Blank THEN i ELSE @,
              !.poll = IF @ < MinPoll THEN DefaultPoll ELSE @]

\* The function handleConfig passes to Update: every setting is the
\* payload's (a blank token keeps the stored one, which is then in `rest'),
\* the instance ID is never accepted from the client.
Edited(c, poll, rest) == [c EXCEPT !.poll = poll, !.rest = rest]
=============================================================================
