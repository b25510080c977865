----------------------------- MODULE Ownership ------------------------------
(***************************************************************************)
(* What the ownership markers of internal/technitium promise to whoever    *)
(* else keeps records in the zone.  Of the hosts, some are marked by the   *)
(* plugin.  It marks a host only where nobody has a record, writes only at *)
(* marked hosts and only records of its own, and gives a host up only when *)
(* it has left nothing behind.  A request at a time, whatever its sender   *)
(* has seen or planned, and however it ended.                              *)
(***************************************************************************)
CONSTANTS
    Hosts,
    HostRecords  \* A, AAAA and HTTPS records at hosts

VARIABLES
    marked,  \* hosts under the plugin's marker
    ours,    \* records the plugin wrote
    others   \* records somebody else wrote

vars == <<marked, ours, others>>

At(S, h)  == {r \in S : r.host = h}
Off(S, h) == S \ At(S, h)

\* What stands at a host is the plugin's if the host is marked, else others'.
Init ==
    /\ marked \subseteq Hosts
    /\ ours \subseteq HostRecords
    /\ others \subseteq HostRecords
    /\ \A h \in Hosts : IF h \in marked THEN At(others, h) = {} ELSE At(ours, h) = {}

Claim(h) ==
    /\ h \notin marked /\ At(others, h) = {}
    /\ marked' = marked \cup {h}
    /\ UNCHANGED <<ours, others>>

\* Records of the plugin at a marked host are added, replaced or deleted.
Write(h) ==
    /\ h \in marked
    /\ ours' \subseteq HostRecords
    /\ Off(ours', h) = Off(ours, h)
    /\ UNCHANGED <<marked, others>>

GiveUp(h) ==
    /\ h \in marked /\ At(ours, h) = {}
    /\ marked' = marked \ {h}
    /\ UNCHANGED <<ours, others>>

Plugin == \E h \in Hosts : Claim(h) \/ Write(h) \/ GiveUp(h)

\* Somebody else adds a record at a host that is not marked.
OthersAdd(r) ==
    /\ r.host \notin marked
    /\ others' = others \cup {r}
    /\ UNCHANGED <<marked, ours>>

\* Somebody else deletes a record, the plugin's own included.
OthersDelete(r) ==
    /\ ours' = ours \ {r}
    /\ others' = others \ {r}
    /\ UNCHANGED marked

Next == Plugin \/ \E r \in HostRecords : OthersAdd(r) \/ OthersDelete(r)

Spec == Init /\ [][Next]_vars
=============================================================================
