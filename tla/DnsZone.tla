------------------------------ MODULE DnsZone ------------------------------
(***************************************************************************)
(* The zone kept by Technitium DNS Server, as far as this plugin can tell  *)
(* it apart through the calls of internal/technitium/client.go.  Technitium *)
(* itself is not in the repository: every definition here is external and  *)
(* follows the requests the client sends, the comments on why it sends     *)
(* them, and the fake server the client's tests run against.               *)
(*                                                                         *)
(* A zone is a set of records; the records of one name and type form an    *)
(* RRset, a set without order.  An HTTPS record's data is its spec, and    *)
(* its automatic hints, which the server writes, are kept apart in `hints' *)
(* because they are part of what identifies the record on update/delete.   *)
(***************************************************************************)
EXTENDS Integers, Sequences, FiniteSets

CONSTANTS
    Hosts,      \* hostnames, already lower-cased and trimmed
    IPv4s,      \* addresses an A record may hold
    IPv6s,      \* addresses an AAAA record may hold
    Specs,      \* HTTPS specs: [id |-> .., target |-> .., auto |-> ..]
    Instances,  \* texts of the TXT record at _ztsync.<host>
    Own         \* the blank target name: the record's own name

ASSUME SpecsAssumption ==
    \A s \in Specs : s.target \in Hosts \cup {Own} /\ s.auto \in BOOLEAN

Addresses == IPv4s \cup IPv6s

ARecord(h, ip)        == [host |-> h, type |-> "A",     data |-> ip]
AAAARecord(h, ip)     == [host |-> h, type |-> "AAAA",  data |-> ip]
HTTPSRecord(h, s)     == [host |-> h, type |-> "HTTPS", data |-> s]
MarkerRecord(h, inst) == [host |-> h, type |-> "TXT",   data |-> inst]

Records ==
    [host : Hosts, type : {"A"}, data : IPv4s]
      \cup [host : Hosts, type : {"AAAA"}, data : IPv6s]
      \cup [host : Hosts, type : {"HTTPS"}, data : Specs]
      \cup [host : Hosts, type : {"TXT"}, data : Instances]

AddressTypes == {"A", "AAAA"}
HostTypes    == {"A", "AAAA", "HTTPS"}

(***************************************************************************)
(* One HTTP request.  `rec' is the record it names, `new' what it writes   *)
(* (the same record unless it is an update), `hint' the hints it quotes to *)
(* identify an HTTPS record.                                               *)
(***************************************************************************)
Requests ==
    [verb : {"check", "add", "update", "delete"},
     rec : Records, new : Records, hint : SUBSET Addresses]

Removed(q) == IF q.verb \in {"update", "delete"} THEN {q.rec} ELSE {}
Written(q) == IF q.verb \in {"add", "update"} THEN {q.new} ELSE {}

ZoneAfter(z, q) == (z \ Removed(q)) \cup Written(q)

\* Adding a record that is already there is an error the client calls benign.
Conflict(z, q) == q.verb = "add" /\ q.rec \in z

TargetOf(h, s) == IF s.target = Own THEN h ELSE s.target

\* The value of the ipv4hint and ipv6hint params under Automatic Hints.
Resolve(z, h, s) ==
    IF s.auto
      THEN {r.data : r \in {x \in z : /\ x.type \in AddressTypes
                                      /\ x.host = TargetOf(h, s)}}
      ELSE {}

\* Does q make the server resolve the hints of the HTTPS record (h, s) again?
\* Writing the record does, and a mutation of its target's addresses does when
\* it is sent with updateSvcbHints=true.
Rehints(z, q, update, h, s) ==
    /\ ~Conflict(z, q)
    /\ \/ HTTPSRecord(h, s) \in Written(q)
       \/ update /\ q.rec.type \in AddressTypes /\ q.rec.host = TargetOf(h, s)

HintsAfter(z, hs, q, update) ==
    [p \in Hosts \X Specs |->
        IF HTTPSRecord(p[1], p[2]) \notin ZoneAfter(z, q) THEN {}
        ELSE IF Rehints(z, q, update, p[1], p[2])
          THEN Resolve(ZoneAfter(z, q), p[1], p[2])
          ELSE hs[p]]

\* An HTTPS record is found by priority, target and params, hints included.
Found(z, hs, q) ==
    /\ q.rec \in z
    /\ q.rec.type = "HTTPS" => hs[<<q.rec.host, q.rec.data>>] = q.hint

\* The answers on which the client goes on: the marker is there, the record
\* is added or was there already, the record to rewrite or delete is found.  An
\* addition is never refused for another reason: to the plugin that would be a
\* request that was lost and not carried out.
Accepted(z, hs, q) == q.verb = "add" \/ Found(z, hs, q)
=============================================================================
