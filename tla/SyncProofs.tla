----------------------------- MODULE SyncProofs -----------------------------
(***************************************************************************)
(* Proofs of what a cycle achieves: that our records keep their marker and *)
(* the plugin implements Ownership, that a cycle which reports success     *)
(* leaves the zone as desired and the automatic hints current, and that it *)
(* finds each HTTPS record by the params that the record has by then.      *)
(***************************************************************************)
EXTENDS OwnershipProofs

-----------------------------------------------------------------------------
(***************************************************************************)
(* The snapshot is the zone, as far as the cycle has not gone: at the      *)
(* hosts a loop has yet to visit, and while the desired hosts are ensured  *)
(* at those that are not desired, nothing was written since the zone was   *)
(* read.  The requests still to be sent are about none of these hosts.     *)
(***************************************************************************)
SeenAlike == \A r \in Records : Unseen(r.host) => (r \in zone <=> r \in snap)

ViewInv ==
    /\ phase \in Loops => SeenAlike /\ \A q \in Pending : ~Unseen(q.rec.host)
    /\ phase = "ensure" => todo \subseteq desired

\* A shaped request changes the zone at its own host only.
LEMMA ElsewhereSame ==
    ASSUME NEW z, NEW q, Shaped(q), NEW r, r.host # q.rec.host
    PROVE  r \in ZoneAfter(z, q) <=> r \in z
  BY DEF ZoneAfter, Removed, Written, Shaped

\* What is still at a host the snapshot shows.
LEMMA SeenRecords ==
    ASSUME TypeOK, SeenAlike, NEW h \in Hosts, Unseen(h)
    PROVE  /\ AIPs(zone, h) = AIPs(snap, h)
           /\ AAAAIPs(zone, h) = AAAAIPs(snap, h)
           /\ HTTPSSpecs(zone, h) = HTTPSSpecs(snap, h)
           /\ OwnedByUs(zone, h) <=> OwnedByUs(snap, h)
  <1>1. \A r : r.host = h => (r \in zone <=> r \in snap)
    BY DEF TypeOK, SeenAlike
  <1>2. OwnedByUs(zone, h) <=> OwnedByUs(snap, h)
    BY <1>1, RecordShapes DEF OwnedByUs
  <1>3. QED
    BY <1>1, <1>2 DEF AIPs, AAAAIPs, HTTPSSpecs

LEMMA EnsureAt ==
    ASSUME TypeOK, NEW h \in Hosts, EnsureHost(h) \/ RemoveHost(h)
    PROVE  \A q \in Pending' : q.rec.host = h
  <1>1. CASE EnsureHost(h)
    <2>1. PICK a, aaaa, https :
             Pending' = EnsureRequests(h, opts, snap, snapHints, a, aaaa, https)
      BY <1>1, EnsurePending
    <2>2. QED
      BY <2>1, PlansAt
  <1>2. CASE RemoveHost(h)
    <2>1. PICK a, aaaa, https :
             Pending' = RemoveRequests(h, HintOf(h, snapHints, https), a, aaaa, https)
      BY <1>2, RemovePending
    <2>2. QED
      BY <2>1, PlansAt
  <1>3. QED
    BY <1>1, <1>2

LEMMA SendsSeen ==
    ASSUME TypeOK, CycleInv, ShapeInv, ViewInv, Sends
    PROVE  \A r \in Records : Unseen(r.host) => (r \in zone' <=> r \in zone)
  <1>1. /\ Shaped(Head(reqs)) /\ ~Unseen(Head(reqs).rec.host)
        /\ zone' = ZoneAfter(zone, Head(reqs))
    BY SendsPlanned DEF ViewInv
  <1>2. QED
    BY <1>1, ElsewhereSame

LEMMA ViewInit == Init => ViewInv
  BY DEF Init, ViewInv, Loops

LEMMA ViewNext ==
    ASSUME Undisturbed, TypeOK, CycleInv, ShapeInv, ViewInv, [Next]_vars
    PROVE  ViewInv'
  <1>1. ASSUME UNCHANGED <<phase, snap, todo, desired>>,
               Pending' \subseteq Pending, Sends \/ Still
        PROVE  ViewInv'
    <2>1. phase \in Loops =>
             \A r \in Records : Unseen(r.host) => (r \in zone' <=> r \in zone)
      BY <1>1, SendsSeen DEF Still
    <2>2. QED
      BY <1>1, <2>1 DEF ViewInv, SeenAlike, Unseen
  <1>2. CASE Leaves
    BY <1>2 DEF Leaves, ViewInv, Loops
  <1>3. CASE ReadZone
    <2>1. Pending' = {}
      BY <1>3, NonePending DEF ReadZone, CycleInv, BetweenHosts, Pending
    <2>2. QED
      BY <1>3, <2>1 DEF ReadZone, ViewInv, SeenAlike, serverVars
  <1>4. ASSUME NEW h \in Hosts, SkipForeign(h)
        PROVE  ViewInv'
    <2>1. /\ phase = "ensure" /\ h \in todo /\ todo' = todo \ {h}
          /\ UNCHANGED <<phase, snap, zone, desired>> /\ Pending' = Pending
      BY <1>4 DEF SkipForeign, serverVars, Pending
    <2>2. QED
      BY <2>1 DEF ViewInv, SeenAlike, Unseen
  <1>5. ASSUME NEW h \in Hosts, EnsureHost(h) \/ RemoveHost(h)
        PROVE  ViewInv'
    <2>1. /\ phase \in Loops /\ h \in todo /\ todo' = todo \ {h}
          /\ UNCHANGED <<phase, snap, zone, desired>>
      BY <1>5 DEF EnsureHost, RemoveHost, serverVars, Loops
    <2>2. \A q \in Pending' : q.rec.host = h
      BY <1>5, EnsureAt
    <2>3. QED
      BY <2>1, <2>2 DEF ViewInv, SeenAlike, Unseen
  <1>6. CASE EnsureDone
    <2>1. /\ phase = "ensure" /\ UNCHANGED <<snap, zone, desired>>
          /\ phase' = "report" \/ (phase' = "remove" /\ todo' = Unwanted(snap, desired))
          /\ Pending' = {}
      BY <1>6, NonePending DEF EnsureDone, serverVars, Pending, BetweenHosts
    <2>2. QED
      BY <2>1 DEF ViewInv, SeenAlike, Unseen, Unwanted, Loops
  <1>7. CASE RemoveDone
    BY <1>7 DEF RemoveDone, ViewInv, Loops
  <1>8. CASE BeginCall
    BY <1>1, <1>8, BeginCallPending DEF BeginCall, Still, serverVars
  <1>9. CASE Answered
    BY <1>1, <1>9, AnsweredPending DEF Answered, Sends
  <1>10. CASE GivesUp
    BY <1>1, <1>10, GivenUpPending DEF GivesUp, loopVars
  <1>11. CASE Edits
    <2>1. CASE Still
      BY <1>1, <1>11, <2>1 DEF Edits, loopVars, Pending
    <2>2. CASE phase = "idle"
      BY <1>11, <2>2 DEF Edits, loopVars, ViewInv, Loops
    <2>3. QED
      BY <1>11, <2>1, <2>2 DEF Edits
  <1>12. QED
    BY <1>2, <1>3, <1>4, <1>5, <1>6, <1>7, <1>8, <1>9, <1>10, <1>11, KindsOfSteps

-----------------------------------------------------------------------------
(***************************************************************************)
(* The plugin's records are tidy: of each type at most one per host, the   *)
(* AAAA record with the one address that is ever configured.  So the       *)
(* record the code finds at [0] is the only one, an add never makes a      *)
(* second one, and a DeleteHost under way still has all it must take away  *)
(* before the marker.                                                      *)
(***************************************************************************)
Targets6 == {c.ip6 : c \in {d \in Configs : d.aaaa}}

Tidy(recs) ==
    /\ \A r, s \in recs :
          (r.host = s.host /\ r.type = s.type /\ r.type \in HostTypes) => r = s
    /\ \A r \in recs : r.type = "AAAA" => r.data \in Targets6

\* The world of the plugin: the others keep off its hosts and its markers, all
\* IPv6 addresses that are ever configured are the same, and what it finds of
\* an earlier life is tidy.
TidyWorld ==
    /\ OthersKeepOff
    /\ \A h \in Hosts : Marker(h) \notin AdminDeletes
    /\ \A c, d \in Configs : c.aaaa /\ d.aaaa => c.ip6 = d.ip6
    /\ \A z \in InitZones : Tidy({r \in z : OwnedByUs(z, r.host)})

\* What the first loop sends: it writes what is configured, adds no second
\* record, and deletes what is not configured.
Aimed(q) ==
    LET h == q.rec.host
    IN  IF q.verb = "delete"
          THEN \/ q.rec.type = "AAAA" /\ ~opts.aaaa
               \/ q.rec.type = "HTTPS" /\ ~opts.https
          ELSE \/ q.new = Marker(h) /\ q.verb # "update"
               \/ q.new = ARecord(h, opts.ip4) /\ q.verb # "check"
               \/ q.new = AAAARecord(h, opts.ip6) /\ opts.aaaa /\ q.verb # "check"
               \/ q.new = HTTPSRecord(h, opts.spec) /\ opts.https /\ q.verb # "check"

Alone(q) ==
    (q.verb = "add" /\ q.rec.type \in HostTypes)
        => \A r \in zone : (r.host = q.rec.host /\ r.type = q.rec.type) => r = q.rec

\* What the second loop sends: before a marker goes, so does all that is under it.
Covered(q) ==
    ~KeepsMarkers(q)
        => \A r \in zone : (r.host = q.rec.host /\ r.type \in HostTypes)
              => \E p \in Pending : p.verb = "delete" /\ p.rec = r

Clearing(q) ==
    q.verb \in {"check", "delete"} /\ q.rec.host \notin desired /\ Covered(q)

TidyInv ==
    /\ Tidy(made)
    /\ OwnRecordsMarked
    /\ phase = "ensure" => \A q \in Pending : Aimed(q) /\ Alone(q)
    /\ phase = "remove" =>
          /\ \A q \in Pending : Clearing(q)
          /\ calls = <<>> \/ (reqs = <<>> /\ Len(calls) = 1)
          /\ todo \cap desired = {}

\* At a host the cycle may write to, all there is is tidy.
LEMMA TidyHost ==
    ASSUME AdoptInv, TidyInv, NEW h \in Hosts, Clear(h)
    PROVE  /\ \A r, s \in zone :
                 (r.host = h /\ s.host = h /\ r.type = s.type /\ r.type \in HostTypes)
                    => r = s
           /\ \A r \in zone : (r.host = h /\ r.type = "AAAA") => r.data \in Targets6
  BY DEF Clear, TidyInv, Tidy, HostTypes

LEMMA TidyInit ==
    ASSUME TidyWorld, Init
    PROVE  TidyInv
  BY DEF Init, TidyInv, TidyWorld, OwnRecordsMarked

\* The record a request names, and all that has its host and type.
Same(q) == {r \in zone : r.host = q.rec.host /\ r.type = q.rec.type}

\* In the first loop, a request is about the only record of its type.
LEMMA AimedAtOne ==
    ASSUME TypeOK, MarkerInv, CycleInv, ShapeInv, AdoptInv, TidyInv, Sends,
           Head(reqs).rec.type \in HostTypes
    PROVE  LET q == Head(reqs)
           IN  /\ OwnedByUs(zone, q.rec.host)
               /\ \A r \in Same(q) : r \in made
               /\ q.verb \in {"update", "delete"} => Same(q) = {q.rec} /\ q.rec \in made
               /\ (q.verb = "add" /\ phase = "ensure") => Same(q) \subseteq {q.rec}
  <1> DEFINE q == Head(reqs)
  <1>1. /\ q \in Requests /\ q \in Pending /\ Shaped(q)
        /\ Accepted(zone, hints, q) /\ reqs # <<>>
    BY SendsPlanned DEF Sends
  <1>2. q.rec.host \in Hosts
    BY <1>1 DEF Requests, Records
  <1>3. OwnedByUs(zone, q.rec.host)
    BY <1>1, MarkerInvImplies DEF WriteUnderMarker
  <1>4. \A r \in Same(q) : r \in made
    BY <1>2, <1>3 DEF AdoptInv, Clear, Same
  <1>5. q.verb \in {"update", "delete"} => Same(q) = {q.rec} /\ q.rec \in made
    <2>1. SUFFICES ASSUME q.verb \in {"update", "delete"}
                   PROVE  Same(q) = {q.rec} /\ q.rec \in made
      OBVIOUS
    <2>2. q.rec \in Same(q)
      BY <1>1, <2>1 DEF Accepted, Found, Same
    <2>3. QED
      BY <1>4, <2>2 DEF TidyInv, Tidy, Same
  <1>6. (q.verb = "add" /\ phase = "ensure") => Same(q) \subseteq {q.rec}
    BY <1>1 DEF TidyInv, Alone, Same
  <1>7. QED
    BY <1>3, <1>4, <1>5, <1>6

\* What it writes follows from the type.
LEMMA AimedByType ==
    ASSUME NEW q, Aimed(q), Shaped(q), q.verb # "delete"
    PROVE  LET h == q.rec.host
           IN  /\ q.rec.type = "A" => q.new = ARecord(h, opts.ip4)
               /\ q.rec.type = "AAAA" => opts.aaaa /\ q.new = AAAARecord(h, opts.ip6)
               /\ q.rec.type = "HTTPS" => opts.https /\ q.new = HTTPSRecord(h, opts.spec)
               /\ q.rec.type \in HostTypes => q.verb # "check"
               /\ q.rec.type \in {"A", "AAAA", "HTTPS", "TXT"}
  <1> DEFINE h == q.rec.host
  <1>1. /\ Marker(h).type = "TXT" /\ ARecord(h, opts.ip4).type = "A"
        /\ AAAARecord(h, opts.ip6).type = "AAAA"
        /\ HTTPSRecord(h, opts.spec).type = "HTTPS"
    BY DEF Marker, MarkerRecord, ARecord, AAAARecord, HTTPSRecord
  <1>2. q.new.type = q.rec.type
    BY DEF Shaped
  <1>3. \/ q.new = Marker(h)
        \/ q.new = ARecord(h, opts.ip4) /\ q.verb # "check"
        \/ q.new = AAAARecord(h, opts.ip6) /\ opts.aaaa /\ q.verb # "check"
        \/ q.new = HTTPSRecord(h, opts.spec) /\ opts.https /\ q.verb # "check"
    BY DEF Aimed
  <1> HIDE DEF h
  <1>4. QED
    BY <1>1, <1>2, <1>3 DEF HostTypes, h

LEMMA MarkerGoesLast ==
    ASSUME TypeOK, MarkerInv, CycleInv, ShapeInv, TidyInv, Sends,
           ~KeepsMarkers(Head(reqs))
    PROVE  /\ \A r \in zone : r.host = Head(reqs).rec.host => r.type \notin HostTypes
           /\ Head(reqs).verb = "delete"
           /\ Head(reqs).rec = Marker(Head(reqs).rec.host)
  <1> DEFINE q == Head(reqs)
  <1>1. /\ q \in Pending /\ Shaped(q) /\ Proper(q) /\ phase \in Loops /\ reqs # <<>>
    BY SendsPlanned DEF Sends
  <1>2. phase = "remove"
    BY <1>1 DEF Proper, Loops
  <1>3. calls = <<>> /\ Clearing(q)
    BY <1>1, <1>2 DEF TidyInv
  <1>4. Len(reqs) = 1
    <2>1. reqs \in Seq(Requests) /\ Len(reqs) \in Nat \ {0} /\ q = reqs[1]
      BY <1>1 DEF TypeOK
    <2>2. ~(1 < Len(reqs))
      BY <2>1 DEF MarkerInv, Orderly
    <2> DEFINE n == Len(reqs)
    <2>3. n \in Nat /\ n # 0 /\ ~(1 < n)
      BY <2>1, <2>2
    <2> HIDE DEF n
    <2>4. n = 1
      BY <2>3
    <2>5. QED
      BY <2>4 DEF n
  <1>5. RequestsOf(reqs) = {q}
    BY <1>1, <1>4 DEF RequestsOf, TypeOK
  <1>6. Pending = {q}
    BY <1>3, <1>5, FewRequests DEF Pending
  <1>7. q.verb = "delete" /\ q.rec.type \notin HostTypes
    BY <1>3 DEF Clearing, KeepsMarkers
  <1>8. QED
    BY <1>1, <1>3, <1>6, <1>7 DEF Clearing, Covered, Shaped

\* A request of the plugin leaves its records tidy, and none without its marker.
LEMMA SendsTidy ==
    ASSUME TypeOK, MarkerInv, CycleInv, ShapeInv, AdoptInv, TidyInv, Sends
    PROVE  Tidy(made') /\ OwnRecordsMarked'
  <1> DEFINE q == Head(reqs)
  <1>1. /\ q \in Requests /\ q \in Pending /\ Shaped(q) /\ phase \in Loops
        /\ Accepted(zone, hints, q) /\ zone' = ZoneAfter(zone, q)
        /\ made' = (made \cap zone') \cup (zone' \ zone)
    BY SendsPlanned
  <1>2. made \subseteq zone /\ Tidy(made) /\ OwnRecordsMarked
    BY DEF AdoptInv, TidyInv
  <1>3. q.verb \in {"check", "add", "update", "delete"}
    BY <1>1 DEF Requests
  <1>4. CASE KeepsMarkers(q)
    <2>1. OwnRecordsMarked' <=>
            \A r \in made' : r.type \in HostTypes => OwnedByUs(zone', r.host)
      BY DEF OwnRecordsMarked
    <2>2. \A h : OwnedByUs(zone, h) => OwnedByUs(zone', h)
      BY <1>1, <1>4, MarkerStays DEF TypeOK
    <2>3. CASE made' \subseteq made
      BY <1>2, <2>1, <2>2, <2>3 DEF Tidy, OwnRecordsMarked
    <2>4. CASE q.verb \in {"check", "delete"}
      BY <1>1, <2>3, <2>4 DEF ZoneAfter, Written
    <2>5. CASE q.verb \in {"add", "update"} /\ q.rec.type \notin HostTypes
      <3>1. zone' = zone \cup {q.new} /\ q.new.type \notin HostTypes
        BY <1>1, <1>4, <2>5 DEF ZoneAfter, Removed, Written, KeepsMarkers, Shaped
      <3>2. made' \subseteq made \cup {q.new}
        BY <1>1, <3>1
      <3>3. QED
        BY <1>2, <2>1, <2>2, <3>1, <3>2 DEF Tidy, HostTypes, OwnRecordsMarked
    <2>6. CASE q.verb \in {"add", "update"} /\ q.rec.type \in HostTypes
      <3>1. phase = "ensure"
        BY <1>1, <2>6 DEF Loops, TidyInv, Clearing
      <3>2. /\ OwnedByUs(zone, q.rec.host)
            /\ q.verb = "update" => Same(q) = {q.rec}
            /\ q.verb = "add" => Same(q) \subseteq {q.rec}
        BY <2>6, <3>1, AimedAtOne
      <3>3. /\ made' \subseteq made \cup {q.new}
            /\ \A r \in made' : (r.host = q.rec.host /\ r.type = q.rec.type) => r = q.new
        BY <1>1, <1>2, <2>6, <3>2 DEF ZoneAfter, Removed, Written, Same, Shaped
      <3>4. Aimed(q)
        BY <1>1, <3>1 DEF TidyInv
      <3>5. q.new.type = "AAAA" => opts.aaaa /\ q.new.data = opts.ip6
        <4>1. q.rec.type = "AAAA" =>
                opts.aaaa /\ q.new = AAAARecord(q.rec.host, opts.ip6)
          BY <1>1, <2>6, <3>4, AimedByType
        <4>2. QED
          BY <1>1, <4>1 DEF Shaped, AAAARecord
      <3>6. q.new.type = "AAAA" => q.new.data \in Targets6
        BY <3>5 DEF Targets6, TypeOK
      <3>7. q.new.host = q.rec.host /\ q.new.type = q.rec.type
        BY <1>1 DEF Shaped
      <3>8. Tidy(made')
        BY <1>2, <3>3, <3>6, <3>7 DEF Tidy
      <3>9. OwnRecordsMarked'
        BY <1>2, <2>1, <2>2, <3>2, <3>3, <3>7 DEF OwnRecordsMarked
      <3>10. QED
        BY <3>8, <3>9
    <2>7. QED
      BY <1>3, <2>4, <2>5, <2>6
  <1>5. CASE ~KeepsMarkers(q)
    <2>1. /\ \A r \in zone : r.host = q.rec.host => r.type \notin HostTypes
          /\ q.verb = "delete" /\ q.rec = Marker(q.rec.host)
      BY <1>5, MarkerGoesLast
    <2>2. zone' = zone \ {q.rec} /\ made' = made \ {q.rec}
      BY <1>1, <1>2, <2>1 DEF ZoneAfter, Removed, Written
    <2>3. \A h : h # q.rec.host => Marker(h) # q.rec
      BY <2>1, RecordShapes
    <2>4. QED
      BY <1>2, <2>1, <2>2, <2>3 DEF Tidy, OwnRecordsMarked, OwnedByUs
  <1>6. QED
    BY <1>4, <1>5

\* Element [0] is one of the list, and absent only if the list is empty.
LEMMA FirstOf ==
    ASSUME NEW S, Blank \notin S, NEW x \in First(S)
    PROVE  (x = Blank <=> S = {}) /\ (x # Blank => x \in S)
  BY DEF First

\* The first loop's plan for a host.
LEMMA CreateAimed ==
    ASSUME NEW h, NEW ip6, NEW https,
           ip6 # Blank => opts.aaaa /\ ip6 = opts.ip6,
           https # Blank => opts.https /\ https = opts.spec
    PROVE  \A q \in CreateRequests(h, opts.ip4, ip6, https) :
             /\ Aimed(q)
             /\ q.verb = "add"
             /\ \/ q.rec = Marker(h)
                \/ q.rec = ARecord(h, opts.ip4)
                \/ q.rec = AAAARecord(h, opts.ip6) /\ opts.aaaa
                \/ q.rec = HTTPSRecord(h, opts.spec) /\ https # Blank
  <1>1. \A r : AddRecord(r).rec = r /\ AddRecord(r).new = r /\ AddRecord(r).verb = "add"
    BY DEF AddRecord, Request
  <1>2. Aimed(AddRecord(Marker(h))) /\ Aimed(AddRecord(ARecord(h, opts.ip4)))
    BY <1>1, RecordShapes DEF Aimed
  <1>3. opts.aaaa => Aimed(AddRecord(AAAARecord(h, opts.ip6)))
    BY <1>1, RecordShapes DEF Aimed
  <1>4. opts.https => Aimed(AddRecord(HTTPSRecord(h, opts.spec)))
    BY <1>1, RecordShapes DEF Aimed
  <1>5. QED
    BY <1>1, <1>2, <1>3, <1>4 DEF CreateRequests, Only

LEMMA RepairAimed ==
    ASSUME NEW h, NEW z, NEW hs, NEW a, NEW aaaa, NEW https
    PROVE  \A q \in RepairRequests(h, opts, z, hs, a, aaaa, https) :
             /\ Aimed(q)
             /\ q.verb = "add" =>
                  \/ q.rec = AAAARecord(h, opts.ip6) /\ opts.aaaa
                  \/ q.rec = HTTPSRecord(h, opts.spec) /\ https = Blank
  <1>1. \A r : AddRecord(r).rec = r /\ AddRecord(r).new = r /\ AddRecord(r).verb = "add"
    BY DEF AddRecord, Request
  <1>2. \A r, new, hint : /\ UpdateRecord(r, new, hint).rec = r
                          /\ UpdateRecord(r, new, hint).new = new
                          /\ UpdateRecord(r, new, hint).verb = "update"
    BY DEF UpdateRecord, Request
  <1>3. \A r, hint : DeleteRecord(r, hint).rec = r /\ DeleteRecord(r, hint).verb = "delete"
    BY DEF DeleteRecord, Request
  <1>4. /\ CheckOwnership(h).rec = Marker(h) /\ CheckOwnership(h).new = Marker(h)
        /\ CheckOwnership(h).verb = "check"
    BY DEF CheckOwnership, Request
  <1>5. Aimed(CheckOwnership(h))
    BY <1>4, RecordShapes DEF Aimed
  <1>6. \A x, hint : Aimed(UpdateRecord(ARecord(h, x), ARecord(h, opts.ip4), hint))
    BY <1>2, RecordShapes DEF Aimed
  <1>7. opts.aaaa =>
          /\ Aimed(AddRecord(AAAARecord(h, opts.ip6)))
          /\ \A x, hint :
               Aimed(UpdateRecord(AAAARecord(h, x), AAAARecord(h, opts.ip6), hint))
    BY <1>1, <1>2, RecordShapes DEF Aimed
  <1>8. opts.https =>
          /\ Aimed(AddRecord(HTTPSRecord(h, opts.spec)))
          /\ \A x, hint :
               Aimed(UpdateRecord(HTTPSRecord(h, x), HTTPSRecord(h, opts.spec), hint))
    <2>1. opts.https => Aimed(AddRecord(HTTPSRecord(h, opts.spec)))
      BY <1>1, RecordShapes DEF Aimed
    <2>2. ASSUME NEW x, NEW hint, opts.https
          PROVE  Aimed(UpdateRecord(HTTPSRecord(h, x), HTTPSRecord(h, opts.spec), hint))
      BY <1>2, <2>2, RecordShapes DEF Aimed
    <2>3. QED
      BY <2>1, <2>2
  <1>9. ~opts.aaaa => \A x, hint : Aimed(DeleteRecord(AAAARecord(h, x), hint))
    BY <1>3 DEF Aimed, AAAARecord
  <1>10. ~opts.https => \A x, hint : Aimed(DeleteRecord(HTTPSRecord(h, x), hint))
    BY <1>3 DEF Aimed, HTTPSRecord
  <1>11. QED
    BY <1>1, <1>2, <1>3, <1>4, <1>5, <1>6, <1>7, <1>8, <1>9, <1>10
    DEF RepairRequests, Only

LEMMA EnsureAimed ==
    ASSUME TypeOK, NEW h, NEW z, NEW hs, NEW a, NEW aaaa, NEW https
    PROVE  \A q \in EnsureRequests(h, opts, z, hs, a, aaaa, https) :
             /\ Aimed(q)
             /\ q.verb = "add" =>
                  \/ q.rec = Marker(h)
                  \/ q.rec = ARecord(h, opts.ip4) /\ a = Blank
                  \/ q.rec = AAAARecord(h, opts.ip6) /\ opts.aaaa
                  \/ q.rec = HTTPSRecord(h, opts.spec) /\ https = Blank
  <1> DEFINE v6  == IF opts.aaaa THEN opts.ip6 ELSE Blank
             svc == IF opts.https /\ https = Blank THEN opts.spec ELSE Blank
  <1>1. v6 # Blank => opts.aaaa /\ v6 = opts.ip6
    OBVIOUS
  <1>2. svc # Blank => opts.https /\ svc = opts.spec /\ https = Blank
    OBVIOUS
  <1>3. \A q \in EnsureRequests(h, opts, z, hs, a, aaaa, https) :
          \/ a = Blank /\ q \in CreateRequests(h, opts.ip4, v6, svc)
          \/ q \in RepairRequests(h, opts, z, hs, a, aaaa, https)
    BY DEF EnsureRequests
  <1> HIDE DEF v6, svc
  <1>4. QED
    BY <1>1, <1>2, <1>3, CreateAimed, RepairAimed

\* Nothing it plans to add would be a second record of its type.
LEMMA EnsureAlone ==
    ASSUME TidyWorld, TypeOK, AdoptInv, ViewInv, TidyInv,
           NEW h \in Hosts, EnsureHost(h)
    PROVE  \A q \in Pending' : Aimed(q) /\ Alone(q)
  <1>1. PICK a \in First(AIPs(snap, h)), aaaa \in First(AAAAIPs(snap, h)),
             https \in First(HTTPSSpecs(snap, h)) :
          Pending' = EnsureRequests(h, opts, snap, snapHints, a, aaaa, https)
    BY EnsurePending
  <1>2. phase = "ensure" /\ h \in todo /\ ~Foreign(snap, h)
    BY DEF EnsureHost
  <1>3. /\ AIPs(zone, h) = AIPs(snap, h)
        /\ HTTPSSpecs(zone, h) = HTTPSSpecs(snap, h)
    BY <1>2, SeenRecords DEF ViewInv, Loops, Unseen
  <1>4. Clear(h)
    BY <1>2 DEF AdoptInv, Loops
  <1>5. /\ a = Blank => AIPs(zone, h) = {}
        /\ https = Blank => HTTPSSpecs(zone, h) = {}
    BY <1>3, FirstOf, BlankAssumption, SnapshotTypes DEF TypeOK, Addresses
  <1>6. ASSUME NEW q \in Pending', q.verb = "add", q.rec.type \in HostTypes,
               NEW r \in zone, r.host = q.rec.host, r.type = q.rec.type
        PROVE  r = q.rec
    <2>1. \/ q.rec = Marker(h)
          \/ q.rec = ARecord(h, opts.ip4) /\ a = Blank
          \/ q.rec = AAAARecord(h, opts.ip6) /\ opts.aaaa
          \/ q.rec = HTTPSRecord(h, opts.spec) /\ https = Blank
      BY <1>1, <1>6, EnsureAimed
    <2>2. q.rec # Marker(h)
      BY <1>6 DEF Marker, MarkerRecord, HostTypes
    <2>3. ~(q.rec = ARecord(h, opts.ip4) /\ a = Blank)
      BY <1>5, <1>6 DEF ARecord, AIPs
    <2>4. ~(q.rec = HTTPSRecord(h, opts.spec) /\ https = Blank)
      BY <1>5, <1>6 DEF HTTPSRecord, HTTPSSpecs
    <2>5. q.rec = AAAARecord(h, opts.ip6) /\ opts.aaaa
      BY <2>1, <2>2, <2>3, <2>4
    <2>6. r.host = h /\ r.type = "AAAA" /\ r \in Records
      BY <1>6, <2>5 DEF AAAARecord, TypeOK
    <2>7. r.data \in Targets6
      BY <1>4, <2>6, TidyHost
    <2>8. r.data = opts.ip6
      BY <2>5, <2>7 DEF Targets6, TidyWorld, TypeOK
    <2>9. QED
      BY <2>5, <2>6, <2>8 DEF AAAARecord, Records
  <1>7. QED
    BY <1>1, <1>6, EnsureAimed DEF Alone

\* A record is what its type makes of its host and data.
LEMMA RecordForms ==
    \A r \in Records : /\ r.type = "A" => r = ARecord(r.host, r.data)
                       /\ r.type = "AAAA" => r = AAAARecord(r.host, r.data)
                       /\ r.type = "HTTPS" => r = HTTPSRecord(r.host, r.data)
  BY DEF Records, ARecord, AAAARecord, HTTPSRecord

\* What GetZoneState lists is in the zone.
LEMMA Listed ==
    ASSUME NEW z \in SUBSET Records, NEW h
    PROVE  \A x : /\ x \in AIPs(z, h) <=> ARecord(h, x) \in z
                  /\ x \in AAAAIPs(z, h) <=> AAAARecord(h, x) \in z
                  /\ x \in HTTPSSpecs(z, h) <=> HTTPSRecord(h, x) \in z
  <1>1. /\ \A x : ARecord(h, x) = [host |-> h, type |-> "A", data |-> x]
        /\ \A x : AAAARecord(h, x) = [host |-> h, type |-> "AAAA", data |-> x]
        /\ \A x : HTTPSRecord(h, x) = [host |-> h, type |-> "HTTPS", data |-> x]
    BY DEF ARecord, AAAARecord, HTTPSRecord
  <1>2. \A x : x \in AIPs(z, h) <=> ARecord(h, x) \in z
    BY <1>1, RecordForms DEF AIPs
  <1>3. \A x : x \in AAAAIPs(z, h) <=> AAAARecord(h, x) \in z
    BY <1>1, RecordForms DEF AAAAIPs
  <1>4. \A x : x \in HTTPSSpecs(z, h) <=> HTTPSRecord(h, x) \in z
    BY <1>1, RecordForms DEF HTTPSSpecs
  <1>5. QED
    BY <1>2, <1>3, <1>4

\* The second loop's plan for a host takes away all that is under its marker.
LEMMA RemoveClearing ==
    ASSUME TidyWorld, TypeOK, CycleInv, AdoptInv, ViewInv, TidyInv,
           NEW h \in Hosts, RemoveHost(h)
    PROVE  /\ \A q \in Pending' :
                /\ q.verb \in {"check", "delete"} /\ q.rec.host = h /\ h \notin desired
                /\ \A r \in zone : (r.host = h /\ r.type \in HostTypes)
                     => \E p \in Pending' : p.verb = "delete" /\ p.rec = r
           /\ \E q \in Pending' : q.verb = "delete" /\ q.rec = Marker(h)
  <1>1. PICK a \in First(AIPs(snap, h)), aaaa \in First(AAAAIPs(snap, h)),
             https \in First(HTTPSSpecs(snap, h)) :
          Pending' = RemoveRequests(h, HintOf(h, snapHints, https), a, aaaa, https)
    BY RemovePending
  <1>2. phase = "remove" /\ h \in todo /\ OwnedByUs(snap, h) /\ h \notin desired
    BY DEF RemoveHost, CycleInv, TidyInv
  <1>3. /\ AIPs(zone, h) = AIPs(snap, h)
        /\ AAAAIPs(zone, h) = AAAAIPs(snap, h)
        /\ HTTPSSpecs(zone, h) = HTTPSSpecs(snap, h)
    BY <1>2, SeenRecords DEF ViewInv, Loops, Unseen
  <1>4. Clear(h)
    BY <1>2 DEF AdoptInv, Loops, Foreign
  <1>5. /\ (a = Blank <=> AIPs(zone, h) = {}) /\ (a # Blank => a \in AIPs(zone, h))
        /\ aaaa = Blank <=> AAAAIPs(zone, h) = {}
        /\ aaaa # Blank => aaaa \in AAAAIPs(zone, h)
        /\ https = Blank <=> HTTPSSpecs(zone, h) = {}
        /\ https # Blank => https \in HTTPSSpecs(zone, h)
    BY <1>3, FirstOf, BlankAssumption, SnapshotTypes DEF TypeOK, Addresses
  <1>6. \A r, hint : DeleteRecord(r, hint).rec = r /\ DeleteRecord(r, hint).verb = "delete"
    BY DEF DeleteRecord, Request
  <1>7. ASSUME NEW r \in zone, r.host = h, r.type \in HostTypes
        PROVE  \E p \in Pending' : p.verb = "delete" /\ p.rec = r
    <2>1. r \in Records
      BY <1>7 DEF TypeOK
    <2>2. CASE r.type = "A"
      <3>1. a # Blank /\ ARecord(h, a) \in zone
        <4>1. r = ARecord(h, r.data)
          BY <1>7, <2>1, <2>2, RecordForms
        <4>2. AIPs(zone, h) # {}
          BY <1>7, <4>1, Listed DEF TypeOK
        <4>3. a # Blank /\ a \in AIPs(zone, h)
          BY <1>5, <4>2
        <4>4. QED
          BY <4>3, Listed DEF TypeOK
      <3>2. ARecord(h, a) = r
        BY <1>4, <1>7, <2>2, <3>1, TidyHost DEF ARecord
      <3>3. DeleteRecord(ARecord(h, a), {}) \in Pending'
        BY <1>1, <3>1 DEF RemoveRequests, Only
      <3>4. QED
        BY <1>6, <3>2, <3>3
    <2>3. CASE r.type = "AAAA"
      <3>1. aaaa # Blank /\ AAAARecord(h, aaaa) \in zone
        <4>1. r = AAAARecord(h, r.data)
          BY <1>7, <2>1, <2>3, RecordForms
        <4>2. AAAAIPs(zone, h) # {}
          BY <1>7, <4>1, Listed DEF TypeOK
        <4>3. aaaa # Blank /\ aaaa \in AAAAIPs(zone, h)
          BY <1>5, <4>2
        <4>4. QED
          BY <4>3, Listed DEF TypeOK
      <3>2. AAAARecord(h, aaaa) = r
        BY <1>4, <1>7, <2>3, <3>1, TidyHost DEF AAAARecord
      <3>3. DeleteRecord(AAAARecord(h, aaaa), {}) \in Pending'
        BY <1>1, <3>1 DEF RemoveRequests, Only
      <3>4. QED
        BY <1>6, <3>2, <3>3
    <2>4. CASE r.type = "HTTPS"
      <3>1. https # Blank /\ HTTPSRecord(h, https) \in zone
        <4>1. r = HTTPSRecord(h, r.data)
          BY <1>7, <2>1, <2>4, RecordForms
        <4>2. HTTPSSpecs(zone, h) # {}
          BY <1>7, <4>1, Listed DEF TypeOK
        <4>3. QED
          BY <1>5, <4>2, Listed DEF TypeOK
      <3>2. HTTPSRecord(h, https) = r
        BY <1>4, <1>7, <2>4, <3>1, TidyHost DEF HTTPSRecord
      <3>3. DeleteRecord(HTTPSRecord(h, https), HintOf(h, snapHints, https)) \in Pending'
        BY <1>1, <3>1 DEF RemoveRequests, Only
      <3>4. QED
        BY <1>6, <3>2, <3>3
    <2>5. QED
      BY <1>7, <2>2, <2>3, <2>4 DEF HostTypes
  <1>8. \A q \in Pending' : q.verb \in {"check", "delete"} /\ q.rec.host = h
    <2>1. \A q \in Pending' : q.rec.host = h
      BY EnsureAt
    <2>2. CheckOwnership(h).verb = "check"
      BY DEF CheckOwnership, Request
    <2>3. QED
      BY <1>1, <1>6, <2>1, <2>2 DEF RemoveRequests, Only
  <1>9. DeleteRecord(Marker(h), {}) \in Pending'
    BY <1>1 DEF RemoveRequests
  <1>10. QED
    BY <1>2, <1>6, <1>7, <1>8, <1>9

\* What is left to send stays on its way when a request is carried out.
LEMMA SendsAimed ==
    ASSUME TypeOK, CycleInv, ShapeInv, TidyInv, Sends, phase = "ensure",
           UNCHANGED opts
    PROVE  \A p \in Pending : Aimed(p)' /\ Alone(p)'
  <1> DEFINE q == Head(reqs)
  <1>1. /\ q \in Pending /\ Shaped(q) /\ zone' = ZoneAfter(zone, q)
    BY SendsPlanned
  <1>2. ASSUME NEW p \in Pending
        PROVE  Aimed(p)' /\ Alone(p)'
    <2>1. Aimed(p) /\ Alone(p) /\ Shaped(p) /\ Aimed(q)
      BY <1>1, <1>2 DEF TidyInv, ShapeInv
    <2>2. Aimed(p)'
      BY <2>1 DEF Aimed
    <2>3. ASSUME p.verb = "add", p.rec.type \in HostTypes,
                 NEW r \in zone', r.host = p.rec.host, r.type = p.rec.type
          PROVE  r = p.rec
      <3>1. CASE r \in zone
        BY <2>1, <2>3, <3>1 DEF Alone
      <3>2. CASE r \notin zone
        <4>1. r = q.new /\ q.verb # "delete"
          BY <1>1, <2>3, <3>2 DEF ZoneAfter, Written
        <4>2. q.rec.host = p.rec.host /\ q.rec.type = p.rec.type
          BY <1>1, <2>3, <4>1 DEF Shaped
        <4>3. q.new = p.new
          BY <1>1, <2>1, <2>3, <4>1, <4>2, AimedByType DEF HostTypes
        <4>4. QED
          BY <2>1, <2>3, <4>1, <4>3 DEF Shaped
      <3>3. QED
        BY <3>1, <3>2
    <2>4. QED
      BY <2>2, <2>3 DEF Alone
  <1>3. QED
    BY <1>2

LEMMA SendsClearing ==
    ASSUME TypeOK, CycleInv, ShapeInv, TidyInv, Sends, phase = "remove",
           Pending = {Head(reqs)} \cup Pending', UNCHANGED desired
    PROVE  \A p \in Pending' : Clearing(p)'
  <1> DEFINE q == Head(reqs)
  <1>1. Clearing(q) /\ zone' = ZoneAfter(zone, q)
    BY SendsPlanned DEF TidyInv
  <1>2. zone' = zone \ Removed(q)
    BY <1>1 DEF ZoneAfter, Written, Clearing
  <1>3. ASSUME NEW p \in Pending'
        PROVE  Clearing(p)'
    <2>1. Clearing(p)
      BY <1>3 DEF TidyInv
    <2>2. ASSUME ~KeepsMarkers(p), NEW r \in zone', r.host = p.rec.host,
                 r.type \in HostTypes
          PROVE  \E x \in Pending' : x.verb = "delete" /\ x.rec = r
      <3>1. PICK x \in Pending : x.verb = "delete" /\ x.rec = r
        BY <1>2, <2>1, <2>2 DEF Clearing, Covered
      <3>2. x # q
        BY <1>2, <2>2, <3>1 DEF Removed
      <3>3. QED
        BY <3>1, <3>2
    <2>3. QED
      BY <2>1, <2>2 DEF Clearing, Covered, KeepsMarkers
  <1>4. QED
    BY <1>3

\* Others' edits leave it as tidy as it was, and the markers where they are.
LEMMA EditsTidy ==
    ASSUME TidyWorld, TypeOK, TidyInv, EditsZone
    PROVE  Tidy(made') /\ OwnRecordsMarked'
  <1>1. PICK r \in Records : AdminAdd(r) \/ AdminDelete(r)
    BY DEF EditsZone
  <1>2. made' \subseteq made
    BY <1>1 DEF AdminAdd, AdminDelete, Administer
  <1>3. \A h \in Hosts : OwnedByUs(zone, h) => OwnedByUs(zone', h)
    <2>1. CASE AdminAdd(r)
      BY <2>1 DEF AdminAdd, Administer, ZoneAfter, Removed, AddRecord, Request,
                  OwnedByUs
    <2>2. CASE AdminDelete(r)
      BY <2>2 DEF AdminDelete, Administer, ZoneAfter, Removed, DeleteRecord,
                  Request, OwnedByUs, TidyWorld
    <2>3. QED
      BY <1>1, <2>1, <2>2
  <1>4. \A x \in made : x.host \in Hosts
    BY DEF TypeOK, Records
  <1>5. QED
    BY <1>2, <1>3, <1>4 DEF TidyInv, Tidy, OwnRecordsMarked

LEMMA TidyNext ==
    ASSUME TidyWorld, TypeOK, MarkerInv, CycleInv, ShapeInv, AdoptInv, ViewInv,
           TidyInv, [Next]_vars
    PROVE  TidyInv'
  <1>1. Sends \/ Still => Tidy(made') /\ OwnRecordsMarked'
    BY SendsTidy DEF Still, TidyInv, OwnRecordsMarked
  <1>2. CASE Leaves
    BY <1>1, <1>2 DEF Leaves, TidyInv, Loops
  <1>3. CASE ReadZone
    <2>1. Pending' = {} /\ Still /\ phase' = "ensure"
      BY <1>3, NonePending DEF ReadZone, CycleInv, BetweenHosts, Pending, Still, serverVars
    <2>2. QED
      BY <1>1, <2>1 DEF TidyInv
  <1>4. ASSUME NEW h \in Hosts, SkipForeign(h)
        PROVE  TidyInv'
    <2>1. Pending' = {} /\ Still /\ phase' = "ensure"
      BY <1>4, NonePending DEF SkipForeign, BetweenHosts, Pending, Still, serverVars
    <2>2. QED
      BY <1>1, <2>1 DEF TidyInv
  <1>5. ASSUME NEW h \in Hosts, EnsureHost(h)
        PROVE  TidyInv'
    <2>1. Still /\ phase' = "ensure" /\ UNCHANGED opts
      BY <1>5 DEF EnsureHost, Still, serverVars
    <2>2. \A q \in Pending' : Aimed(q) /\ Alone(q)
      BY <1>5, EnsureAlone
    <2>3. \A q \in Pending' : Aimed(q)' /\ Alone(q)'
      BY <2>1, <2>2 DEF Aimed, Alone, Still
    <2>4. QED
      BY <1>1, <2>1, <2>3 DEF TidyInv
  <1>6. CASE EnsureDone
    <2>1. /\ Still /\ Pending' = {} /\ calls' = <<>>
          /\ phase' = "report" \/ (phase' = "remove" /\ todo' \cap desired' = {})
      BY <1>6, NonePending DEF EnsureDone, BetweenHosts, Pending, Still, serverVars, Unwanted
    <2>2. QED
      BY <1>1, <2>1 DEF TidyInv
  <1>7. ASSUME NEW h \in Hosts, RemoveHost(h)
        PROVE  TidyInv'
    <2>1. /\ Still /\ phase = "remove" /\ phase' = "remove" /\ UNCHANGED desired
          /\ todo' \subseteq todo /\ reqs' = <<>> /\ Len(calls') = 1
      BY <1>7 DEF RemoveHost, BetweenHosts, Still, serverVars
    <2>2. \A q \in Pending' : Clearing(q)'
      BY <1>7, <2>1, RemoveClearing DEF Clearing, Covered, Still
    <2>3. QED
      BY <1>1, <2>1, <2>2 DEF TidyInv
  <1>8. CASE RemoveDone
    BY <1>1, <1>8 DEF RemoveDone, TidyInv, Still, serverVars
  <1>9. CASE BeginCall
    <2>1. /\ Still /\ Pending' = Pending /\ UNCHANGED <<phase, opts, desired, todo>>
          /\ reqs = <<>> /\ calls # <<>> /\ calls' = Tail(calls)
      BY <1>9, BeginCallPending DEF BeginCall, Still, serverVars
    <2>2. phase = "remove" => calls' = <<>>
      BY <2>1, CallsTail DEF TidyInv, TypeOK
    <2>3. \A q : Aimed(q)' <=> Aimed(q)
      BY <2>1 DEF Aimed
    <2>4. \A q : (Alone(q)' <=> Alone(q)) /\ (Clearing(q)' <=> Clearing(q))
      BY <2>1 DEF Alone, Clearing, Covered, Still
    <2>5. QED
      BY <1>1, <2>1, <2>2, <2>3, <2>4 DEF TidyInv
  <1>10. CASE Answered
    <2>1. /\ Sends /\ Pending = {Head(reqs)} \cup Pending' /\ reqs # <<>>
          /\ UNCHANGED <<phase, opts, desired, todo, calls>>
      BY <1>10, AnsweredPending DEF Answered, Sends
    <2>2. phase = "ensure" => \A q \in Pending' : Aimed(q)' /\ Alone(q)'
      BY <2>1, SendsAimed
    <2>3. phase = "remove" => \A q \in Pending' : Clearing(q)'
      BY <2>1, SendsClearing
    <2>4. QED
      BY <1>1, <2>1, <2>2, <2>3 DEF TidyInv
  <1>11. CASE GivesUp
    <2>1. /\ Sends \/ Still
          /\ Pending' \subseteq Pending /\ reqs # <<>>
          /\ UNCHANGED <<phase, opts, desired, todo, calls>>
      BY <1>11, GivenUpPending DEF GivesUp, loopVars
    <2>2. phase = "remove" => calls = <<>> /\ Pending' = {}
      BY <1>11, <2>1, GivenUpPending, FewRequests DEF GivesUp, TidyInv
    <2>3. phase = "ensure" => \A q \in Pending' : Aimed(q)' /\ Alone(q)'
      <3>1. CASE Sends
        BY <2>1, <3>1, SendsAimed
      <3>2. CASE Still
        BY <2>1, <3>2 DEF TidyInv, Aimed, Alone, Still
      <3>3. QED
        BY <2>1, <3>1, <3>2
    <2>4. QED
      BY <1>1, <2>1, <2>2, <2>3 DEF TidyInv
  <1>12. CASE Edits
    <2>1. /\ UNCHANGED <<phase, opts, desired, todo, calls, reqs>> /\ Pending' = Pending
      BY <1>12 DEF Edits, loopVars, Pending
    <2>2. CASE Still
      <3>1. \A q : Aimed(q)' <=> Aimed(q)
        BY <2>1 DEF Aimed
      <3>2. \A q : (Alone(q)' <=> Alone(q)) /\ (Clearing(q)' <=> Clearing(q))
        BY <2>1, <2>2 DEF Alone, Clearing, Covered, Still
      <3>3. QED
        BY <1>1, <2>1, <2>2, <3>1, <3>2 DEF TidyInv
    <2>3. CASE phase = "idle" /\ EditsZone
      BY <2>1, <2>3, EditsTidy DEF TidyInv
    <2>4. QED
      BY <1>12, <2>2, <2>3 DEF Edits
  <1>13. QED
    BY <1>2, <1>3, <1>4, <1>5, <1>6, <1>7, <1>8, <1>9, <1>10, <1>11, <1>12,
       KindsOfSteps DEF TidyWorld, OthersKeepOff

\* The invariant of the plugin's own records, and of what is under way.
ReconcileInv ==
    TypeOK /\ MarkerInv /\ CycleInv /\ ShapeInv /\ AdoptInv /\ ViewInv /\ TidyInv

LEMMA ReconcileInvariant ==
    ASSUME TidyWorld
    PROVE  Spec => []ReconcileInv
  <1>1. Init => ReconcileInv
    BY TypeInit, MarkerInit, CycleInit, ShapeInit, AdoptInit, ViewInit, TidyInit
    DEF ReconcileInv
  <1>2. ReconcileInv /\ [Next]_vars => ReconcileInv'
    <2>1. SUFFICES ASSUME ReconcileInv, [Next]_vars
                   PROVE  ReconcileInv'
      OBVIOUS
    <2>2. OthersKeepOff /\ Undisturbed /\ MarkersHeld /\ LateRequests = "never"
      BY UndisturbedMarkers DEF TidyWorld, OthersKeepOff, Undisturbed
    <2>3. TypeOK' /\ MarkerInv' /\ CycleInv' /\ ShapeInv'
      BY <2>1, <2>2, TypeNext, MarkerNext, CycleNext, ShapeNext DEF ReconcileInv
    <2>4. AdoptInv' /\ ViewInv' /\ TidyInv'
      BY <2>1, <2>2, AdoptNext, ViewNext, TidyNext DEF ReconcileInv
    <2>5. QED
      BY <2>3, <2>4 DEF ReconcileInv
  <1>3. QED
    BY <1>1, <1>2, PTL DEF Spec

\* Nothing the plugin wrote is ever left without its marker: through every lost
\* request, crash and partial failure of CreateHost and DeleteHost, whatever the
\* others do at other hosts, and however the configuration changes but for the
\* IPv6 address.
THEOREM OwnRecordsStayMarked ==
    ASSUME TidyWorld
    PROVE  Spec => []OwnRecordsMarked
  <1>1. ReconcileInv => OwnRecordsMarked
    BY DEF ReconcileInv, TidyInv
  <1>2. QED
    BY <1>1, ReconcileInvariant, PTL

-----------------------------------------------------------------------------
(***************************************************************************)
(* The plugin as Ownership describes it: each of its requests claims a     *)
(* host, writes at one or gives one up, as far as it changes anything.     *)
(***************************************************************************)
Marked == {h \in Hosts : OwnedByUs(zone, h)}
Ours   == {r \in made : r.type \in HostTypes}
Others == {r \in zone \ made : r.type \in HostTypes}

\* Nothing has changed in the eyes of Ownership.
Unmoved == Marked' = Marked /\ Ours' = Ours /\ Others' = Others

LEMMA OwnedStep ==
    ASSUME \/ Unmoved
           \/ \E h \in Hosts : Owned!Claim(h) \/ Owned!Write(h) \/ Owned!GiveUp(h)
           \/ \E r \in Records : /\ r.type \in HostTypes
                                 /\ Owned!OthersAdd(r) \/ Owned!OthersDelete(r)
    PROVE  [Owned!Next]_(Owned!vars)
  BY DEF Unmoved, Marked, Ours, Others, Owned!Next, Owned!Plugin, Owned!vars

LEMMA OwnedInit == Init => Owned!Init
  <1> SUFFICES ASSUME Init
               PROVE  Owned!Init
    OBVIOUS
  <1>1. zone \in SUBSET Records
    BY TypeInit DEF TypeOK
  <1>2. made = {r \in zone : OwnedByUs(zone, r.host)}
    BY DEF Init
  <1>3. QED
    BY <1>1, <1>2 DEF Owned!Init, Owned!At

\* A request of the plugin is a step of Ownership.
LEMMA SendsOwned ==
    ASSUME ReconcileInv, Sends
    PROVE  \/ Unmoved
           \/ \E h \in Hosts : Owned!Claim(h) \/ Owned!Write(h) \/ Owned!GiveUp(h)
  <1> DEFINE q == Head(reqs)
             h == q.rec.host
  <1>1. TypeOK /\ MarkerInv /\ CycleInv /\ ShapeInv /\ AdoptInv /\ TidyInv
    BY DEF ReconcileInv
  <1>2. /\ q \in Requests /\ Shaped(q) /\ Accepted(zone, hints, q) /\ reqs # <<>>
        /\ zone' = ZoneAfter(zone, q)
        /\ made' = (made \cap zone') \cup (zone' \ zone)
    BY <1>1, SendsPlanned DEF Sends
  <1>3. /\ h \in Hosts /\ q.new.host = h /\ q.new.type = q.rec.type
        /\ zone \in SUBSET Records /\ made \subseteq zone /\ zone' \in SUBSET Records
    <2>1. zone' \in SUBSET Records
      BY <1>1, <1>2, ZoneAfterType DEF TypeOK
    <2>2. QED
      BY <1>1, <1>2, <2>1 DEF TypeOK, Requests, Records, Shaped, AdoptInv
  <1>4. Others' = Others
    <2>1. zone \ made \subseteq zone'
      BY <1>1, TakesOurs
    <2>2. QED
      BY <1>2, <2>1 DEF Others
  <1>5. \A r : r \in zone' /\ r \notin zone => r = q.new
    BY <1>2 DEF ZoneAfter, Written
  <1>6. \A r : r \in zone /\ r \notin zone' => r = q.rec
    BY <1>2 DEF ZoneAfter, Removed
  <1> HIDE DEF q, h
  <1>7. CASE q.rec.type \in HostTypes
    <2>1. h \in Marked
      BY <1>1, <1>2, <1>3, <1>7, MarkerInvImplies DEF WriteUnderMarker, Marked, q, h
    <2>2. Marked' = Marked
      <3>1. \A g : Marker(g).type \notin HostTypes
        BY DEF Marker, MarkerRecord, HostTypes
      <3>2. QED
        BY <1>3, <1>5, <1>6, <1>7, <3>1 DEF Marked, OwnedByUs
    <2>3. Owned!Off(Ours', h) = Owned!Off(Ours, h)
      BY <1>2, <1>3, <1>5, <1>6 DEF Owned!Off, Owned!At, Ours, h
    <2>4. Ours' \subseteq {r \in Records : r.type \in HostTypes}
      BY <1>2, <1>3 DEF Ours
    <2>5. PICK g \in Hosts : g = h
      BY <1>3
    <2>6. Owned!Write(g)
      BY <1>4, <2>1, <2>2, <2>3, <2>4, <2>5 DEF Owned!Write, Marked, Ours, Others
    <2>7. QED
      BY <2>6
  <1>8. CASE q.rec.type \notin HostTypes
    <2>1. q.rec = Marker(h) /\ q.new.type \notin HostTypes
      BY <1>2, <1>3, <1>8 DEF Shaped, h
    <2>2. Ours' = Ours
      BY <1>2, <1>3, <1>5, <1>6, <1>8, <2>1 DEF Ours
    <2>3. CASE ~KeepsMarkers(q)
      <3>1. /\ \A r \in zone : r.host = h => r.type \notin HostTypes
            /\ q.verb = "delete"
        BY <1>1, <2>3, MarkerGoesLast DEF q, h
      <3>2. zone' = zone \ {Marker(h)} /\ Marker(h) \in zone
        BY <1>2, <2>1, <3>1 DEF ZoneAfter, Removed, Written, Accepted, Found
      <3>3. h \in Marked /\ Marked' = Marked \ {h}
        BY <1>3, <3>2, RecordShapes DEF Marked, OwnedByUs
      <3>4. Owned!At(Ours, h) = {}
        BY <1>3, <3>1 DEF Owned!At, Ours
      <3>5. Owned!GiveUp(h)
        BY <1>4, <2>2, <3>3, <3>4 DEF Owned!GiveUp, Marked, Ours, Others
      <3>6. QED
        BY <1>3, <3>5
    <2>4. CASE KeepsMarkers(q) /\ zone' # zone
      <3>1. q.verb = "add" /\ zone' = zone \cup {Marker(h)} /\ Marker(h) \notin zone
        BY <1>2, <1>8, <2>1, <2>4
        DEF KeepsMarkers, ZoneAfter, Removed, Written, Requests, Shaped
      <3>2. h \notin Marked /\ Marked' = Marked \cup {h}
        BY <1>3, <3>1, RecordShapes DEF Marked, OwnedByUs
      <3>3. Owned!At(Others, h) = {}
        <4>1. Clear(h)
          BY <1>1, <1>3, <3>1, <3>2, MarksFree DEF Marked, OwnedByUs
        <4>2. QED
          BY <4>1 DEF Clear, Owned!At, Others
      <3>4. Owned!Claim(h)
        BY <1>4, <2>2, <3>2, <3>3 DEF Owned!Claim, Marked, Ours, Others
      <3>5. QED
        BY <1>3, <3>4
    <2>5. CASE zone' = zone
      BY <1>4, <2>2, <2>5 DEF Unmoved, Marked
    <2>6. QED
      BY <2>3, <2>4, <2>5
  <1>9. QED
    BY <1>7, <1>8

\* So is an edit of somebody else's.
LEMMA EditsOwned ==
    ASSUME TidyWorld, ReconcileInv, EditsZone
    PROVE  \/ Unmoved
           \/ \E r \in Records : /\ r.type \in HostTypes
                                 /\ Owned!OthersAdd(r) \/ Owned!OthersDelete(r)
  <1>1. PICK r \in Records : AdminAdd(r) \/ AdminDelete(r)
    BY DEF EditsZone
  <1>2. /\ made' = made \cap zone' /\ made \subseteq zone
        /\ r.host \in Hosts
    BY <1>1 DEF AdminAdd, AdminDelete, Administer, ReconcileInv, AdoptInv, Records
  <1>3. \A g : Marker(g).type \notin HostTypes
    BY DEF Marker, MarkerRecord, HostTypes
  <1>4. CASE AdminAdd(r)
    <2>1. /\ zone' = zone \cup {r} /\ made' = made
          /\ r \in AdminAdds \ zone /\ ~OwnedByUs(zone, r.host)
      BY <1>2, <1>4 DEF AdminAdd, Administer, ZoneAfter, Removed, Written,
                        AddRecord, Request, TidyWorld, OthersKeepOff
    <2>2. Marked' = Marked
      BY <2>1 DEF Marked, OwnedByUs, TidyWorld, OthersKeepOff
    <2>3. Ours' = Ours
      BY <2>1 DEF Ours
    <2>4. r.host \notin Marked
      BY <2>1 DEF Marked
    <2>5. CASE r.type \in HostTypes
      <3>1. Others' = Others \cup {r}
        BY <1>2, <2>1, <2>5 DEF Others
      <3>2. Owned!OthersAdd(r)
        BY <2>2, <2>3, <2>4, <3>1 DEF Owned!OthersAdd, Marked, Ours, Others
      <3>3. QED
        BY <2>5, <3>2
    <2>6. CASE r.type \notin HostTypes
      <3>1. Others' = Others
        BY <2>1, <2>6 DEF Others
      <3>2. QED
        BY <2>2, <2>3, <3>1 DEF Unmoved
    <2>7. QED
      BY <2>5, <2>6
  <1>5. CASE AdminDelete(r)
    <2>1. /\ zone' = zone \ {r} /\ made' = made \ {r}
          /\ r \in AdminDeletes \cap zone
      BY <1>2, <1>5 DEF AdminDelete, Administer, ZoneAfter, Removed, Written,
                        DeleteRecord, Request
    <2>2. Marked' = Marked
      BY <2>1 DEF Marked, OwnedByUs, TidyWorld
    <2>3. Ours' = Ours \ {r} /\ Others' = Others \ {r}
      BY <2>1 DEF Ours, Others
    <2>4. CASE r.type \in HostTypes
      <3>1. Owned!OthersDelete(r)
        BY <2>2, <2>3 DEF Owned!OthersDelete, Marked, Ours, Others
      <3>2. QED
        BY <2>4, <3>1
    <2>5. CASE r.type \notin HostTypes
      BY <2>2, <2>3, <2>5 DEF Unmoved, Ours, Others
    <2>6. QED
      BY <2>4, <2>5
  <1>6. QED
    BY <1>1, <1>4, <1>5

\* The plugin keeps what its markers promise the others: whatever it sends, it
\* claims only hosts where nobody has a record, writes only records of its own
\* under its marker, and gives a host up only when it has left nothing there.
THEOREM KeepsOwnership ==
    ASSUME TidyWorld
    PROVE  Spec => ImplementsOwnership
  <1>1. ReconcileInv /\ [Next]_vars => [Owned!Next]_(Owned!vars)
    <2>1. SUFFICES ASSUME ReconcileInv, [Next]_vars
                   PROVE  [Owned!Next]_(Owned!vars)
      OBVIOUS
    <2>2. Sends \/ Still \/ EditsZone
      BY <2>1, ZoneSteps DEF ReconcileInv, TidyWorld, OthersKeepOff
    <2>3. Still => Unmoved
      BY DEF Still, Unmoved, Marked, Ours, Others
    <2>4. QED
      BY <2>1, <2>2, <2>3, SendsOwned, EditsOwned, OwnedStep
  <1>2. QED
    BY <1>1, OwnedInit, ReconcileInvariant, PTL
    DEF Spec, ImplementsOwnership, Owned!Spec

-----------------------------------------------------------------------------
(***************************************************************************)
(* As long as nothing failed, every wanted host the first loop has been at *)
(* is as configured, type by type, or a request that makes it so is still  *)
(* to be sent; and a host of ours that is not wanted is still to be        *)
(* removed.                                                                *)
(***************************************************************************)
Due(h, type) ==
    \E q \in Pending : q.verb # "check" /\ q.rec.host = h /\ q.rec.type = type

RightA(h)     == AIPs(zone, h) = {opts.ip4}
RightAAAA(h)  == AAAAIPs(zone, h) = (IF opts.aaaa THEN {opts.ip6} ELSE {})
RightHTTPS(h) == HTTPSSpecs(zone, h) = (IF opts.https THEN {opts.spec} ELSE {})

\* A host CreateHost repairs: what it already has besides is left as it is.
Repaired(h) == AIPs(snap, h) = {} /\ OwnedByUs(snap, h)

Way(h) ==
    /\ RightA(h) \/ Due(h, "A")
    /\ \/ Repaired(h)
       \/ /\ RightAAAA(h) \/ Due(h, "AAAA")
          /\ RightHTTPS(h) \/ Due(h, "HTTPS")

Kept(h) == h \in desired \cup todo \/ Due(h, "TXT")

SyncInv ==
    (errors = {} /\ phase \in {"ensure", "remove", "report"}) =>
        /\ \A h \in desired \ (skipped \cup todo) : Way(h)
        /\ phase = "report" => todo = {} /\ BetweenHosts
        /\ (phase # "ensure" /\ ~skipDeletes) =>
              \A h \in Hosts : OwnedByUs(zone, h) => Kept(h)

LEMMA NothingDue == Pending = {} => \A h, type : ~Due(h, type)
  BY DEF Due

\* With nothing left to send, every host is in sync that the loop has been at.
LEMMA SyncInvImplies == TypeOK /\ SyncInv => SuccessMeansSynced
  <1> SUFFICES ASSUME TypeOK, SyncInv, phase = "report", errors = {}
               PROVE  /\ \A h \in desired \ skipped :
                            \/ InSync(h)
                            \/ AIPs(snap, h) = {} /\ OwnedByUs(snap, h)
                                 /\ AIPs(zone, h) = {opts.ip4}
                      /\ ~skipDeletes => \A h \in Hosts : OwnedByUs(zone, h) => h \in desired
    BY DEF SuccessMeansSynced
  <1>1. /\ \A h \in desired \ (skipped \cup todo) : Way(h)
        /\ todo = {} /\ BetweenHosts
        /\ ~skipDeletes => \A h \in Hosts : OwnedByUs(zone, h) => Kept(h)
    BY DEF SyncInv
  <1>2. \A h, type : ~Due(h, type)
    BY <1>1, NonePending, NothingDue DEF BetweenHosts
  <1>3. \A h \in desired \ skipped : InSync(h) \/ (Repaired(h) /\ RightA(h))
    BY <1>1, <1>2 DEF Way, InSync, RightA, RightAAAA, RightHTTPS
  <1>4. ~skipDeletes => \A h \in Hosts : OwnedByUs(zone, h) => h \in desired
    BY <1>1, <1>2 DEF Kept
  <1>5. QED
    BY <1>3, <1>4 DEF Repaired, RightA

\* A request of the first loop leaves its record type as configured.
LEMMA SendsRight ==
    ASSUME TidyWorld, ReconcileInv, Sends, phase = "ensure", Head(reqs).verb # "check",
           UNCHANGED opts, NEW h \in Hosts, h = Head(reqs).rec.host
    PROVE  /\ Head(reqs).rec.type = "A" => RightA(h)'
           /\ Head(reqs).rec.type = "AAAA" => RightAAAA(h)'
           /\ Head(reqs).rec.type = "HTTPS" => RightHTTPS(h)'
  <1> DEFINE q == Head(reqs)
  <1>1. /\ q \in Requests /\ q \in Pending /\ Shaped(q)
        /\ zone' = ZoneAfter(zone, q) /\ zone' \in SUBSET Records
    BY SendsPlanned, ZoneAfterType DEF ReconcileInv, TypeOK
  <1>2. Aimed(q) /\ q.verb \in {"add", "update", "delete"}
    BY <1>1 DEF ReconcileInv, TidyInv, Requests
  <1>3. SUFFICES ASSUME q.rec.type \in HostTypes
                 PROVE  /\ q.rec.type = "A" => RightA(h)'
                        /\ q.rec.type = "AAAA" => RightAAAA(h)'
                        /\ q.rec.type = "HTTPS" => RightHTTPS(h)'
    BY DEF HostTypes
  <1>4. /\ q.verb \in {"update", "delete"} => Same(q) = {q.rec}
        /\ q.verb = "add" => Same(q) \subseteq {q.rec}
    BY <1>2, <1>3, AimedAtOne DEF ReconcileInv
  <1>5. \A r : (r \in zone' /\ r.host = h /\ r.type = q.rec.type)
                  <=> (q.verb # "delete" /\ r = q.new)
    BY <1>1, <1>2, <1>4 DEF ZoneAfter, Removed, Written, Same, Shaped
  <1>6. /\ (q.rec.type = "A" /\ q.verb # "delete") => q.new = ARecord(h, opts.ip4)
        /\ (q.rec.type = "AAAA" /\ q.verb # "delete") =>
              opts.aaaa /\ q.new = AAAARecord(h, opts.ip6)
        /\ (q.rec.type = "HTTPS" /\ q.verb # "delete") =>
              opts.https /\ q.new = HTTPSRecord(h, opts.spec)
    BY <1>1, <1>2, AimedByType
  <1>7. /\ q.rec.type = "A" => q.verb # "delete"
        /\ (q.rec.type = "AAAA" /\ q.verb = "delete") => ~opts.aaaa
        /\ (q.rec.type = "HTTPS" /\ q.verb = "delete") => ~opts.https
    BY <1>2 DEF Aimed
  <1>8. CASE q.rec.type = "A"
    BY <1>5, <1>6, <1>7, <1>8 DEF RightA, AIPs, ARecord
  <1>9. CASE q.rec.type = "AAAA"
    BY <1>5, <1>6, <1>7, <1>9 DEF RightAAAA, AAAAIPs, AAAARecord
  <1>10. CASE q.rec.type = "HTTPS"
    BY <1>5, <1>6, <1>7, <1>10 DEF RightHTTPS, HTTPSSpecs, HTTPSRecord
  <1>11. QED
    BY <1>3, <1>8, <1>9, <1>10 DEF HostTypes

\* The plan for a host leaves nothing out that is not as configured.
LEMMA EnsureWay ==
    ASSUME ReconcileInv, NEW h \in Hosts, EnsureHost(h)
    PROVE  Way(h)'
  <1>1. PICK a \in First(AIPs(snap, h)), aaaa \in First(AAAAIPs(snap, h)),
             https \in First(HTTPSSpecs(snap, h)) :
          Pending' = EnsureRequests(h, opts, snap, snapHints, a, aaaa, https)
    BY EnsurePending DEF ReconcileInv
  <1>2. /\ phase = "ensure" /\ h \in todo /\ ~Foreign(snap, h)
        /\ UNCHANGED <<zone, snap, opts>>
    BY DEF EnsureHost, serverVars
  <1>3. /\ AIPs(zone, h) = AIPs(snap, h)
        /\ AAAAIPs(zone, h) = AAAAIPs(snap, h)
        /\ HTTPSSpecs(zone, h) = HTTPSSpecs(snap, h)
    BY <1>2, SeenRecords DEF ReconcileInv, ViewInv, Loops, Unseen
  <1>4. /\ a = Blank <=> AIPs(snap, h) = {}
        /\ aaaa = Blank <=> AAAAIPs(snap, h) = {}
        /\ https = Blank <=> HTTPSSpecs(snap, h) = {}
        /\ https # Blank => https \in HTTPSSpecs(snap, h)
    BY FirstOf, BlankAssumption, SnapshotTypes DEF ReconcileInv, TypeOK, Addresses
  <1>5. /\ opts.aaaa => opts.ip6 # Blank
        /\ opts.spec # Blank
        /\ opts.aaaa \in BOOLEAN /\ opts.https \in BOOLEAN
    BY ConfigsAssumption, BlankAssumption DEF ReconcileInv, TypeOK, ConfigType
  <1>6. ASSUME NEW type, NEW q \in Pending', q.verb # "check", q.rec.type = type
        PROVE  Due(h, type)'
    BY <1>6, EnsureAt DEF Due, ReconcileInv
  <1>7. /\ \A r : AddRecord(r).rec = r /\ AddRecord(r).verb # "check"
        /\ \A r, new, hint : /\ UpdateRecord(r, new, hint).rec = r
                             /\ UpdateRecord(r, new, hint).verb # "check"
        /\ \A r, hint : DeleteRecord(r, hint).rec = r /\ DeleteRecord(r, hint).verb # "check"
        /\ \A x : /\ ARecord(h, x).type = "A" /\ AAAARecord(h, x).type = "AAAA"
                  /\ HTTPSRecord(h, x).type = "HTTPS"
    BY DEF AddRecord, UpdateRecord, DeleteRecord, Request, ARecord, AAAARecord,
           HTTPSRecord
  <1>8. CASE a = Blank
    <2> DEFINE v6  == IF opts.aaaa THEN opts.ip6 ELSE Blank
               svc == IF opts.https /\ https = Blank THEN opts.spec ELSE Blank
    <2>1. Pending' = CreateRequests(h, opts.ip4, v6, svc)
      BY <1>1, <1>8 DEF EnsureRequests
    <2>2. opts.aaaa => v6 = opts.ip6 /\ v6 # Blank
      BY <1>5
    <2>3. (opts.https /\ https = Blank) => svc = opts.spec /\ svc # Blank
      BY <1>5
    <2> HIDE DEF v6, svc
    <2>4. Due(h, "A")'
      BY <1>6, <1>7, <2>1 DEF CreateRequests
    <2>5. opts.aaaa => Due(h, "AAAA")'
      BY <1>6, <1>7, <2>1, <2>2 DEF CreateRequests, Only
    <2>6. (opts.https /\ https = Blank) => Due(h, "HTTPS")'
      BY <1>6, <1>7, <2>1, <2>3 DEF CreateRequests, Only
    <2>7. CASE OwnedByUs(snap, h)
      BY <1>2, <1>4, <1>8, <2>4, <2>7 DEF Way, Repaired
    <2>8. CASE ~OwnedByUs(snap, h)
      <3>1. AAAAIPs(zone, h) = {} /\ HTTPSSpecs(zone, h) = {}
        BY <1>2, <1>3, <2>8 DEF Foreign
      <3>2. RightAAAA(h)' \/ Due(h, "AAAA")'
        BY <1>2, <2>5, <3>1 DEF RightAAAA
      <3>3. RightHTTPS(h)' \/ Due(h, "HTTPS")'
        BY <1>2, <1>3, <1>4, <2>6, <3>1 DEF RightHTTPS
      <3>4. QED
        BY <2>4, <3>2, <3>3 DEF Way
    <2>9. QED
      BY <2>7, <2>8
  <1>9. CASE a # Blank
    <2>1. Pending' = RepairRequests(h, opts, snap, snapHints, a, aaaa, https)
      BY <1>1, <1>9 DEF EnsureRequests
    <2>2. RightA(h)' \/ Due(h, "A")'
      <3>1. CASE NeedsUpdate(AIPs(snap, h), opts.ip4)
        <4>1. UpdateRecord(ARecord(h, a), ARecord(h, opts.ip4), {}) \in Pending'
          BY <2>1, <3>1 DEF RepairRequests, Only
        <4>2. QED
          BY <1>6, <1>7, <4>1
      <3>2. CASE ~NeedsUpdate(AIPs(snap, h), opts.ip4)
        BY <1>2, <1>3, <3>2 DEF NeedsUpdate, RightA
      <3>3. QED
        BY <3>1, <3>2
    <2>3. RightAAAA(h)' \/ Due(h, "AAAA")'
      <3>1. CASE opts.aaaa /\ aaaa = Blank
        <4>1. AddRecord(AAAARecord(h, opts.ip6)) \in Pending'
          BY <2>1, <3>1 DEF RepairRequests, Only
        <4>2. QED
          BY <1>6, <1>7, <4>1
      <3>2. CASE opts.aaaa /\ aaaa # Blank /\ NeedsUpdate(AAAAIPs(snap, h), opts.ip6)
        <4>1. UpdateRecord(AAAARecord(h, aaaa), AAAARecord(h, opts.ip6), {}) \in Pending'
          BY <2>1, <3>2 DEF RepairRequests, Only
        <4>2. QED
          BY <1>6, <1>7, <4>1
      <3>3. CASE opts.aaaa /\ aaaa # Blank /\ ~NeedsUpdate(AAAAIPs(snap, h), opts.ip6)
        BY <1>2, <1>3, <3>3 DEF NeedsUpdate, RightAAAA
      <3>4. CASE ~opts.aaaa /\ aaaa # Blank
        <4>1. DeleteRecord(AAAARecord(h, aaaa), {}) \in Pending'
          BY <2>1, <3>4 DEF RepairRequests, Only
        <4>2. QED
          BY <1>6, <1>7, <4>1
      <3>5. CASE ~opts.aaaa /\ aaaa = Blank
        BY <1>2, <1>3, <1>4, <3>5 DEF RightAAAA
      <3>6. QED
        BY <3>1, <3>2, <3>3, <3>4, <3>5
    <2>4. RightHTTPS(h)' \/ Due(h, "HTTPS")'
      <3>1. CASE opts.https /\ https = Blank
        <4>1. AddRecord(HTTPSRecord(h, opts.spec)) \in Pending'
          BY <2>1, <3>1 DEF RepairRequests, Only
        <4>2. QED
          BY <1>6, <1>7, <4>1
      <3>2. CASE opts.https /\ https # Blank /\ https # opts.spec
        <4>1. UpdateRecord(HTTPSRecord(h, https), HTTPSRecord(h, opts.spec),
                           snapHints[<<h, https>>]) \in Pending'
          BY <2>1, <3>2 DEF RepairRequests, Only
        <4>2. QED
          BY <1>6, <1>7, <4>1
      <3>3. CASE opts.https /\ https = opts.spec
        <4>1. opts.spec \in HTTPSSpecs(zone, h)
          BY <1>3, <1>4, <1>5, <3>3
        <4>2. ASSUME NEW x \in HTTPSSpecs(zone, h), NEW y \in HTTPSSpecs(zone, h)
              PROVE  x = y
          <5>1. HTTPSRecord(h, x) \in zone /\ HTTPSRecord(h, y) \in zone
            BY <4>2, Listed DEF ReconcileInv, TypeOK
          <5>2. HTTPSRecord(h, x) = HTTPSRecord(h, y)
            <6>1. Clear(h)
              BY <1>2 DEF ReconcileInv, AdoptInv, Loops
            <6>2. QED
              BY <5>1, <6>1, TidyHost DEF ReconcileInv, HTTPSRecord, HostTypes
          <5>3. QED
            BY <5>2 DEF HTTPSRecord
        <4>3. HTTPSSpecs(zone, h) = {opts.spec}
          BY <4>1, <4>2
        <4>4. QED
          BY <1>2, <3>3, <4>3 DEF RightHTTPS
      <3>4. CASE ~opts.https /\ https # Blank
        <4>1. DeleteRecord(HTTPSRecord(h, https), snapHints[<<h, https>>]) \in Pending'
          BY <2>1, <3>4 DEF RepairRequests, Only
        <4>2. QED
          BY <1>6, <1>7, <4>1
      <3>5. CASE ~opts.https /\ https = Blank
        BY <1>2, <1>3, <1>4, <3>5 DEF RightHTTPS
      <3>6. QED
        BY <3>1, <3>2, <3>3, <3>4, <3>5
    <2>5. QED
      BY <2>2, <2>3, <2>4 DEF Way
  <1>10. QED
    BY <1>8, <1>9

\* A request changes nothing at other hosts, and nothing of other types.
LEMMA OtherwiseSame ==
    ASSUME NEW z \in SUBSET Records, NEW q, Shaped(q), NEW h
    PROVE  LET other(type) ==
                 q.verb = "check" \/ q.rec.host # h \/ q.rec.type # type
           IN  /\ other("A") => AIPs(ZoneAfter(z, q), h) = AIPs(z, h)
               /\ other("AAAA") => AAAAIPs(ZoneAfter(z, q), h) = AAAAIPs(z, h)
               /\ other("HTTPS") => HTTPSSpecs(ZoneAfter(z, q), h) = HTTPSSpecs(z, h)
  <1> DEFINE other(type) == q.verb = "check" \/ q.rec.host # h \/ q.rec.type # type
  <1>1. ASSUME NEW type, other(type)
        PROVE  {r \in ZoneAfter(z, q) : r.host = h /\ r.type = type}
                 = {r \in z : r.host = h /\ r.type = type}
    BY <1>1 DEF ZoneAfter, Removed, Written, Shaped
  <1> HIDE DEF other
  <1>2. other("A") => AIPs(ZoneAfter(z, q), h) = AIPs(z, h)
    BY <1>1 DEF AIPs
  <1>3. other("AAAA") => AAAAIPs(ZoneAfter(z, q), h) = AAAAIPs(z, h)
    BY <1>1 DEF AAAAIPs
  <1>4. other("HTTPS") => HTTPSSpecs(ZoneAfter(z, q), h) = HTTPSSpecs(z, h)
    BY <1>1 DEF HTTPSSpecs
  <1>5. QED
    BY <1>2, <1>3, <1>4 DEF other

LEMMA StillWay ==
    ASSUME UNCHANGED <<zone, opts, snap>>, Pending \subseteq Pending', NEW h, Way(h)
    PROVE  Way(h)'
  <1>1. \A type : Due(h, type) => Due(h, type)'
    BY DEF Due
  <1>2. QED
    BY <1>1 DEF Way, RightA, RightAAAA, RightHTTPS, Repaired

LEMMA SendsWay ==
    ASSUME TidyWorld, ReconcileInv, Sends, phase \in Loops, UNCHANGED <<opts, snap>>,
           Pending = {Head(reqs)} \cup Pending', NEW h \in desired, Way(h)
    PROVE  Way(h)'
  <1> DEFINE q == Head(reqs)
  <1>1. /\ q \in Pending /\ Shaped(q) /\ zone' = ZoneAfter(zone, q)
    BY SendsPlanned DEF ReconcileInv
  <1>2. h \in Hosts /\ zone \in SUBSET Records
    BY DEF ReconcileInv, TypeOK
  <1> DEFINE hits(type) == q.verb # "check" /\ q.rec.host = h /\ q.rec.type = type
  <1>3. \A type : Due(h, type) => Due(h, type)' \/ hits(type)
    BY DEF Due
  <1>4. ASSUME NEW type, hits(type)
        PROVE  phase = "ensure"
    BY <1>1, <1>4 DEF ReconcileInv, TidyInv, Clearing, Loops
  <1>5. /\ hits("A") => RightA(h)'
        /\ hits("AAAA") => RightAAAA(h)'
        /\ hits("HTTPS") => RightHTTPS(h)'
    BY <1>2, <1>4, SendsRight
  <1>6. /\ ~hits("A") => AIPs(zone', h) = AIPs(zone, h)
        /\ ~hits("AAAA") => AAAAIPs(zone', h) = AAAAIPs(zone, h)
        /\ ~hits("HTTPS") => HTTPSSpecs(zone', h) = HTTPSSpecs(zone, h)
    BY <1>1, <1>2, OtherwiseSame
  <1> HIDE DEF hits
  <1>7. RightA(h) \/ Due(h, "A") => RightA(h)' \/ Due(h, "A")'
    BY <1>3, <1>5, <1>6 DEF RightA
  <1>8. RightAAAA(h) \/ Due(h, "AAAA") => RightAAAA(h)' \/ Due(h, "AAAA")'
    BY <1>3, <1>5, <1>6 DEF RightAAAA
  <1>9. RightHTTPS(h) \/ Due(h, "HTTPS") => RightHTTPS(h)' \/ Due(h, "HTTPS")'
    BY <1>3, <1>5, <1>6 DEF RightHTTPS
  <1>10. Repaired(h) => Repaired(h)'
    BY DEF Repaired
  <1>11. QED
    BY <1>7, <1>8, <1>9, <1>10 DEF Way

LEMMA SendsKept ==
    ASSUME ReconcileInv, Sends, phase = "remove", UNCHANGED <<desired, todo>>,
           Pending = {Head(reqs)} \cup Pending',
           NEW h \in Hosts, OwnedByUs(zone, h) => Kept(h), OwnedByUs(zone', h)
    PROVE  Kept(h)'
  <1> DEFINE q == Head(reqs)
  <1>1. /\ q \in Pending /\ Shaped(q) /\ zone' = ZoneAfter(zone, q)
    BY SendsPlanned DEF ReconcileInv
  <1>2. q.verb \in {"check", "delete"}
    BY <1>1 DEF ReconcileInv, TidyInv, Clearing
  <1>3. zone' = zone \ Removed(q)
    BY <1>1, <1>2 DEF ZoneAfter, Written
  <1>4. Kept(h)
    BY <1>3 DEF OwnedByUs
  <1>5. CASE h \in desired \cup todo
    BY <1>5 DEF Kept
  <1>6. CASE Due(h, "TXT")
    <2>1. PICK p \in Pending : p.verb # "check" /\ p.rec.host = h /\ p.rec.type = "TXT"
      BY <1>6 DEF Due
    <2>2. p # q
      BY <1>1, <1>2, <1>3, <2>1 DEF Removed, Shaped, HostTypes, OwnedByUs
    <2>3. QED
      BY <2>1, <2>2 DEF Kept, Due
  <1>7. QED
    BY <1>4, <1>5, <1>6 DEF Kept

LEMMA SyncInit == Init => SyncInv
  BY DEF Init, SyncInv

LEMMA SyncNext ==
    ASSUME TidyWorld, ReconcileInv, SyncInv, [Next]_vars
    PROVE  SyncInv'
  <1> DEFINE visited == \A h \in desired \ (skipped \cup todo) : Way(h)
             kept    == \A h \in Hosts : OwnedByUs(zone, h) => Kept(h)
  <1>1. ASSUME errors' # {}
        PROVE  SyncInv'
    BY <1>1 DEF SyncInv
  <1>2. ASSUME phase' \notin {"ensure", "remove", "report"}
        PROVE  SyncInv'
    BY <1>2 DEF SyncInv
  <1>3. CASE Leaves
    BY <1>1, <1>2, <1>3 DEF Leaves, Loops
  <1>4. CASE GivesUp
    BY <1>1, <1>4 DEF GivesUp
  <1>5. CASE ReadZone
    BY <1>5 DEF ReadZone, SyncInv
  <1>6. ASSUME NEW h \in Hosts, SkipForeign(h)
        PROVE  SyncInv'
    <2>1. /\ UNCHANGED <<zone, opts, snap, desired, errors, phase>>
          /\ phase = "ensure" /\ Pending' = Pending
          /\ desired \ (skipped' \cup todo') \subseteq desired \ (skipped \cup todo)
      BY <1>6 DEF SkipForeign, serverVars, Pending
    <2>2. errors = {} => visited'
      BY <2>1, StillWay DEF SyncInv
    <2>3. QED
      BY <2>1, <2>2 DEF SyncInv
  <1>7. ASSUME NEW h \in Hosts, EnsureHost(h)
        PROVE  SyncInv'
    <2>1. /\ UNCHANGED <<zone, opts, snap, desired, errors, phase, skipped>>
          /\ phase = "ensure" /\ todo' = todo \ {h} /\ BetweenHosts
      BY <1>7 DEF EnsureHost, serverVars
    <2>2. Pending \subseteq Pending'
      BY <2>1, NonePending DEF BetweenHosts
    <2>3. Way(h)'
      BY <1>7, EnsureWay
    <2>4. errors = {} => visited'
      BY <2>1, <2>2, <2>3, StillWay DEF SyncInv
    <2>5. QED
      BY <2>1, <2>4 DEF SyncInv
  <1>8. CASE EnsureDone
    <2>1. /\ UNCHANGED <<zone, opts, snap, desired, errors, skipped, calls, reqs, skipDeletes>>
          /\ phase = "ensure" /\ todo = {} /\ BetweenHosts /\ Pending' = Pending
          /\ \/ phase' = "report" /\ skipDeletes /\ todo' = {}
             \/ phase' = "remove" /\ todo' = Unwanted(snap, desired)
      BY <1>8 DEF EnsureDone, serverVars, Pending
    <2>2. errors = {} => visited'
      BY <2>1, StillWay DEF SyncInv
    <2>3. ASSUME phase' = "remove", NEW h \in Hosts, OwnedByUs(zone', h)
          PROVE  Kept(h)'
      <3>1. CASE h \in desired
        BY <2>1, <3>1 DEF Kept
      <3>2. CASE h \notin desired
        <4>1. OwnedByUs(snap, h)
          BY <2>1, <2>3, <3>2, SeenRecords DEF ReconcileInv, ViewInv, Loops, Unseen
        <4>2. QED
          BY <2>1, <2>3, <3>2, <4>1 DEF Unwanted, Kept
      <3>3. QED
        BY <3>1, <3>2
    <2>4. QED
      BY <2>1, <2>2, <2>3 DEF SyncInv, BetweenHosts
  <1>9. ASSUME NEW h \in Hosts, RemoveHost(h)
        PROVE  SyncInv'
    <2>1. /\ UNCHANGED <<zone, opts, snap, desired, errors, phase, skipped, skipDeletes>>
          /\ phase = "remove" /\ todo' = todo \ {h} /\ h \in todo /\ BetweenHosts
      BY <1>9 DEF RemoveHost, serverVars
    <2>2. Pending = {}
      BY <2>1, NonePending DEF BetweenHosts
    <2>3. desired \ (skipped' \cup todo') = desired \ (skipped \cup todo)
      BY <2>1 DEF ReconcileInv, TidyInv
    <2>4. errors = {} => visited'
      BY <2>1, <2>2, <2>3, StillWay DEF SyncInv
    <2>5. Kept(h)'
      <3>1. PICK q \in Pending' : q.verb = "delete" /\ q.rec = Marker(h)
        BY <1>9, RemoveClearing DEF ReconcileInv
      <3>2. QED
        BY <3>1 DEF Kept, Due, Marker, MarkerRecord
    <2>6. (errors = {} /\ ~skipDeletes) => kept'
      BY <2>1, <2>2, <2>5, NothingDue DEF SyncInv, Kept
    <2>7. QED
      BY <2>1, <2>4, <2>6 DEF SyncInv
  <1>10. CASE RemoveDone
    <2>1. /\ UNCHANGED <<zone, opts, snap, desired, errors, skipped, todo, calls, reqs, skipDeletes>>
          /\ phase = "remove" /\ todo = {} /\ BetweenHosts /\ Pending' = Pending
          /\ phase' = "report"
      BY <1>10 DEF RemoveDone, serverVars, Pending
    <2>2. errors = {} => visited'
      BY <2>1, StillWay DEF SyncInv
    <2>3. \A h : Kept(h) => Kept(h)'
      BY <2>1 DEF Kept, Due
    <2>4. QED
      BY <2>1, <2>2, <2>3 DEF SyncInv, BetweenHosts
  <1>11. ASSUME UNCHANGED <<zone, opts, snap, desired, errors, phase, skipped, todo, skipDeletes>>,
                Pending' = Pending, BetweenHosts => BetweenHosts'
         PROVE  SyncInv'
    <2>1. \A h : Way(h) => Way(h)'
      BY <1>11, StillWay
    <2>2. \A h : Kept(h) => Kept(h)'
      BY <1>11 DEF Kept, Due
    <2>3. QED
      BY <1>11, <2>1, <2>2 DEF SyncInv
  <1>12. CASE BeginCall
    BY <1>11, <1>12, BeginCallPending
    DEF BeginCall, serverVars, ReconcileInv, BetweenHosts
  <1>13. CASE Answered
    <2>1. /\ UNCHANGED <<opts, snap, desired, errors, phase, skipped, todo, skipDeletes>>
          /\ Sends /\ phase \in Loops /\ Pending = {Head(reqs)} \cup Pending'
      BY <1>13, AnsweredPending, SendsPlanned DEF Answered, Sends, ReconcileInv
    <2>2. errors = {} => visited'
      BY <2>1, SendsWay DEF SyncInv, Loops
    <2>3. (errors = {} /\ phase = "remove" /\ ~skipDeletes) => kept'
      BY <2>1, SendsKept DEF SyncInv
    <2>4. QED
      BY <2>1, <2>2, <2>3 DEF SyncInv, Loops
  <1>14. CASE Edits
    <2>1. CASE Still
      BY <1>11, <1>14, <2>1 DEF Edits, Still, loopVars, Pending, BetweenHosts
    <2>2. CASE phase = "idle"
      BY <1>2, <1>14, <2>2 DEF Edits, loopVars
    <2>3. QED
      BY <1>14, <2>1, <2>2 DEF Edits
  <1>15. QED
    BY <1>3, <1>4, <1>5, <1>6, <1>7, <1>8, <1>9, <1>10, <1>12, <1>13, <1>14,
       KindsOfSteps DEF TidyWorld, OthersKeepOff, ReconcileInv

\* The status shows success for a cycle only if the cycle did its work: each
\* wanted host is as configured, but for what CreateHost leaves to the next
\* cycle, and unless the breaker forbade it no other host of ours is left.
THEOREM SuccessIsSync ==
    ASSUME TidyWorld
    PROVE  Spec => []SuccessMeansSynced
  <1>1. ReconcileInv /\ SyncInv /\ [Next]_vars => SyncInv'
    BY SyncNext
  <1>2. ReconcileInv => TypeOK
    BY DEF ReconcileInv
  <1>3. QED
    BY <1>1, <1>2, SyncInit, SyncInvImplies, ReconcileInvariant, PTL DEF Spec

-----------------------------------------------------------------------------
(***************************************************************************)
(* An HTTPS record is named by its hints when it is updated or deleted.    *)
(* Such a request comes first in the plan of its host, with nothing before *)
(* it but the check of the marker; and the hints of hosts the loops have   *)
(* yet to visit are those of the snapshot, as long as an HTTPS record      *)
(* resolves its hints from its own host.                                   *)
(***************************************************************************)
HintsWorld ==
    /\ Undisturbed
    /\ \A h \in Hosts, s \in Specs : TargetOf(h, s) = h

Identity(q) == q.rec.type = "HTTPS" /\ q.verb \in {"update", "delete"}
Passive(q)  == q.verb = "check" /\ q.rec.type = "TXT"

Harmless(S) == \A q \in S : ~Identity(q)

Quiet(s) ==
    \A i, j \in 1..Len(s) : (Identity(s[i]) /\ j < i) => Passive(s[j])

Early(cs) ==
    cs # <<>> => Quiet(Head(cs)) /\ Harmless(RequestsIn(Tail(cs)))

FreshInv ==
    /\ Quiet(reqs)
    /\ Early(calls)
    /\ reqs # <<>> => Harmless(RequestsIn(calls))
    /\ \A q \in Pending : Identity(q) => Found(zone, hints, q)
    /\ phase \in Loops =>
         \A h \in Hosts, s \in Specs :
            (Unseen(h) /\ HTTPSRecord(h, s) \in zone)
               => hints[<<h, s>>] = snapHints[<<h, s>>]

LEMMA FreshInvImplies ==
    ASSUME TypeOK, FreshInv
    PROVE  HTTPSIdentityFresh
  BY HeadPending DEF FreshInv, HTTPSIdentityFresh, Identity

LEMMA QuietTail ==
    ASSUME NEW s \in Seq(Requests), s # <<>>, Quiet(s)
    PROVE  /\ Quiet(Tail(s))
           /\ Passive(Head(s)) \/ Harmless(RequestsOf(Tail(s)))
  <1>1. /\ Len(s) \in Nat /\ Len(Tail(s)) = Len(s) - 1 /\ Head(s) = s[1]
        /\ \A i \in 1..Len(s) - 1 : Tail(s)[i] = s[i + 1]
    OBVIOUS
  <1>2. ASSUME NEW i \in 1..Len(s) - 1, NEW j \in 1..Len(s) - 1,
               Identity(s[i + 1]), j < i
        PROVE  Passive(s[j + 1])
    <2>1. i + 1 \in 1..Len(s) /\ j + 1 \in 1..Len(s) /\ j + 1 < i + 1
      BY <1>1, <1>2
    <2>2. QED
      BY <1>2, <2>1 DEF Quiet
  <1>3. Quiet(Tail(s))
    BY <1>1, <1>2 DEF Quiet
  <1>4. ASSUME NEW i \in 1..Len(s) - 1, Identity(s[i + 1])
        PROVE  Passive(s[1])
    <2>1. i + 1 \in 1..Len(s) /\ 1 \in 1..Len(s) /\ 1 < i + 1
      BY <1>1, <1>4
    <2>2. QED
      BY <1>4, <2>1 DEF Quiet
  <1>5. Passive(Head(s)) \/ Harmless(RequestsOf(Tail(s)))
    BY <1>1, <1>4 DEF Harmless, RequestsOf
  <1>6. QED
    BY <1>3, <1>5

LEMMA HarmlessQuiet ==
    ASSUME NEW s, Harmless(RequestsOf(s))
    PROVE  Quiet(s)
  BY DEF Harmless, RequestsOf, Quiet

LEMMA QuietConcat ==
    ASSUME NEW s \in Seq(Requests), NEW t \in Seq(Requests), Quiet(s),
           Harmless(RequestsOf(t))
    PROVE  Quiet(s \o t)
  <1> DEFINE u == s \o t
             m == Len(s)
             n == Len(t)
  <1>1. /\ u \in Seq(Requests) /\ Len(u) = m + n /\ m \in Nat /\ n \in Nat
        /\ \A i \in 1..m : u[i] = s[i]
        /\ \A i \in 1..n : u[m + i] = t[i]
    OBVIOUS
  <1> HIDE DEF u, m, n
  <1>2. ASSUME NEW i \in 1..m + n, NEW j \in 1..m + n, Identity(u[i]), j < i
        PROVE  Passive(u[j])
    <2>1. i \in 1..m
      <3>1. SUFFICES ASSUME i \notin 1..m
                     PROVE  FALSE
        OBVIOUS
      <3> DEFINE k == i - m
      <3>2. k \in 1..n /\ i = m + k
        BY <1>1, <3>1
      <3> HIDE DEF k
      <3>3. u[i] = t[k]
        BY <1>1, <3>2
      <3>4. QED
        BY <1>2, <3>2, <3>3 DEF Harmless, RequestsOf, n
    <2>2. j \in 1..m
      BY <1>1, <1>2, <2>1
    <2>3. QED
      BY <1>1, <1>2, <2>1, <2>2 DEF Quiet, m
  <1>3. Quiet(u)
    BY <1>1, <1>2 DEF Quiet
  <1>4. QED
    BY <1>3 DEF u

LEMMA HarmlessEarly ==
    ASSUME NEW cs \in Seq(Seq(Requests)), Harmless(RequestsIn(cs))
    PROVE  Early(cs)
  <1>1. SUFFICES ASSUME cs # <<>>
                 PROVE  Quiet(Head(cs)) /\ Harmless(RequestsIn(Tail(cs)))
    BY DEF Early
  <1>2. RequestsIn(cs) = RequestsOf(Head(cs)) \cup RequestsIn(Tail(cs))
    BY <1>1, RequestsInTail
  <1>3. QED
    BY <1>2, HarmlessQuiet DEF Harmless

LEMMA EarlyConcat ==
    ASSUME NEW cs \in Seq(Seq(Requests)), NEW ds \in Seq(Seq(Requests)), Early(cs),
           Harmless(RequestsIn(ds))
    PROVE  cs \o ds \in Seq(Seq(Requests)) /\ Early(cs \o ds)
  <1>1. cs \o ds \in Seq(Seq(Requests))
    BY ConcatType
  <1>2. CASE cs = <<>>
    <2>1. cs \o ds = ds
      BY <1>2
    <2>2. QED
      BY <1>1, <2>1, HarmlessEarly
  <1>3. CASE cs # <<>>
    <2>1. /\ cs \o ds # <<>> /\ Head(cs \o ds) = Head(cs)
          /\ Tail(cs \o ds) = Tail(cs) \o ds /\ Tail(cs) \in Seq(Seq(Requests))
      BY <1>3
    <2>2. RequestsIn(Tail(cs) \o ds) = RequestsIn(Tail(cs)) \cup RequestsIn(ds)
      BY <2>1, CallsConcat
    <2>3. QED
      BY <1>1, <1>3, <2>1, <2>2 DEF Early, Harmless
  <1>4. QED
    BY <1>2, <1>3

\* What names an HTTPS record by its hints, of the single requests.
LEMMA RequestsIdentify ==
    ASSUME NEW h
    PROVE  /\ ~Identity(CheckOwnership(h)) /\ Passive(CheckOwnership(h))
           /\ \A r : ~Identity(AddRecord(r))
           /\ ~Identity(DeleteRecord(Marker(h), {}))
           /\ \A x, y, hint :
                 /\ ~Identity(UpdateRecord(ARecord(h, x), y, hint))
                 /\ ~Identity(UpdateRecord(AAAARecord(h, x), y, hint))
                 /\ UpdateRecord(HTTPSRecord(h, x), y, hint).rec = HTTPSRecord(h, x)
                 /\ UpdateRecord(HTTPSRecord(h, x), y, hint).hint = hint
           /\ \A x, hint :
                 /\ ~Identity(DeleteRecord(ARecord(h, x), hint))
                 /\ ~Identity(DeleteRecord(AAAARecord(h, x), hint))
                 /\ DeleteRecord(HTTPSRecord(h, x), hint).rec = HTTPSRecord(h, x)
                 /\ DeleteRecord(HTTPSRecord(h, x), hint).hint = hint
  BY DEF Identity, Passive, CheckOwnership, AddRecord, UpdateRecord, DeleteRecord,
         Request, Marker, MarkerRecord, ARecord, AAAARecord, HTTPSRecord

LEMMA CheckedQuiet ==
    ASSUME NEW c, NEW q, Passive(c)
    PROVE  Quiet(<<c, q>>)
  BY DEF Quiet, Passive, Identity

LEMMA OpenedQuiet ==
    ASSUME NEW c \in Requests, NEW t \in Seq(Requests), Len(t) \in {0, 1}, Passive(c)
    PROVE  Quiet(<<c>> \o t)
  <1> DEFINE u == <<c>> \o t
  <1>1. Len(u) = 1 + Len(t) /\ u[1] = c
    OBVIOUS
  <1> HIDE DEF u
  <1>2. \A i, j \in 1..Len(u) : j < i => j = 1
    BY <1>1
  <1>3. QED
    BY <1>1, <1>2 DEF Quiet, u

LEMMA CreateHarmless ==
    ASSUME NEW h, NEW ip4, NEW ip6, NEW https
    PROVE  Harmless(CreateRequests(h, ip4, ip6, https))
  BY RequestsIdentify DEF Harmless, CreateRequests, Only

\* The plan of the first loop.
LEMMA RepairEarly ==
    ASSUME NEW h \in Hosts, NEW o \in Configs, NEW z \in SUBSET Records,
           NEW hs \in [Hosts \X Specs -> SUBSET Addresses],
           NEW a \in IPv4s, NEW aaaa \in IPv6s \cup {Blank},
           NEW https \in Specs \cup {Blank}
    PROVE  Early(RepairCalls(h, o, z, hs, a, aaaa, https))
  <1> DEFINE c1 == When(o.https /\ https # Blank /\ https # o.spec,
                        UpdateHTTPS(h, https, hs[<<h, https>>], o.spec))
             c2 == When(~o.https /\ https # Blank,
                        DeleteHTTPSOnly(h, https, hs[<<h, https>>]))
             c3 == When(NeedsUpdate(AIPs(z, h), o.ip4), UpdateA(h, a, o.ip4))
             c4 == When(o.aaaa /\ aaaa = Blank, CreateAAAA(h, o.ip6))
             c5 == When(o.aaaa /\ aaaa # Blank /\ NeedsUpdate(AAAAIPs(z, h), o.ip6),
                        UpdateAAAA(h, aaaa, o.ip6))
             c6 == When(~o.aaaa /\ aaaa # Blank, DeleteAAAAOnly(h, aaaa))
             c7 == When(o.https /\ https = Blank, CreateHTTPS(h, o.spec))
             CS == Seq(Seq(Requests))
  <1>1. /\ o.ip4 \in IPv4s
        /\ o.ip6 \in IPv6s \cup {Blank}
        /\ o.spec \in Specs
        /\ o.aaaa => o.ip6 \in IPv6s
        /\ o.https \in BOOLEAN
    BY ConfigsAssumption DEF ConfigType
  <1>2. /\ c1 \in CS /\ c2 \in CS /\ c3 \in CS /\ c4 \in CS /\ c5 \in CS /\ c6 \in CS
        /\ c7 \in CS
    BY <1>1, RepairTypes DEF When
  <1>3. /\ Harmless(RequestsOf(UpdateA(h, a, o.ip4)))
        /\ Harmless(RequestsOf(CreateAAAA(h, o.ip6)))
        /\ Harmless(RequestsOf(UpdateAAAA(h, aaaa, o.ip6)))
        /\ Harmless(RequestsOf(DeleteAAAAOnly(h, aaaa)))
        /\ Harmless(RequestsOf(CreateHTTPS(h, o.spec)))
    BY RequestsIdentify, FewRequests
    DEF Harmless, UpdateA, CreateAAAA, UpdateAAAA, DeleteAAAAOnly, CreateHTTPS
  <1>4. \A c, s : Harmless(RequestsOf(s)) => Harmless(RequestsIn(When(c, s)))
    BY FewRequests DEF Harmless
  <1>5. /\ Harmless(RequestsIn(c3)) /\ Harmless(RequestsIn(c4)) /\ Harmless(RequestsIn(c5))
        /\ Harmless(RequestsIn(c6)) /\ Harmless(RequestsIn(c7))
    BY <1>3, <1>4
  <1>6. \A c, s : Quiet(s) => Early(When(c, s))
    <2>1. \A s : Head(<<s>>) = s /\ Tail(<<s>>) = <<>>
      OBVIOUS
    <2>2. \A s : Quiet(s) => Early(<<s>>)
      BY <2>1, FewRequests DEF Early, Harmless
    <2>3. Early(<<>>)
      BY DEF Early
    <2>4. QED
      BY <2>2, <2>3 DEF When
  <1>7. Early(c1) /\ Early(c2)
    <2>1. /\ Quiet(UpdateHTTPS(h, https, hs[<<h, https>>], o.spec))
          /\ Quiet(DeleteHTTPSOnly(h, https, hs[<<h, https>>]))
      BY RequestsIdentify, CheckedQuiet DEF UpdateHTTPS, DeleteHTTPSOnly
    <2>2. QED
      BY <1>6, <2>1
  <1>8. c1 = <<>> \/ c2 = <<>>
    BY <1>1 DEF When
  <1>9. RepairCalls(h, o, z, hs, a, aaaa, https)
          = c1 \o c2 \o c3 \o c4 \o c5 \o c6 \o c7
    BY DEF RepairCalls
  <1> HIDE DEF c1, c2, c3, c4, c5, c6, c7
  <1>10. c1 \o c2 \in CS /\ Early(c1 \o c2)
    <2>1. \A s \in CS : <<>> \o s = s /\ s \o <<>> = s
      OBVIOUS
    <2>2. c1 \o c2 = c1 \/ c1 \o c2 = c2
      BY <1>2, <1>8, <2>1
    <2>3. QED
      BY <1>2, <1>7, <2>2
  <1>11. \A s, t : (s \in CS /\ t \in CS /\ Early(s) /\ Harmless(RequestsIn(t)))
                      => s \o t \in CS /\ Early(s \o t)
    BY EarlyConcat
  <1> HIDE DEF CS
  <1>12. c1 \o c2 \o c3 \o c4 \in CS /\ Early(c1 \o c2 \o c3 \o c4)
    BY <1>2, <1>5, <1>10, <1>11
  <1>13. Early(c1 \o c2 \o c3 \o c4 \o c5 \o c6 \o c7)
    BY <1>2, <1>5, <1>11, <1>12
  <1>14. QED
    BY <1>9, <1>13

LEMMA EnsureEarly ==
    ASSUME NEW h \in Hosts, NEW o \in Configs, NEW z \in SUBSET Records,
           NEW hs \in [Hosts \X Specs -> SUBSET Addresses],
           NEW a \in IPv4s \cup {Blank}, NEW aaaa \in IPv6s \cup {Blank},
           NEW https \in Specs \cup {Blank}
    PROVE  Early(EnsureCalls(h, o, z, hs, a, aaaa, https))
  <1>1. o.ip4 \in IPv4s /\ o.ip6 \in IPv6s \cup {Blank} /\ o.spec \in Specs
    BY ConfigsAssumption DEF ConfigType
  <1>2. CASE a = Blank
    <2> DEFINE v6  == IF o.aaaa THEN o.ip6 ELSE Blank
               svc == IF o.https /\ https = Blank THEN o.spec ELSE Blank
               s   == CreateHost(h, o.ip4, v6, svc)
    <2>1. v6 \in IPv6s \cup {Blank} /\ svc \in Specs \cup {Blank}
      BY <1>1
    <2>2. EnsureCalls(h, o, z, hs, a, aaaa, https) = <<s>>
      BY <1>2 DEF EnsureCalls, CreateCall
    <2> HIDE DEF v6, svc
    <2>3. s \in Seq(Requests) /\ Harmless(RequestsOf(s))
      BY <1>1, <2>1, CreateHostType, CreateHostRequests, CreateHarmless
    <2> HIDE DEF s
    <2>4. <<s>> \in Seq(Seq(Requests)) /\ RequestsIn(<<s>>) = RequestsOf(s)
      BY <2>3, FewRequests
    <2>5. QED
      BY <2>2, <2>3, <2>4, HarmlessEarly
  <1>3. CASE a # Blank
    BY <1>3, RepairEarly DEF EnsureCalls
  <1>4. QED
    BY <1>2, <1>3

LEMMA RemoveEarly ==
    ASSUME NEW h \in Hosts, NEW hs \in [Hosts \X Specs -> SUBSET Addresses],
           NEW a \in IPv4s \cup {Blank}, NEW aaaa \in IPv6s \cup {Blank},
           NEW https \in Specs \cup {Blank}
    PROVE  Early(<<RemoveCall(h, hs, a, aaaa, https)>>)
  <1> DEFINE hint == HintOf(h, hs, https)
             open == <<CheckOwnership(h)>>
             svc  == When(https # Blank, DeleteRecord(HTTPSRecord(h, https), hint))
             v4   == When(a # Blank, DeleteRecord(ARecord(h, a), {}))
             v6   == When(aaaa # Blank, DeleteRecord(AAAARecord(h, aaaa), {}))
             last == <<DeleteRecord(Marker(h), {})>>
             RS   == Seq(Requests)
  <1>1. hint \in SUBSET Addresses
    BY DEF HintOf
  <1>2. RemoveCall(h, hs, a, aaaa, https) = open \o svc \o v4 \o v6 \o last
    BY DEF RemoveCall, DeleteHost, HintOf
  <1> HIDE DEF hint
  <1>3. open \in RS /\ svc \in RS /\ v4 \in RS /\ v6 \in RS /\ last \in RS
    BY <1>1, RecordTypes, RequestTypes DEF When
  <1>4. /\ Harmless(RequestsOf(v4)) /\ Harmless(RequestsOf(v6))
        /\ Harmless(RequestsOf(last))
    BY RequestsIdentify, FewRequests DEF Harmless
  <1>5. Quiet(open \o svc)
    <2>1. Len(svc) \in {0, 1}
      BY DEF When
    <2> HIDE DEF svc
    <2>2. QED
      BY <1>3, <2>1, RequestTypes, RequestsIdentify, OpenedQuiet
  <1> HIDE DEF open, svc, v4, v6, last
  <1>6. \A s, t : (s \in RS /\ t \in RS /\ Quiet(s) /\ Harmless(RequestsOf(t)))
                     => Quiet(s \o t)
    BY QuietConcat
  <1>7. \A s, t : s \in RS /\ t \in RS => s \o t \in RS
    BY ConcatType
  <1> HIDE DEF RS
  <1>8. Quiet(open \o svc \o v4 \o v6 \o last)
    BY <1>3, <1>4, <1>5, <1>6, <1>7
  <1>9. \A s : Quiet(s) => Early(<<s>>)
    <2>1. \A s : Head(<<s>>) = s /\ Tail(<<s>>) = <<>>
      OBVIOUS
    <2>2. QED
      BY <2>1, FewRequests DEF Early, Harmless
  <1>10. QED
    BY <1>2, <1>8, <1>9

\* The hints a plan quotes are those of the snapshot.
LEMMA EnsureQuotes ==
    ASSUME NEW h, NEW o, NEW z, NEW hs, NEW a, NEW aaaa, NEW https,
           NEW q \in EnsureRequests(h, o, z, hs, a, aaaa, https), Identity(q)
    PROVE  https # Blank /\ q.rec = HTTPSRecord(h, https) /\ q.hint = hs[<<h, https>>]
  <1> DEFINE v6  == IF o.aaaa THEN o.ip6 ELSE Blank
             svc == IF o.https /\ https = Blank THEN o.spec ELSE Blank
  <1>1. \/ q \in CreateRequests(h, o.ip4, v6, svc)
        \/ q \in RepairRequests(h, o, z, hs, a, aaaa, https)
    BY DEF EnsureRequests
  <1> HIDE DEF v6, svc
  <1>2. q \in RepairRequests(h, o, z, hs, a, aaaa, https)
    BY <1>1, CreateHarmless DEF Harmless
  <1>3. QED
    BY <1>2, RequestsIdentify DEF RepairRequests, Only

LEMMA RemoveQuotes ==
    ASSUME NEW h, NEW hint, NEW a, NEW aaaa, NEW https,
           NEW q \in RemoveRequests(h, hint, a, aaaa, https), Identity(q)
    PROVE  https # Blank /\ q.rec = HTTPSRecord(h, https) /\ q.hint = hint
  <1>1. \/ q \in {CheckOwnership(h), DeleteRecord(Marker(h), {})}
        \/ https # Blank /\ q = DeleteRecord(HTTPSRecord(h, https), hint)
        \/ q = DeleteRecord(ARecord(h, a), {})
        \/ q = DeleteRecord(AAAARecord(h, aaaa), {})
    BY DEF RemoveRequests, Only
  <1>2. q = DeleteRecord(HTTPSRecord(h, https), hint) /\ https # Blank
    BY <1>1, RequestsIdentify
  <1>3. QED
    BY <1>2, RequestsIdentify

\* So what a host's plan names by its hints is found, when the host is begun.
LEMMA PlanFound ==
    ASSUME TypeOK, CycleInv, ViewInv, FreshInv, NEW h \in Hosts,
           EnsureHost(h) \/ RemoveHost(h),
           NEW q \in Pending', Identity(q)
    PROVE  Found(zone, hints, q)
  <1>1. phase \in Loops /\ h \in todo
    BY DEF EnsureHost, RemoveHost, Loops
  <1>2. PICK https \in First(HTTPSSpecs(snap, h)) :
          /\ https # Blank
          /\ q.rec = HTTPSRecord(h, https)
          /\ q.hint = snapHints[<<h, https>>]
    <2>1. CASE EnsureHost(h)
      <3>1. PICK a \in First(AIPs(snap, h)), aaaa \in First(AAAAIPs(snap, h)),
                 https \in First(HTTPSSpecs(snap, h)) :
              Pending' = EnsureRequests(h, opts, snap, snapHints, a, aaaa, https)
        BY <2>1, EnsurePending
      <3>2. QED
        BY <3>1, EnsureQuotes
    <2>2. CASE RemoveHost(h)
      <3>1. PICK a \in First(AIPs(snap, h)), aaaa \in First(AAAAIPs(snap, h)),
                 https \in First(HTTPSSpecs(snap, h)) :
              Pending' = RemoveRequests(h, HintOf(h, snapHints, https), a, aaaa, https)
        BY <2>2, RemovePending
      <3>2. QED
        BY <3>1, RemoveQuotes DEF HintOf
    <2>3. QED
      BY <2>1, <2>2
  <1>3. https \in HTTPSSpecs(snap, h) /\ https \in Specs
    <2>1. HTTPSSpecs(snap, h) \subseteq Specs
      BY SnapshotTypes DEF TypeOK
    <2>2. QED
      BY <1>2, <2>1, BlankAssumption, FirstOf
  <1>4. HTTPSRecord(h, https) \in zone
    <2>1. HTTPSRecord(h, https) \in snap /\ HTTPSRecord(h, https) \in Records
      BY <1>3, Listed DEF TypeOK
    <2>2. QED
      BY <1>1, <2>1, RecordShapes DEF ViewInv, SeenAlike, Unseen
  <1>5. hints[<<h, https>>] = snapHints[<<h, https>>]
    BY <1>1, <1>3, <1>4 DEF FreshInv, Unseen
  <1>6. QED
    BY <1>2, <1>4, <1>5 DEF Found, HTTPSRecord

LEMMA FreshInit == Init => FreshInv
  BY FewRequests DEF Init, FreshInv, Quiet, Early, Pending, Loops

\* A check changes no hints of records there are.
LEMMA PassiveKeeps ==
    ASSUME NEW z, NEW hs, NEW q, Passive(q), NEW h \in Hosts, NEW s \in Specs,
           HTTPSRecord(h, s) \in z
    PROVE  /\ ZoneAfter(z, q) = z
           /\ HintsAfter(z, hs, q, UpdateSvcbHints(q))[<<h, s>>] = hs[<<h, s>>]
  <1>1. ZoneAfter(z, q) = z /\ Written(q) = {}
    BY DEF ZoneAfter, Removed, Written, Passive
  <1>2. ~Rehints(z, q, UpdateSvcbHints(q), h, s)
    BY <1>1 DEF Rehints, Passive, AddressTypes
  <1>3. QED
    BY <1>1, <1>2 DEF HintsAfter

\* A request changes no hints but those of its own host.
LEMMA ElsewhereKeeps ==
    ASSUME HintsWorld, NEW z, NEW hs, NEW q, Shaped(q), NEW h \in Hosts,
           NEW s \in Specs, q.rec.host # h, HTTPSRecord(h, s) \in ZoneAfter(z, q)
    PROVE  /\ HTTPSRecord(h, s) \in z
           /\ HintsAfter(z, hs, q, UpdateSvcbHints(q))[<<h, s>>] = hs[<<h, s>>]
  <1>1. HTTPSRecord(h, s) \in z
    BY ElsewhereSame, RecordShapes
  <1>2. HTTPSRecord(h, s) \notin Written(q)
    BY RecordShapes DEF Written, Shaped
  <1>3. ~Rehints(z, q, UpdateSvcbHints(q), h, s)
    BY <1>2 DEF Rehints, HintsWorld
  <1>4. QED
    BY <1>1, <1>3 DEF HintsAfter

LEMMA SendsFresh ==
    ASSUME HintsWorld, TypeOK, CycleInv, ShapeInv, ViewInv, FreshInv, Sends
    PROVE  \A h \in Hosts, s \in Specs :
              (Unseen(h) /\ HTTPSRecord(h, s) \in zone')
                 => hints'[<<h, s>>] = snapHints[<<h, s>>]
  <1> DEFINE q == Head(reqs)
  <1>1. /\ Shaped(q) /\ q \in Pending /\ phase \in Loops /\ zone' = ZoneAfter(zone, q)
        /\ hints' = HintsAfter(zone, hints, q, UpdateSvcbHints(q))
    BY SendsPlanned
  <1>2. ASSUME NEW h \in Hosts, NEW s \in Specs, Unseen(h), HTTPSRecord(h, s) \in zone'
        PROVE  hints'[<<h, s>>] = snapHints[<<h, s>>]
    <2>1. q.rec.host # h
      BY <1>1, <1>2 DEF ViewInv
    <2>2. HTTPSRecord(h, s) \in zone /\ hints'[<<h, s>>] = hints[<<h, s>>]
      BY <1>1, <1>2, <2>1, ElsewhereKeeps
    <2>3. QED
      BY <1>1, <1>2, <2>2 DEF FreshInv
  <1>3. QED
    BY <1>2

LEMMA FreshNext ==
    ASSUME HintsWorld, TypeOK, CycleInv, ShapeInv, ViewInv, FreshInv, [Next]_vars
    PROVE  FreshInv'
  <1> DEFINE fresh == \A h \in Hosts, s \in Specs :
                         (Unseen(h) /\ HTTPSRecord(h, s) \in zone)
                            => hints[<<h, s>>] = snapHints[<<h, s>>]
  <1>1. ASSUME calls' = <<>>, reqs' = <<>>, phase' \in Loops => fresh'
        PROVE  FreshInv'
    <2>1. Pending' = {}
      BY <1>1, FewRequests DEF Pending
    <2>2. QED
      BY <1>1, <2>1 DEF FreshInv, Quiet, Early
  <1>2. ASSUME UNCHANGED <<phase, todo, desired, snapHints>>, Sends \/ Still
        PROVE  phase' \in Loops => fresh'
    <2>1. CASE Still
      BY <1>2, <2>1 DEF FreshInv, Still, Unseen
    <2>2. CASE Sends
      BY <1>2, <2>2, SendsFresh DEF Unseen
    <2>3. QED
      BY <1>2, <2>1, <2>2
  <1>3. CASE Leaves
    BY <1>1, <1>3 DEF Leaves
  <1>4. CASE ReadZone
    BY <1>1, <1>4 DEF ReadZone, serverVars, CycleInv, BetweenHosts
  <1>5. ASSUME NEW h \in Hosts, SkipForeign(h)
        PROVE  FreshInv'
    <2>1. /\ phase \in Loops /\ todo' \subseteq todo /\ calls' = <<>> /\ reqs' = <<>>
          /\ UNCHANGED <<phase, desired, zone, hints, snapHints>>
      BY <1>5 DEF SkipForeign, serverVars, Loops, BetweenHosts
    <2>2. QED
      BY <1>1, <2>1 DEF FreshInv, Unseen
  <1>6. CASE EnsureDone \/ RemoveDone
    <2>1. /\ phase \in Loops /\ calls' = <<>> /\ reqs' = <<>>
          /\ UNCHANGED <<desired, zone, hints, snapHints>>
          /\ phase' \in Loops => phase = "ensure" /\ phase' = "remove"
                                  /\ todo' = Unwanted(snap, desired)
      BY <1>6 DEF EnsureDone, RemoveDone, serverVars, Loops, BetweenHosts
    <2>2. QED
      BY <1>1, <2>1 DEF FreshInv, Unseen, Unwanted
  <1>7. ASSUME NEW h \in Hosts, EnsureHost(h) \/ RemoveHost(h)
        PROVE  FreshInv'
    <2>1. /\ phase \in Loops /\ todo' \subseteq todo /\ reqs' = <<>>
          /\ UNCHANGED <<phase, desired, zone, hints, snapHints>>
      BY <1>7 DEF EnsureHost, RemoveHost, serverVars, Loops, BetweenHosts
    <2>2. \A q \in Pending' : Identity(q) => Found(zone, hints, q)'
      BY <1>7, <2>1, PlanFound DEF Found
    <2>3. Early(calls')
      <3>1. CASE EnsureHost(h)
        <4>1. PICK a \in IPv4s \cup {Blank}, aaaa \in IPv6s \cup {Blank},
                   https \in Specs \cup {Blank} :
                calls' = EnsureCalls(h, opts, snap, snapHints, a, aaaa, https)
          BY <3>1, EnsurePending
        <4>2. QED
          BY <4>1, EnsureEarly DEF TypeOK
      <3>2. CASE RemoveHost(h)
        <4>1. PICK a \in IPv4s \cup {Blank}, aaaa \in IPv6s \cup {Blank},
                   https \in Specs \cup {Blank} :
                calls' = <<RemoveCall(h, snapHints, a, aaaa, https)>>
          BY <3>2, RemovePending
        <4>2. QED
          BY <4>1, RemoveEarly DEF TypeOK
      <3>3. QED
        BY <1>7, <3>1, <3>2
    <2>4. QED
      BY <2>1, <2>2, <2>3 DEF FreshInv, Unseen, Quiet, Early
  <1>8. CASE BeginCall
    <2>1. /\ calls # <<>> /\ reqs' = Head(calls) /\ calls' = Tail(calls)
          /\ Still /\ UNCHANGED <<phase, todo, desired, snapHints, zone, hints>>
          /\ Pending' = Pending
      BY <1>8, BeginCallPending DEF BeginCall, Still, serverVars
    <2>2. Quiet(reqs') /\ Harmless(RequestsIn(calls'))
      BY <2>1 DEF FreshInv, Early
    <2>3. calls' \in Seq(Seq(Requests))
      BY <2>1 DEF TypeOK
    <2>4. Early(calls')
      BY <2>2, <2>3, HarmlessEarly
    <2>5. \A q \in Pending' : Identity(q) => Found(zone, hints, q)'
      BY <2>1 DEF FreshInv, Found
    <2>6. QED
      BY <1>2, <2>1, <2>2, <2>4, <2>5 DEF FreshInv, Early
  <1>9. CASE Answered
    <2> DEFINE q == Head(reqs)
    <2>1. /\ reqs # <<>> /\ reqs' = Tail(reqs) /\ Sends
          /\ UNCHANGED <<phase, todo, desired, snapHints, calls>>
      BY <1>9 DEF Answered, Sends
    <2>2. /\ Quiet(reqs') /\ Harmless(RequestsIn(calls))
          /\ Passive(q) \/ Harmless(RequestsOf(reqs'))
      BY <2>1, QuietTail DEF FreshInv, TypeOK
    <2>3. ASSUME NEW p \in Pending', Identity(p)
          PROVE  Found(zone, hints, p)'
      <3>1. Passive(q)
        BY <2>1, <2>2, <2>3 DEF Pending, Harmless
      <3>2. p \in Pending /\ p \in Requests
        BY <1>9, <2>3, AnsweredPending, PendingType
      <3>3. Found(zone, hints, p) /\ p.rec \in Records /\ p.rec.type = "HTTPS"
        BY <2>3, <3>2 DEF FreshInv, Identity, Requests
      <3>4. p.rec = HTTPSRecord(p.rec.host, p.rec.data)
        BY <3>3, RecordForms
      <3>5. p.rec.host \in Hosts /\ p.rec.data \in Specs
        BY <3>3 DEF Records
      <3>6. /\ zone' = ZoneAfter(zone, q)
            /\ hints' = HintsAfter(zone, hints, q, UpdateSvcbHints(q))
        BY <2>1, SendsPlanned
      <3>7. /\ p.rec \in zone'
            /\ hints'[<<p.rec.host, p.rec.data>>] = hints[<<p.rec.host, p.rec.data>>]
        BY <3>1, <3>3, <3>4, <3>5, <3>6, PassiveKeeps DEF Found
      <3>8. QED
        BY <3>3, <3>7 DEF Found
    <2>4. QED
      BY <1>2, <2>1, <2>2, <2>3 DEF FreshInv, Early
  <1>10. CASE GivesUp
    <2>1. /\ reqs # <<>> /\ reqs' = <<>> /\ (Sends \/ Still)
          /\ UNCHANGED <<phase, todo, desired, snapHints, calls>>
          /\ Pending' = RequestsIn(calls)
      BY <1>10, GivenUpPending DEF GivesUp, loopVars
    <2>2. Harmless(Pending')
      BY <2>1 DEF FreshInv
    <2>3. QED
      BY <1>2, <2>1, <2>2 DEF FreshInv, Harmless, Early, Quiet
  <1>11. CASE Edits
    <2>1. UNCHANGED <<phase, todo, desired, snapHints, calls, reqs>> /\ Pending' = Pending
      BY <1>11 DEF Edits, loopVars, Pending
    <2>2. CASE Still
      BY <1>2, <2>1, <2>2 DEF FreshInv, Quiet, Early, Found, Still
    <2>3. CASE phase = "idle"
      BY <1>1, <2>1, <2>3 DEF CycleInv, BetweenHosts, Loops
    <2>4. QED
      BY <1>11, <2>2, <2>3 DEF Edits
  <1>12. QED
    BY <1>3, <1>4, <1>5, <1>6, <1>7, <1>8, <1>9, <1>10, <1>11, KindsOfSteps
    DEF HintsWorld

\* A request that names an HTTPS record by its hints finds it: they have not
\* moved since the zone was read, because such requests go out before those that
\* make the server resolve the hints again, whatever is lost on the way, as long
\* as every HTTPS record points at its own host.
THEOREM IdentityFresh ==
    ASSUME HintsWorld
    PROVE  Spec => []HTTPSIdentityFresh
  <1>1. Undisturbed /\ LateRequests = "never"
    BY DEF HintsWorld, Undisturbed
  <1>2. TypeOK /\ CycleInv /\ [Next]_vars => CycleInv'
    BY <1>1, CycleNext
  <1>3. TypeOK /\ CycleInv /\ ShapeInv /\ ViewInv /\ [Next]_vars => ViewInv'
    BY <1>1, ViewNext
  <1>4. TypeOK /\ CycleInv /\ ShapeInv /\ ViewInv /\ FreshInv /\ [Next]_vars => FreshInv'
    BY FreshNext
  <1>5. TypeOK /\ FreshInv => HTTPSIdentityFresh
    BY FreshInvImplies
  <1>6. QED
    BY <1>2, <1>3, <1>4, <1>5, TypeInit, TypeNext, CycleInit, ShapeInit, ShapeNext,
       ViewInit, FreshInit, PTL DEF Spec

-----------------------------------------------------------------------------
(***************************************************************************)
(* The automatic hints.  The plugin's own requests keep them current: what *)
(* changes the addresses of a record's target makes the server resolve     *)
(* them again.  Others may leave stale hints behind, but at a host of ours *)
(* only by deleting addresses, so that either the A record is missing and  *)
(* will be added, or the hints are right but for IPv6 addresses too many;  *)
(* and a cycle that changes the addresses once more sets them right.       *)
(***************************************************************************)
Told(h, s) ==
    Current(h, s) \/ Surplus(h, s) \/ AIPs(zone, TargetOf(h, s)) = {}

\* In a cycle that has read the zone and may yet report success.
Acting == phase \in Loops \/ (phase = "report" /\ errors = {})

\* The addresses of h are those of the snapshot.
AsRead(h) ==
    \A r \in Records :
       (r.host = h /\ r.type \in AddressTypes) => (r \in zone <=> r \in snap)

HintInv ==
    /\ \A h \in Hosts, s \in Specs :
         HTTPSRecord(h, s) \in zone =>
            /\ OwnedByUs(zone, TargetOf(h, s)) => Told(h, s)
            /\ Acting => Current(h, s) \/ AsRead(TargetOf(h, s))
    /\ Acting =>
         \A h \in Hosts :
            /\ h \in desired \ (skipped \cup todo) => ~Foreign(snap, h)
            /\ ~Foreign(snap, h) => Clear(h)

LEMMA TargetType ==
    ASSUME NEW h \in Hosts, NEW s \in Specs
    PROVE  TargetOf(h, s) \in Hosts
  BY SpecsAssumption DEF TargetOf

\* What is resolved depends on the address records of the target alone.
LEMMA SameAddresses ==
    ASSUME NEW y \in SUBSET Records, NEW z \in SUBSET Records, NEW h \in Hosts,
           NEW s \in Specs,
           \A r \in Records : (r.host = TargetOf(h, s) /\ r.type \in AddressTypes)
                                 => (r \in y <=> r \in z)
    PROVE  /\ Resolve(y, h, s) = Resolve(z, h, s)
           /\ AIPs(y, TargetOf(h, s)) = AIPs(z, TargetOf(h, s))
           /\ AAAAIPs(y, TargetOf(h, s)) = AAAAIPs(z, TargetOf(h, s))
  <1> DEFINE target == TargetOf(h, s)
             at(x) == {r \in x : r.type \in AddressTypes /\ r.host = target}
  <1>1. at(y) = at(z)
    OBVIOUS
  <1>2. Resolve(y, h, s) = Resolve(z, h, s)
    BY <1>1 DEF Resolve
  <1>3. \A t \in AddressTypes :
           {r \in y : r.host = target /\ r.type = t}
             = {r \in z : r.host = target /\ r.type = t}
    BY <1>1
  <1>4. QED
    BY <1>2, <1>3 DEF AIPs, AAAAIPs, AddressTypes

\* A request of the plugin either makes the hints current, or leaves both them
\* and the addresses they come from as they are.
LEMMA HintsKeepUp ==
    ASSUME NEW z \in SUBSET Records, NEW hs, NEW q \in Requests, Shaped(q),
           NEW h \in Hosts, NEW s \in Specs, HTTPSRecord(h, s) \in ZoneAfter(z, q)
    PROVE  LET now == HintsAfter(z, hs, q, UpdateSvcbHints(q))[<<h, s>>]
           IN  \/ now = Resolve(ZoneAfter(z, q), h, s)
               \/ /\ now = hs[<<h, s>>]
                  /\ HTTPSRecord(h, s) \in z
                  /\ \A r \in Records :
                       (r.host = TargetOf(h, s) /\ r.type \in AddressTypes)
                          => (r \in ZoneAfter(z, q) <=> r \in z)
  <1> DEFINE now == HintsAfter(z, hs, q, UpdateSvcbHints(q))[<<h, s>>]
             again == Rehints(z, q, UpdateSvcbHints(q), h, s)
  <1>1. now = IF again THEN Resolve(ZoneAfter(z, q), h, s) ELSE hs[<<h, s>>]
    BY DEF HintsAfter
  <1>2. CASE Conflict(z, q) \/ q.verb = "check"
    <2>1. ZoneAfter(z, q) = z
      BY <1>2 DEF Conflict, ZoneAfter, Removed, Written, Shaped
    <2>2. QED
      BY <1>1, <2>1
  <1>3. CASE ~Conflict(z, q) /\ q.verb # "check" /\ ~again
    <2>1. q.verb \in {"add", "update", "delete"}
      BY <1>3 DEF Requests
    <2>2. /\ HTTPSRecord(h, s) \notin Written(q)
          /\ ~(q.rec.type \in AddressTypes /\ q.rec.host = TargetOf(h, s))
      BY <1>3, <2>1 DEF Rehints, UpdateSvcbHints, AddressTypes
    <2>3. HTTPSRecord(h, s) \in z
      BY <2>2 DEF ZoneAfter
    <2>4. \A r \in Records :
             (r.host = TargetOf(h, s) /\ r.type \in AddressTypes)
                => (r \in ZoneAfter(z, q) <=> r \in z)
      BY <2>2 DEF ZoneAfter, Removed, Written, Shaped
    <2>5. QED
      BY <1>1, <1>3, <2>3, <2>4
  <1>4. QED
    BY <1>1, <1>2, <1>3

LEMMA HintInit == Init => HintInv
  <1> SUFFICES ASSUME Init
               PROVE  HintInv
    OBVIOUS
  <1>1. ~Acting
    BY DEF Init, Acting, Loops
  <1>2. \A h \in Hosts, s \in Specs : HTTPSRecord(h, s) \in zone => Current(h, s)
    BY DEF Init, Current
  <1>3. QED
    BY <1>1, <1>2 DEF HintInv, Told

\* A host without our marker has no addresses, if all that is there is ours.
LEMMA UnmarkedEmpty ==
    ASSUME TypeOK, OwnRecordsMarked, NEW h \in Hosts, Clear(h), ~OwnedByUs(zone, h)
    PROVE  \A r \in zone : r.host = h => r.type \notin HostTypes
  BY DEF OwnRecordsMarked, Clear

LEMMA SendsHints ==
    ASSUME ReconcileInv, HintInv, Sends,
           NEW h \in Hosts, NEW s \in Specs, HTTPSRecord(h, s) \in zone'
    PROVE  /\ OwnedByUs(zone', TargetOf(h, s)) => Told(h, s)'
           /\ Acting /\ snap' = snap => Current(h, s)' \/ AsRead(TargetOf(h, s))'
  <1> DEFINE q == Head(reqs)
             target == TargetOf(h, s)
  <1>1. /\ q \in Requests /\ Shaped(q) /\ zone' = ZoneAfter(zone, q)
        /\ hints' = HintsAfter(zone, hints, q, UpdateSvcbHints(q))
        /\ zone \in SUBSET Records /\ zone' \in SUBSET Records
    BY SendsPlanned, ZoneAfterType DEF ReconcileInv, TypeOK
  <1>2. target \in Hosts
    BY TargetType
  <1>3. CASE Current(h, s)'
    BY <1>3 DEF Told
  <1>4. CASE ~Current(h, s)'
    <2>1. /\ hints'[<<h, s>>] = hints[<<h, s>>]
          /\ HTTPSRecord(h, s) \in zone
          /\ \A r \in Records : (r.host = target /\ r.type \in AddressTypes)
                                   => (r \in zone' <=> r \in zone)
      <3>1. hints'[<<h, s>>] # Resolve(zone', h, s)
        BY <1>4 DEF Current
      <3> HIDE DEF q
      <3>2. QED
        BY <1>1, <3>1, HintsKeepUp
    <2>2. /\ Resolve(zone', h, s) = Resolve(zone, h, s)
          /\ AIPs(zone', target) = AIPs(zone, target)
      BY <1>1, <2>1, SameAddresses
    <2>3. ASSUME OwnedByUs(zone', target)
          PROVE  Told(h, s)'
      <3>1. CASE OwnedByUs(zone, target)
        BY <2>1, <2>2, <3>1 DEF HintInv, Told, Current, Surplus
      <3>2. CASE ~OwnedByUs(zone, target)
        <4>1. Clear(target)
          BY <1>2, <2>3, <3>2, MarksFree DEF ReconcileInv
        <4>2. AIPs(zone, target) = {}
          BY <1>2, <3>2, <4>1, UnmarkedEmpty DEF ReconcileInv, TidyInv, AIPs, HostTypes
        <4>3. QED
          BY <2>2, <4>2 DEF Told
      <3>3. QED
        BY <3>1, <3>2
    <2>4. ASSUME Acting, snap' = snap
          PROVE  AsRead(target)'
      <3>1. ~Current(h, s)
        BY <1>4, <2>1, <2>2 DEF Current
      <3>2. AsRead(target)
        BY <2>1, <2>4, <3>1 DEF HintInv
      <3>3. QED
        BY <2>1, <2>4, <3>2 DEF AsRead
    <2>5. QED
      BY <2>3, <2>4
  <1>5. QED
    BY <1>3, <1>4

\* Others add no addresses at a host of ours; of what they delete there, an A
\* record was the only one.
LEMMA EditsHints ==
    ASSUME TidyWorld, ReconcileInv, HintInv, EditsZone,
           NEW h \in Hosts, NEW s \in Specs, HTTPSRecord(h, s) \in zone',
           OwnedByUs(zone', TargetOf(h, s))
    PROVE  Told(h, s)'
  <1> DEFINE target == TargetOf(h, s)
  <1>1. PICK r \in Records : AdminAdd(r) \/ AdminDelete(r)
    BY DEF EditsZone
  <1>2. /\ target \in Hosts /\ zone \in SUBSET Records
        /\ hints[<<h, s>>] \subseteq Addresses
    BY TargetType DEF ReconcileInv, TypeOK
  <1>3. CASE AdminAdd(r)
    <2>1. PICK update \in BOOLEAN :
             hints' = HintsAfter(zone, hints, AddRecord(r), update)
      BY <1>3 DEF AdminAdd, Administer
    <2>2. /\ zone' = zone \cup {r} /\ r \notin zone /\ r \in AdminAdds
          /\ zone' = ZoneAfter(zone, AddRecord(r))
          /\ Written(AddRecord(r)) = {r}
          /\ ~OwnedByUs(zone, r.host)
      BY <1>3 DEF AdminAdd, Administer, ZoneAfter, Removed, Written, AddRecord,
                  Request, TidyWorld, OthersKeepOff
    <2>3. OwnedByUs(zone, target)
      BY <1>2, <2>2 DEF OwnedByUs, TidyWorld, OthersKeepOff
    <2>4. zone' \in SUBSET Records /\ r.host # target
      BY <1>2, <2>2, <2>3
    <2>5. CASE Current(h, s)'
      BY <2>5 DEF Told
    <2>6. CASE ~Current(h, s)'
      <3>1. ~Rehints(zone, AddRecord(r), update, h, s)
        BY <2>1, <2>2, <2>6 DEF HintsAfter, Current
      <3>2. ~Conflict(zone, AddRecord(r))
        BY <2>2 DEF Conflict, AddRecord, Request
      <3>3. HTTPSRecord(h, s) \in zone
        BY <2>2, <3>1, <3>2 DEF Rehints
      <3>4. hints'[<<h, s>>] = hints[<<h, s>>]
        BY <2>1, <2>2, <3>1 DEF HintsAfter
      <3>5. /\ Resolve(zone', h, s) = Resolve(zone, h, s)
            /\ AIPs(zone', target) = AIPs(zone, target)
        BY <1>2, <2>2, <2>4, SameAddresses
      <3>6. QED
        BY <2>3, <3>3, <3>4, <3>5 DEF HintInv, Told, Current, Surplus
    <2>7. QED
      BY <2>5, <2>6
  <1>4. CASE AdminDelete(r)
    <2>1. PICK update \in BOOLEAN :
             hints' = HintsAfter(zone, hints, DeleteRecord(r, {}), update)
      BY <1>4 DEF AdminDelete, Administer
    <2>2. /\ zone' = zone \ {r} /\ r \in zone
          /\ zone' = ZoneAfter(zone, DeleteRecord(r, {}))
      BY <1>4 DEF AdminDelete, Administer, ZoneAfter, Removed, Written,
                  DeleteRecord, Request
    <2>3. /\ OwnedByUs(zone, target) /\ HTTPSRecord(h, s) \in zone
          /\ zone' \in SUBSET Records
      BY <1>2, <2>2 DEF OwnedByUs
    <2>4. Told(h, s) /\ Clear(target)
      BY <1>2, <2>3 DEF HintInv, ReconcileInv, AdoptInv
    <2>5. CASE Current(h, s)'
      BY <2>5 DEF Told
    <2>6. CASE ~Current(h, s)'
      <3>1. hints'[<<h, s>>] = hints[<<h, s>>]
        BY <2>1, <2>2, <2>6 DEF HintsAfter, Current
      <3>2. CASE ~(r.host = target /\ r.type \in AddressTypes)
        <4>1. /\ Resolve(zone', h, s) = Resolve(zone, h, s)
              /\ AIPs(zone', target) = AIPs(zone, target)
          BY <1>2, <2>2, <2>3, <3>2, SameAddresses
        <4>2. QED
          BY <2>4, <3>1, <4>1 DEF Told, Current, Surplus
      <3>3. CASE r.host = target /\ r.type = "A"
        <4>1. \A x \in zone : (x.host = target /\ x.type = "A") => x = r
          BY <1>2, <2>2, <2>4, <3>3, TidyHost DEF ReconcileInv, HostTypes
        <4>2. AIPs(zone', target) = {}
          BY <2>2, <4>1 DEF AIPs
        <4>3. QED
          BY <4>2 DEF Told
      <3>4. CASE r.host = target /\ r.type = "AAAA"
        <4>1. AIPs(zone', target) = AIPs(zone, target)
          BY <2>2, <3>4 DEF AIPs
        <4>2. r.data \in IPv6s
          BY <3>4 DEF Records
        <4>3. /\ Resolve(zone', h, s) \subseteq Resolve(zone, h, s)
              /\ Resolve(zone, h, s) \ Resolve(zone', h, s) \subseteq IPv6s
          BY <2>2, <4>2 DEF Resolve
        <4>4. CASE AIPs(zone, target) = {}
          BY <4>1, <4>4 DEF Told
        <4>5. CASE Current(h, s) \/ Surplus(h, s)
          <5>1. /\ Resolve(zone, h, s) \subseteq hints[<<h, s>>]
                /\ hints[<<h, s>>] \ Resolve(zone, h, s) \subseteq IPv6s
            BY <4>5 DEF Current, Surplus
          <5>2. Surplus(h, s)'
            BY <3>1, <4>3, <5>1 DEF Surplus
          <5>3. QED
            BY <5>2 DEF Told
        <4>6. QED
          BY <2>4, <4>4, <4>5 DEF Told
      <3>5. QED
        BY <3>2, <3>3, <3>4 DEF AddressTypes
    <2>7. QED
      BY <2>5, <2>6
  <1>5. QED
    BY <1>1, <1>3, <1>4

\* Nothing is written, nobody is begun, and the cycle goes on as it was.
LEMMA StillHints ==
    ASSUME ReconcileInv, HintInv, Still,
           Acting' => /\ Acting /\ UNCHANGED <<snap, desired>>
                      /\ \A h \in desired \ (skipped' \cup todo') :
                            h \in desired \ (skipped \cup todo) \/ ~Foreign(snap, h)
    PROVE  HintInv'
  BY DEF Still, HintInv, Told, Current, Surplus, AsRead, Clear

LEMMA HintNext ==
    ASSUME TidyWorld, ReconcileInv, HintInv, [Next]_vars
    PROVE  HintInv'
  <1> DEFINE told == \A h \in Hosts, s \in Specs :
                        (HTTPSRecord(h, s) \in zone /\ OwnedByUs(zone, TargetOf(h, s)))
                           => Told(h, s)
  <1>1. Sends => told'
    BY SendsHints
  <1>2. Still => told'
    BY DEF Still, HintInv, Told, Current, Surplus
  <1>3. ASSUME told', ~Acting'
        PROVE  HintInv'
    BY <1>3 DEF HintInv
  <1>4. CASE Sends /\ Acting /\ UNCHANGED <<snap, desired, todo, skipped>>
    <2>1. \A h \in Hosts : Clear(h) => Clear(h)'
      BY <1>4, SendsAdopt DEF ReconcileInv
    <2>2. QED
      BY <1>4, <2>1, SendsHints DEF HintInv
  <1>5. CASE Leaves
    <2>1. ~Acting'
      BY <1>5 DEF Leaves, Acting
    <2>2. QED
      BY <1>1, <1>2, <1>3, <1>5, <2>1 DEF Leaves
  <1>6. CASE ReadZone
    <2>1. /\ Still /\ snap' = zone /\ zone' = zone /\ made' = made
          /\ todo' = desired /\ desired' = desired
      BY <1>6 DEF ReadZone, Still, serverVars
    <2>2. \A h \in Hosts : ~Foreign(zone, h) => Clear(h)
      BY NotForeign DEF ReconcileInv, AdoptInv, Clear, TypeOK
    <2>3. QED
      BY <1>2, <2>1, <2>2 DEF HintInv, AsRead, Clear
  <1>7. ASSUME NEW h \in Hosts, SkipForeign(h) \/ EnsureHost(h)
        PROVE  HintInv'
    <2>1. /\ Still /\ Acting /\ UNCHANGED <<snap, desired>>
          /\ todo' = todo \ {h}
          /\ skipped' = skipped \cup {h} \/ (skipped' = skipped /\ ~Foreign(snap, h))
      BY <1>7 DEF SkipForeign, EnsureHost, Still, serverVars, Acting, Loops
    <2>2. QED
      BY <2>1, StillHints
  <1>8. ASSUME NEW h \in Hosts, RemoveHost(h)
        PROVE  HintInv'
    <2>1. /\ Still /\ Acting /\ UNCHANGED <<snap, desired, skipped>>
          /\ todo' = todo \ {h} /\ h \in todo /\ phase = "remove"
      BY <1>8 DEF RemoveHost, Still, serverVars, Acting, Loops
    <2>2. h \notin desired
      BY <2>1 DEF ReconcileInv, TidyInv
    <2>3. QED
      BY <2>1, <2>2, StillHints
  <1>9. CASE EnsureDone \/ RemoveDone
    <2>1. /\ Still /\ Acting /\ UNCHANGED <<snap, desired, skipped>> /\ todo = {}
      BY <1>9 DEF EnsureDone, RemoveDone, Still, serverVars, Acting, Loops
    <2>2. QED
      BY <2>1, StillHints
  <1>10. CASE BeginCall
    <2>1. Still /\ UNCHANGED <<phase, errors, snap, desired, todo, skipped>>
      BY <1>10 DEF BeginCall, Still, serverVars
    <2>2. QED
      BY <2>1, StillHints DEF Acting
  <1>11. CASE Answered
    <2>1. Sends /\ UNCHANGED <<snap, desired, todo, skipped>>
      BY <1>11 DEF Answered, Sends
    <2>2. Acting
      BY <2>1, SendsPlanned DEF ReconcileInv, Acting
    <2>3. QED
      BY <1>4, <2>1, <2>2
  <1>12. CASE GivesUp
    <2>1. /\ Sends \/ Still
          /\ UNCHANGED <<phase, snap, desired, todo, skipped>> /\ reqs # <<>>
      BY <1>12 DEF GivesUp, loopVars
    <2>2. Acting
      BY <2>1 DEF ReconcileInv, CycleInv, BetweenHosts, Acting, Loops
    <2>3. QED
      BY <1>4, <2>1, <2>2, StillHints
  <1>13. CASE Edits
    <2>1. UNCHANGED <<phase, errors, snap, desired, todo, skipped>>
      BY <1>13 DEF Edits, loopVars
    <2>2. CASE Still
      BY <2>1, <2>2, StillHints DEF Acting
    <2>3. CASE phase = "idle" /\ EditsZone
      <3>1. ~Acting'
        BY <2>1, <2>3 DEF Acting, Loops
      <3>2. QED
        BY <1>3, <2>3, <3>1, EditsHints
    <2>4. QED
      BY <1>13, <2>2, <2>3 DEF Edits
  <1>14. QED
    BY <1>5, <1>6, <1>7, <1>8, <1>9, <1>10, <1>11, <1>12, <1>13, KindsOfSteps
    DEF TidyWorld, OthersKeepOff, ReconcileInv

LEMMA HintInvImplies ==
    ASSUME ReconcileInv, SyncInv, HintInv
    PROVE  HintsCurrent
  <1> SUFFICES ASSUME phase = "report", errors = {}, NEW h \in Hosts, NEW s \in Specs,
                      HTTPSRecord(h, s) \in zone
               PROVE  LET target == TargetOf(h, s)
                      IN  /\ target \in desired \ skipped =>
                               \/ Current(h, s)
                               \/ Surplus(h, s)
                                    /\ AAAAIPs(snap, target) = AAAAIPs(zone, target)
                          /\ (target \notin desired /\ ~skipDeletes
                                /\ OwnedByUs(snap, target)) =>
                               \/ Current(h, s)
                               \/ Resolve(snap, h, s) = {}
    BY DEF HintsCurrent
  <1> DEFINE target == TargetOf(h, s)
  <1>1. TypeOK /\ SuccessMeansSynced /\ Acting /\ todo = {} /\ target \in Hosts
    BY SyncInvImplies, TargetType DEF ReconcileInv, Acting, SyncInv
  <1>2. \/ Current(h, s)
        \/ /\ Resolve(zone, h, s) = Resolve(snap, h, s)
           /\ AIPs(zone, target) = AIPs(snap, target)
           /\ AAAAIPs(zone, target) = AAAAIPs(snap, target)
    BY <1>1, SameAddresses DEF HintInv, AsRead, TypeOK
  <1>3. ~Foreign(snap, target) => Clear(target)
    BY <1>1 DEF HintInv
  <1>4. ASSUME ~OwnedByUs(zone, target), Clear(target)
        PROVE  AIPs(zone, target) = {} /\ Resolve(zone, h, s) = {}
    <2>1. \A r \in zone : r.host = target => r.type \notin HostTypes
      BY <1>1, <1>4, UnmarkedEmpty DEF ReconcileInv, TidyInv
    <2>2. QED
      BY <2>1 DEF AIPs, Resolve, HostTypes, AddressTypes
  <1>5. ASSUME target \in desired \ skipped, ~Current(h, s)
        PROVE  Surplus(h, s) /\ AAAAIPs(snap, target) = AAAAIPs(zone, target)
    <2>1. AIPs(zone, target) = {opts.ip4}
      BY <1>1, <1>5 DEF SuccessMeansSynced, InSync
    <2>2. Clear(target)
      BY <1>1, <1>3, <1>5 DEF HintInv
    <2>3. OwnedByUs(zone, target)
      BY <1>4, <2>1, <2>2
    <2>4. Surplus(h, s)
      BY <1>5, <2>1, <2>3 DEF HintInv, Told
    <2>5. QED
      BY <1>2, <1>5, <2>4
  <1>6. ASSUME target \notin desired, ~skipDeletes, OwnedByUs(snap, target),
               ~Current(h, s)
        PROVE  Resolve(snap, h, s) = {}
    <2>1. ~OwnedByUs(zone, target)
      BY <1>1, <1>6 DEF SuccessMeansSynced
    <2>2. Clear(target)
      BY <1>3, <1>6 DEF Foreign
    <2>3. QED
      BY <1>2, <1>4, <1>6, <2>1, <2>2
  <1>7. QED
    BY <1>5, <1>6

\* A cycle that reports success leaves the automatic hints current of all HTTPS
\* records that point at a host it kept or removed, whichever host the records
\* themselves are at: each of the six address requests asks the server for it,
\* and what others left behind is put right wherever the cycle had work to do.
THEOREM HintsStayCurrent ==
    ASSUME TidyWorld
    PROVE  Spec => []HintsCurrent
  <1>1. ReconcileInv /\ SyncInv /\ [Next]_vars => SyncInv'
    BY SyncNext
  <1>2. ReconcileInv /\ HintInv /\ [Next]_vars => HintInv'
    BY HintNext
  <1>3. ReconcileInv /\ SyncInv /\ HintInv => HintsCurrent
    BY HintInvImplies
  <1>4. QED
    BY <1>1, <1>2, <1>3, SyncInit, HintInit, ReconcileInvariant, PTL DEF Spec
=============================================================================
