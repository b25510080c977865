-------------------------- MODULE ReconcilerProofs --------------------------
(***************************************************************************)
(* Proofs about Reconciler, for every set of hosts, addresses, specs,      *)
(* configurations and edits, and for every bound: types, markers, and what *)
(* a cycle may do.                                                         *)
(***************************************************************************)
EXTENDS Reconciler, FiniteSetTheorems, TLAPS

-----------------------------------------------------------------------------
(* The operators the model is built from. *)

\* An optional request or call is a sequence of at most one of them.
LEMMA WhenType ==
    ASSUME NEW S, NEW q \in S, NEW c
    PROVE  When(c, q) \in Seq(S)
  BY DEF When

LEMMA ConcatType ==
    ASSUME NEW S, NEW s \in Seq(S), NEW t \in Seq(S)
    PROVE  s \o t \in Seq(S)
  OBVIOUS

\* What the record constructors build.
LEMMA RecordTypes ==
    /\ \A h \in Hosts, ip \in IPv4s : ARecord(h, ip) \in Records
    /\ \A h \in Hosts, ip \in IPv6s : AAAARecord(h, ip) \in Records
    /\ \A h \in Hosts, s \in Specs : HTTPSRecord(h, s) \in Records
    /\ \A h \in Hosts : Marker(h) \in Records
  BY SelfAssumption
  DEF Records, ARecord, AAAARecord, HTTPSRecord, Marker, MarkerRecord

\* What the snapshot's lists hold.
LEMMA SnapshotTypes ==
    ASSUME NEW z \in SUBSET Records, NEW h \in Hosts
    PROVE  /\ AIPs(z, h) \subseteq IPv4s
           /\ AAAAIPs(z, h) \subseteq IPv6s
           /\ HTTPSSpecs(z, h) \subseteq Specs
  BY DEF AIPs, AAAAIPs, HTTPSSpecs, Records

LEMMA ResolveType ==
    ASSUME NEW z \in SUBSET Records, NEW h, NEW s
    PROVE  Resolve(z, h, s) \in SUBSET Addresses
  BY DEF Resolve, Records, AddressTypes, Addresses

LEMMA ZoneAfterType ==
    ASSUME NEW z \in SUBSET Records, NEW q \in Requests
    PROVE  ZoneAfter(z, q) \in SUBSET Records
  BY DEF ZoneAfter, Written, Removed, Requests

LEMMA HintsAfterType ==
    ASSUME NEW z \in SUBSET Records, NEW q \in Requests, NEW update,
           NEW hs \in [Hosts \X Specs -> SUBSET Addresses]
    PROVE  HintsAfter(z, hs, q, update) \in [Hosts \X Specs -> SUBSET Addresses]
  BY ZoneAfterType, ResolveType DEF HintsAfter

\* The hosts Zoraxy's rules stand for, of which there are finitely many.
LEMMA DerivedType ==
    ASSUME NEW rs \in SUBSET ProxyHosts
    PROVE  /\ DeriveDesiredHostnames(rs) \in SUBSET Hosts
           /\ Cardinality(DeriveDesiredHostnames(rs)) \in Nat
  <1>1. \A r \in rs : r.root \in Names /\ r.aliases \in SUBSET Names
    BY ProxyHostsAssumption DEF ProxyHost
  <1>2. DeriveDesiredHostnames(rs) \in SUBSET Hosts
    BY <1>1 DEF DeriveDesiredHostnames, Names
  <1>3. QED
    BY <1>2, HostsAssumption, FS_Subset, FS_CardinalityType

\* The requests of the client's methods are requests.
LEMMA RequestTypes ==
    /\ \A h \in Hosts : CheckOwnership(h) \in Requests
    /\ \A r \in Records : AddRecord(r) \in Requests
    /\ \A r \in Records, new \in Records, hint \in SUBSET Addresses :
          UpdateRecord(r, new, hint) \in Requests
    /\ \A r \in Records, hint \in SUBSET Addresses :
          DeleteRecord(r, hint) \in Requests
  BY RecordTypes
  DEF Requests, Request, CheckOwnership, AddRecord, UpdateRecord, DeleteRecord

\* The client's methods are sequences of requests, whatever they are asked for.
LEMMA CreateHostType ==
    ASSUME NEW h \in Hosts, NEW ip4 \in IPv4s, NEW ip6 \in IPv6s \cup {Blank},
           NEW https \in Specs \cup {Blank}
    PROVE  CreateHost(h, ip4, ip6, https) \in Seq(Requests)
  <1>1. <<AddRecord(Marker(h)), AddRecord(ARecord(h, ip4))>> \in Seq(Requests)
    BY RecordTypes, RequestTypes
  <1>2. When(ip6 # Blank, AddRecord(AAAARecord(h, ip6))) \in Seq(Requests)
    BY RecordTypes, RequestTypes DEF When
  <1>3. When(https # Blank, AddRecord(HTTPSRecord(h, https))) \in Seq(Requests)
    BY RecordTypes, RequestTypes DEF When
  <1>4. QED
    BY <1>1, <1>2, <1>3, ConcatType DEF CreateHost

LEMMA DeleteHostType ==
    ASSUME NEW h \in Hosts, NEW ip4 \in IPv4s \cup {Blank},
           NEW ip6 \in IPv6s \cup {Blank}, NEW https \in Specs \cup {Blank},
           NEW hint \in SUBSET Addresses
    PROVE  DeleteHost(h, ip4, ip6, https, hint) \in Seq(Requests)
  <1>1. <<CheckOwnership(h)>> \in Seq(Requests)
    BY RequestTypes
  <1>2. When(https # Blank, DeleteRecord(HTTPSRecord(h, https), hint))
           \in Seq(Requests)
    BY RecordTypes, RequestTypes DEF When
  <1>3. When(ip4 # Blank, DeleteRecord(ARecord(h, ip4), {})) \in Seq(Requests)
    BY RecordTypes, RequestTypes DEF When
  <1>4. When(ip6 # Blank, DeleteRecord(AAAARecord(h, ip6), {})) \in Seq(Requests)
    BY RecordTypes, RequestTypes DEF When
  <1>5. <<DeleteRecord(Marker(h), {})>> \in Seq(Requests)
    BY RecordTypes, RequestTypes
  <1>6. QED
    BY <1>1, <1>2, <1>3, <1>4, <1>5, ConcatType DEF DeleteHost

LEMMA RepairTypes ==
    ASSUME NEW h \in Hosts
    PROVE  /\ \A s \in Specs : CreateHTTPS(h, s) \in Seq(Requests)
           /\ \A s \in Specs, t \in Specs, hint \in SUBSET Addresses :
                 UpdateHTTPS(h, s, hint, t) \in Seq(Requests)
           /\ \A s \in Specs, hint \in SUBSET Addresses :
                 DeleteHTTPSOnly(h, s, hint) \in Seq(Requests)
           /\ \A ip \in IPv4s, new \in IPv4s :
                 UpdateA(h, ip, new) \in Seq(Requests)
           /\ \A ip \in IPv6s : CreateAAAA(h, ip) \in Seq(Requests)
           /\ \A ip \in IPv6s, new \in IPv6s :
                 UpdateAAAA(h, ip, new) \in Seq(Requests)
           /\ \A ip \in IPv6s : DeleteAAAAOnly(h, ip) \in Seq(Requests)
  BY RecordTypes, RequestTypes
  DEF CreateHTTPS, UpdateHTTPS, DeleteHTTPSOnly, UpdateA, CreateAAAA,
      UpdateAAAA, DeleteAAAAOnly

\* What Reconcile may pick from the snapshot, and the calls it then makes.
LEMMA FirstTypes ==
    ASSUME NEW z \in SUBSET Records, NEW h \in Hosts
    PROVE  /\ \A a \in First(AIPs(z, h)) : a \in IPv4s \cup {Blank}
           /\ \A a \in First(AAAAIPs(z, h)) : a \in IPv6s \cup {Blank}
           /\ \A s \in First(HTTPSSpecs(z, h)) : s \in Specs \cup {Blank}
  BY SnapshotTypes DEF First

LEMMA RemoveCallType ==
    ASSUME NEW h \in Hosts, NEW hs \in [Hosts \X Specs -> SUBSET Addresses],
           NEW a \in IPv4s \cup {Blank}, NEW aaaa \in IPv6s \cup {Blank},
           NEW https \in Specs \cup {Blank}
    PROVE  RemoveCall(h, hs, a, aaaa, https) \in Seq(Requests)
  BY DeleteHostType DEF RemoveCall

LEMMA EnsureCallsType ==
    ASSUME NEW h \in Hosts, NEW o \in Configs, NEW z \in SUBSET Records,
           NEW hs \in [Hosts \X Specs -> SUBSET Addresses],
           NEW a \in IPv4s \cup {Blank}, NEW aaaa \in IPv6s \cup {Blank},
           NEW https \in Specs \cup {Blank}
    PROVE  EnsureCalls(h, o, z, hs, a, aaaa, https) \in Seq(Seq(Requests))
  <1>1. /\ o.ip4 \in IPv4s
        /\ o.ip6 \in IPv6s \cup {Blank}
        /\ o.spec \in Specs
        /\ o.aaaa => o.ip6 \in IPv6s
    BY ConfigsAssumption DEF ConfigType
  <1>2. CASE a = Blank
    <2>1. CreateCall(h, o, https) \in Seq(Requests)
      BY <1>1, CreateHostType DEF CreateCall
    <2>2. QED
      BY <1>2, <2>1 DEF EnsureCalls
  <1>3. CASE a # Blank
    <2>1. When(o.https /\ https # Blank /\ https # o.spec,
               UpdateHTTPS(h, https, hs[<<h, https>>], o.spec))
            \in Seq(Seq(Requests))
      BY <1>1, RepairTypes DEF When
    <2>2. When(~o.https /\ https # Blank,
               DeleteHTTPSOnly(h, https, hs[<<h, https>>]))
            \in Seq(Seq(Requests))
      BY <1>1, RepairTypes DEF When
    <2>3. When(NeedsUpdate(AIPs(z, h), o.ip4), UpdateA(h, a, o.ip4))
            \in Seq(Seq(Requests))
      BY <1>1, <1>3, RepairTypes DEF When
    <2>4. When(o.aaaa /\ aaaa = Blank, CreateAAAA(h, o.ip6))
            \in Seq(Seq(Requests))
      BY <1>1, RepairTypes DEF When
    <2>5. When(o.aaaa /\ aaaa # Blank /\ NeedsUpdate(AAAAIPs(z, h), o.ip6),
               UpdateAAAA(h, aaaa, o.ip6))
            \in Seq(Seq(Requests))
      BY <1>1, RepairTypes DEF When
    <2>6. When(~o.aaaa /\ aaaa # Blank, DeleteAAAAOnly(h, aaaa))
            \in Seq(Seq(Requests))
      BY <1>1, RepairTypes DEF When
    <2>7. When(o.https /\ https = Blank, CreateHTTPS(h, o.spec))
            \in Seq(Seq(Requests))
      BY <1>1, RepairTypes DEF When
    <2>8. RepairCalls(h, o, z, hs, a, aaaa, https) \in Seq(Seq(Requests))
      BY <2>1, <2>2, <2>3, <2>4, <2>5, <2>6, <2>7, ConcatType DEF RepairCalls
    <2>9. QED
      BY <1>3, <2>8 DEF EnsureCalls
  <1>4. QED
    BY <1>2, <1>3

-----------------------------------------------------------------------------
(* Types. *)

LEMMA TypeInit == Init => TypeOK
  <1>1. ASSUME Init
        PROVE  TypeOK
    <2>1. zone \in SUBSET Records
      BY <1>1, AdminAssumption DEF Init
    <2>2. hints \in [Hosts \X Specs -> SUBSET Addresses]
      BY <1>1, <2>1, ResolveType DEF Init
    <2>3. snapHints \in [Hosts \X Specs -> SUBSET Addresses]
      BY <1>1 DEF Init, NoHints
    <2>4. made \in SUBSET Records
      BY <1>1, <2>1 DEF Init
    <2>5. /\ calls \in Seq(Seq(Requests)) /\ reqs \in Seq(Requests)
          /\ edits \in 0..MaxEdits /\ faults \in 0..MaxFaults
      BY <1>1, BoundsAssumption DEF Init
    <2>6. QED
      BY <1>1, <2>1, <2>2, <2>3, <2>4, <2>5 DEF Init, TypeOK, Phases
  <1>2. QED
    BY <1>1

\* A request the server carries out, and one that it may have carried out.
LEMMA ServeType ==
    ASSUME TypeOK, NEW q \in Requests, Serve(q)
    PROVE  /\ zone' \in SUBSET Records
           /\ hints' \in [Hosts \X Specs -> SUBSET Addresses]
           /\ made' \in SUBSET Records
  BY ZoneAfterType, HintsAfterType DEF TypeOK, Serve

LEMMA PerhapsServedType ==
    ASSUME TypeOK, PerhapsServed
    PROVE  /\ zone' \in SUBSET Records
           /\ hints' \in [Hosts \X Specs -> SUBSET Addresses]
           /\ made' \in SUBSET Records
           /\ late' \in SUBSET Requests
  <1>1. CASE Sent /\ Serve(Head(reqs)) /\ UNCHANGED late
    <2>1. Head(reqs) \in Requests
      BY <1>1 DEF Sent, TypeOK
    <2>2. QED
      BY <1>1, <2>1, ServeType DEF TypeOK
  <1>2. CASE Sent /\ late' = late \cup {Head(reqs)}
               /\ UNCHANGED <<zone, hints, made>>
    <2>1. Head(reqs) \in Requests
      BY <1>2 DEF Sent, TypeOK
    <2>2. QED
      BY <1>2, <2>1 DEF TypeOK
  <1>3. CASE UNCHANGED serverVars
    BY <1>3 DEF TypeOK, serverVars
  <1>4. QED
    BY <1>1, <1>2, <1>3 DEF PerhapsServed

LEMMA AdministerType ==
    ASSUME TypeOK, NEW q \in Requests, Administer(q)
    PROVE  TypeOK'
  <1>1. zone' \in SUBSET Records
    BY ZoneAfterType DEF TypeOK, Administer
  <1>2. hints' \in [Hosts \X Specs -> SUBSET Addresses]
    <2>1. PICK update \in BOOLEAN : hints' = HintsAfter(zone, hints, q, update)
      BY DEF Administer
    <2>2. QED
      BY <2>1, HintsAfterType DEF TypeOK
  <1>3. edits' \in 0..MaxEdits
    BY BoundsAssumption DEF TypeOK, Administer, Edit
  <1>4. QED
    BY <1>1, <1>2, <1>3 DEF TypeOK, Administer, cycleVars

LEMMA TypeNext == TypeOK /\ [Next]_vars => TypeOK'
  <1> SUFFICES ASSUME TypeOK, [Next]_vars
               PROVE  TypeOK'
    OBVIOUS
  <1>1. CASE BeginCycle
    BY <1>1 DEF BeginCycle, TypeOK, serverVars, Phases
  <1>2. CASE ListHosts
    <2>1. /\ desired' \in SUBSET Hosts
          /\ lastGood' \in Nat
      BY <1>2, DerivedType DEF ListHosts, TypeOK
    <2>2. skipDeletes' \in BOOLEAN
      BY <1>2 DEF ListHosts, TooFew
    <2>3. QED
      BY <1>2, <2>1, <2>2 DEF ListHosts, TypeOK, serverVars, Phases
  <1>3. CASE ReadZone
    BY <1>3 DEF ReadZone, TypeOK, serverVars, Phases
  <1>4. CASE ReadFails
    BY <1>4, BoundsAssumption
    DEF ReadFails, TypeOK, serverVars, Phases, Failures
  <1>5. ASSUME NEW h \in Hosts, SkipForeign(h)
        PROVE  TypeOK'
    BY <1>5 DEF SkipForeign, TypeOK, serverVars
  <1>6. ASSUME NEW h \in Hosts, EnsureHost(h)
        PROVE  TypeOK'
    <2>1. PICK a \in First(AIPs(snap, h)), aaaa \in First(AAAAIPs(snap, h)),
               https \in First(HTTPSSpecs(snap, h)) :
            calls' = EnsureCalls(h, opts, snap, snapHints, a, aaaa, https)
      BY <1>6 DEF EnsureHost
    <2>2. calls' \in Seq(Seq(Requests))
      BY <2>1, FirstTypes, EnsureCallsType DEF TypeOK
    <2>3. QED
      BY <1>6, <2>2 DEF EnsureHost, TypeOK, serverVars
  <1>7. ASSUME NEW h \in Hosts, RemoveHost(h)
        PROVE  TypeOK'
    <2>1. PICK a \in First(AIPs(snap, h)), aaaa \in First(AAAAIPs(snap, h)),
               https \in First(HTTPSSpecs(snap, h)) :
            calls' = <<RemoveCall(h, snapHints, a, aaaa, https)>>
      BY <1>7 DEF RemoveHost
    <2>2. RemoveCall(h, snapHints, a, aaaa, https) \in Seq(Requests)
      BY FirstTypes, RemoveCallType DEF TypeOK
    <2>3. QED
      BY <1>7, <2>1, <2>2 DEF RemoveHost, TypeOK, serverVars
  <1>8. CASE EnsureDone
    BY <1>8 DEF EnsureDone, TypeOK, serverVars, Phases, Unwanted
  <1>9. CASE RemoveDone
    BY <1>9 DEF RemoveDone, TypeOK, serverVars, Phases
  <1>10. CASE Report
    BY <1>10 DEF Report, TypeOK, serverVars, Phases, NoHints
  <1>11. CASE BeginCall
    BY <1>11 DEF BeginCall, TypeOK, serverVars
  <1>12. CASE Answered
    <2>1. Head(reqs) \in Requests /\ Tail(reqs) \in Seq(Requests)
      BY <1>12 DEF Answered, TypeOK
    <2>2. Serve(Head(reqs))
      BY <1>12 DEF Answered
    <2>3. QED
      BY <1>12, <2>1, <2>2, ServeType DEF Answered, TypeOK
  <1>13. CASE Refused
    BY <1>13 DEF Refused, TypeOK, serverVars, Failures
  <1>14. CASE Lost
    <2>1. PerhapsServed
      BY <1>14 DEF Lost
    <2>2. QED
      BY <1>14, <2>1, PerhapsServedType, BoundsAssumption
      DEF Lost, TypeOK, Failures
  <1>15. CASE NotSent
    BY <1>15 DEF NotSent, TypeOK, serverVars, Failures
  <1>16. ASSUME NEW r \in Records, AdminAdd(r) \/ AdminDelete(r)
         PROVE  TypeOK'
    <2>1. AddRecord(r) \in Requests /\ DeleteRecord(r, {}) \in Requests
      BY RequestTypes
    <2>2. QED
      BY <1>16, <2>1, AdministerType DEF AdminAdd, AdminDelete
  <1>17. CASE EditRules
    BY <1>17, BoundsAssumption
    DEF EditRules, Edit, TypeOK, serverVars, cycleVars
  <1>18. CASE EditConfig
    BY <1>18, BoundsAssumption
    DEF EditConfig, Edit, TypeOK, serverVars, cycleVars
  <1>19. CASE Crash
    <2>1. PerhapsServed
      BY <1>19 DEF Crash
    <2>2. /\ calls' \in Seq(Seq(Requests)) /\ reqs' \in Seq(Requests)
          /\ snapHints' \in [Hosts \X Specs -> SUBSET Addresses]
          /\ faults' \in 0..MaxFaults
      BY <1>19, BoundsAssumption DEF Crash, TypeOK, NoHints
    <2>3. QED
      BY <1>19, <2>1, <2>2, PerhapsServedType DEF Crash, TypeOK, Phases
  <1>20. ASSUME NEW q \in late, CarriedOutLate(q)
         PROVE  TypeOK'
    <2>1. q \in Requests /\ late' \in SUBSET Requests
      BY <1>20 DEF CarriedOutLate, TypeOK
    <2>2. CASE Accepted(zone, hints, q)
      <3>1. Serve(q)
        BY <1>20, <2>2 DEF CarriedOutLate
      <3>2. QED
        BY <1>20, <2>1, <3>1, ServeType DEF CarriedOutLate, TypeOK, cycleVars
    <2>3. CASE ~Accepted(zone, hints, q)
      BY <1>20, <2>1, <2>3 DEF CarriedOutLate, TypeOK, cycleVars
    <2>4. QED
      BY <2>2, <2>3
  <1>21. CASE UNCHANGED vars
    BY <1>21 DEF vars, serverVars, cycleVars, TypeOK
  <1>22. QED
    BY <1>1, <1>2, <1>3, <1>4, <1>5, <1>6, <1>7, <1>8, <1>9, <1>10, <1>11,
       <1>12, <1>13, <1>14, <1>15, <1>16, <1>17, <1>18, <1>19, <1>20, <1>21
    DEF Next, Plugin, Environment

\* Every variable keeps its type: the plugin only ever sends requests about
\* records that exist as such, never one with an absent address or spec (the
\* blank address and the nil spec of CreateHost and DeleteHost).
THEOREM TypeCorrect == Spec => []TypeOK
  BY TypeInit, TypeNext, PTL DEF Spec

-----------------------------------------------------------------------------
(***************************************************************************)
(* The marker.  WriteUnderMarker is not inductive: it speaks of the next   *)
(* request only.  What makes it so is the shape of every call (Guarded):   *)
(* it opens with the request that finds or plants the marker, stays at one *)
(* host, and takes the marker away with its last request if at all; and    *)
(* that a call under way has passed its opening under a marker that still  *)
(* stands.                                                                 *)
(***************************************************************************)
Opens(q) ==
    /\ q.verb \in {"check", "add"}
    /\ q.rec = Marker(q.rec.host)
    /\ q.new = q.rec

KeepsMarkers(q) ==
    q.verb \in {"update", "delete"} => q.rec.type \in HostTypes

\* Requests at host h none of which takes a marker away.
Body(h, s) ==
    /\ s \in Seq(Requests)
    /\ \A i \in 1..Len(s) : s[i].rec.host = h /\ KeepsMarkers(s[i])

\* What may be left of a call: one host, the marker goes with the last request.
Orderly(s) ==
    /\ \A i \in 1..Len(s) : s[i].rec.host = s[1].rec.host
    /\ \A i \in 1..Len(s) : i < Len(s) => KeepsMarkers(s[i])

Guarded(s) ==
    /\ s \in Seq(Requests)
    /\ s # <<>>
    /\ Opens(s[1])
    /\ Orderly(s)

AllGuarded(cs) ==
    /\ cs \in Seq(Seq(Requests))
    /\ \A i \in 1..Len(cs) : Guarded(cs[i])

MarkerInv ==
    /\ late = {}
    /\ AllGuarded(calls)
    /\ Orderly(reqs)
    /\ reqs # <<>> =>
          \/ Opens(Head(reqs))
          \/ OwnedByUs(zone, Head(reqs).rec.host)
    /\ phase \notin {"ensure", "remove"} => BetweenHosts

-----------------------------------------------------------------------------
(* Every method of the client has that shape. *)

LEMMA BodyWhen ==
    ASSUME NEW h, NEW q \in Requests, NEW c, q.rec.host = h, KeepsMarkers(q)
    PROVE  Body(h, When(c, q))
  BY DEF Body, When

LEMMA BodyConcat ==
    ASSUME NEW h, NEW s, NEW t, Body(h, s), Body(h, t)
    PROVE  Body(h, s \o t)
  BY DEF Body

LEMMA FirstOfConcat ==
    ASSUME NEW s \in Seq(Requests), NEW t \in Seq(Requests), s # <<>>
    PROVE  s \o t # <<>> /\ (s \o t)[1] = s[1]
  OBVIOUS

\* A body that opens with the marker is a call; so is one with a last request.
LEMMA GuardedBody ==
    ASSUME NEW h, NEW s, Body(h, s), s # <<>>, Opens(s[1])
    PROVE  Guarded(s)
  BY DEF Body, Guarded, Orderly

LEMMA GuardedThenLast ==
    ASSUME NEW h, NEW s, Body(h, s), s # <<>>, Opens(s[1]),
           NEW q \in Requests, q.rec.host = h
    PROVE  Guarded(s \o <<q>>)
  BY DEF Body, Guarded, Orderly

\* The single requests.
LEMMA RequestShapes ==
    ASSUME NEW h \in Hosts
    PROVE  /\ Opens(CheckOwnership(h)) /\ Opens(AddRecord(Marker(h)))
           /\ CheckOwnership(h).rec.host = h /\ KeepsMarkers(CheckOwnership(h))
           /\ \A r : /\ AddRecord(r).rec.host = r.host
                     /\ KeepsMarkers(AddRecord(r))
           /\ \A r, new, hint :
                 /\ UpdateRecord(r, new, hint).rec.host = r.host
                 /\ r.type \in HostTypes => KeepsMarkers(UpdateRecord(r, new, hint))
           /\ \A r, hint :
                 /\ DeleteRecord(r, hint).rec.host = r.host
                 /\ r.type \in HostTypes => KeepsMarkers(DeleteRecord(r, hint))
  BY DEF Opens, KeepsMarkers, CheckOwnership, AddRecord, UpdateRecord,
         DeleteRecord, Request, Marker, MarkerRecord

LEMMA RecordShapes ==
    ASSUME NEW h
    PROVE  /\ Marker(h).host = h
           /\ \A x : ARecord(h, x).host = h /\ ARecord(h, x).type \in HostTypes
           /\ \A x : AAAARecord(h, x).host = h /\ AAAARecord(h, x).type \in HostTypes
           /\ \A x : HTTPSRecord(h, x).host = h /\ HTTPSRecord(h, x).type \in HostTypes
  BY DEF Marker, MarkerRecord, ARecord, AAAARecord, HTTPSRecord, HostTypes

LEMMA CreateHostGuarded ==
    ASSUME NEW h \in Hosts, NEW ip4 \in IPv4s, NEW ip6 \in IPv6s \cup {Blank},
           NEW https \in Specs \cup {Blank}
    PROVE  Guarded(CreateHost(h, ip4, ip6, https))
  <1> DEFINE open == <<AddRecord(Marker(h)), AddRecord(ARecord(h, ip4))>>
             v6   == When(ip6 # Blank, AddRecord(AAAARecord(h, ip6)))
             svc  == When(https # Blank, AddRecord(HTTPSRecord(h, https)))
  <1>1. Body(h, open) /\ open # <<>> /\ Opens(open[1])
    BY RecordTypes, RequestTypes, RequestShapes, RecordShapes DEF Body
  <1>2. Body(h, v6)
    BY RecordTypes, RequestTypes, RequestShapes, RecordShapes DEF Body, When
  <1>3. Body(h, svc)
    BY RecordTypes, RequestTypes, RequestShapes, RecordShapes DEF Body, When
  <1> HIDE DEF open, v6, svc
  <1>4. Body(h, open \o v6) /\ open \o v6 # <<>> /\ Opens((open \o v6)[1])
    BY <1>1, <1>2, BodyConcat, FirstOfConcat DEF Body
  <1>5. Body(h, open \o v6 \o svc) /\ open \o v6 \o svc # <<>>
           /\ Opens((open \o v6 \o svc)[1])
    BY <1>3, <1>4, BodyConcat, FirstOfConcat DEF Body
  <1>6. CreateHost(h, ip4, ip6, https) = open \o v6 \o svc
    BY DEF CreateHost, open, v6, svc
  <1>7. QED
    BY <1>5, <1>6, GuardedBody

LEMMA DeleteHostGuarded ==
    ASSUME NEW h \in Hosts, NEW ip4 \in IPv4s \cup {Blank},
           NEW ip6 \in IPv6s \cup {Blank}, NEW https \in Specs \cup {Blank},
           NEW hint \in SUBSET Addresses
    PROVE  Guarded(DeleteHost(h, ip4, ip6, https, hint))
  <1> DEFINE open == <<CheckOwnership(h)>>
             svc  == When(https # Blank, DeleteRecord(HTTPSRecord(h, https), hint))
             v4   == When(ip4 # Blank, DeleteRecord(ARecord(h, ip4), {}))
             v6   == When(ip6 # Blank, DeleteRecord(AAAARecord(h, ip6), {}))
             last == DeleteRecord(Marker(h), {})
  <1>1. Body(h, open) /\ open # <<>> /\ Opens(open[1])
    BY RequestTypes, RequestShapes DEF Body
  <1>2. Body(h, svc)
    BY RecordTypes, RequestTypes, RequestShapes, RecordShapes DEF Body, When
  <1>3. Body(h, v4)
    BY RecordTypes, RequestTypes, RequestShapes, RecordShapes DEF Body, When
  <1>4. Body(h, v6)
    BY RecordTypes, RequestTypes, RequestShapes, RecordShapes DEF Body, When
  <1>5. last \in Requests /\ last.rec.host = h
    BY RecordTypes, RequestTypes, RequestShapes, RecordShapes
  <1>6. DeleteHost(h, ip4, ip6, https, hint)
          = open \o svc \o v4 \o v6 \o <<last>>
    BY DEF DeleteHost
  <1> HIDE DEF open, svc, v4, v6, last
  <1>7. Body(h, open \o svc) /\ open \o svc # <<>> /\ Opens((open \o svc)[1])
    BY <1>1, <1>2, BodyConcat, FirstOfConcat DEF Body
  <1>8. Body(h, open \o svc \o v4) /\ open \o svc \o v4 # <<>>
           /\ Opens((open \o svc \o v4)[1])
    BY <1>3, <1>7, BodyConcat, FirstOfConcat DEF Body
  <1>9. Body(h, open \o svc \o v4 \o v6) /\ open \o svc \o v4 \o v6 # <<>>
           /\ Opens((open \o svc \o v4 \o v6)[1])
    BY <1>4, <1>8, BodyConcat, FirstOfConcat DEF Body
  <1>10. QED
    BY <1>5, <1>6, <1>9, GuardedThenLast

\* A checked request: the methods that repair one record type of a host.
LEMMA CheckedGuarded ==
    ASSUME NEW h \in Hosts, NEW q \in Requests, q.rec.host = h, KeepsMarkers(q)
    PROVE  Guarded(<<CheckOwnership(h), q>>)
  <1> DEFINE open == CheckOwnership(h)
  <1>1. open \in Requests /\ open.rec.host = h /\ KeepsMarkers(open) /\ Opens(open)
    BY RequestTypes, RequestShapes
  <1> HIDE DEF open
  <1>2. Body(h, <<open, q>>) /\ <<open, q>> # <<>> /\ Opens(<<open, q>>[1])
    BY <1>1 DEF Body
  <1>3. QED
    BY <1>2, GuardedBody DEF open

LEMMA RepairGuarded ==
    ASSUME NEW h \in Hosts
    PROVE  /\ \A s \in Specs : Guarded(CreateHTTPS(h, s))
           /\ \A s \in Specs, t \in Specs, hint \in SUBSET Addresses :
                 Guarded(UpdateHTTPS(h, s, hint, t))
           /\ \A s \in Specs, hint \in SUBSET Addresses :
                 Guarded(DeleteHTTPSOnly(h, s, hint))
           /\ \A ip \in IPv4s, new \in IPv4s : Guarded(UpdateA(h, ip, new))
           /\ \A ip \in IPv6s : Guarded(CreateAAAA(h, ip))
           /\ \A ip \in IPv6s, new \in IPv6s : Guarded(UpdateAAAA(h, ip, new))
           /\ \A ip \in IPv6s : Guarded(DeleteAAAAOnly(h, ip))
  BY RecordTypes, RequestTypes, RequestShapes, RecordShapes, CheckedGuarded
  DEF CreateHTTPS, UpdateHTTPS, DeleteHTTPSOnly, UpdateA, CreateAAAA,
      UpdateAAAA, DeleteAAAAOnly

LEMMA AllGuardedOne ==
    ASSUME NEW s, Guarded(s)
    PROVE  AllGuarded(<<s>>)
  BY DEF AllGuarded, Guarded

LEMMA AllGuardedConcat ==
    ASSUME NEW s, NEW t, AllGuarded(s), AllGuarded(t)
    PROVE  AllGuarded(s \o t)
  BY DEF AllGuarded

LEMMA RemoveCallGuarded ==
    ASSUME NEW h \in Hosts, NEW hs \in [Hosts \X Specs -> SUBSET Addresses],
           NEW a \in IPv4s \cup {Blank}, NEW aaaa \in IPv6s \cup {Blank},
           NEW https \in Specs \cup {Blank}
    PROVE  AllGuarded(<<RemoveCall(h, hs, a, aaaa, https)>>)
  <1>1. Guarded(RemoveCall(h, hs, a, aaaa, https))
    BY DeleteHostGuarded DEF RemoveCall
  <1>2. QED
    BY <1>1, AllGuardedOne

LEMMA EnsureCallsGuarded ==
    ASSUME NEW h \in Hosts, NEW o \in Configs, NEW z \in SUBSET Records,
           NEW hs \in [Hosts \X Specs -> SUBSET Addresses],
           NEW a \in IPv4s \cup {Blank}, NEW aaaa \in IPv6s \cup {Blank},
           NEW https \in Specs \cup {Blank}
    PROVE  AllGuarded(EnsureCalls(h, o, z, hs, a, aaaa, https))
  <1>1. /\ o.ip4 \in IPv4s
        /\ o.ip6 \in IPv6s \cup {Blank}
        /\ o.spec \in Specs
        /\ o.aaaa => o.ip6 \in IPv6s
    BY ConfigsAssumption DEF ConfigType
  <1>2. CASE a = Blank
    <2>1. Guarded(CreateCall(h, o, https))
      BY <1>1, CreateHostGuarded DEF CreateCall
    <2>2. QED
      BY <1>2, <2>1, AllGuardedOne DEF EnsureCalls
  <1>3. CASE a # Blank
    <2>1. AllGuarded(When(o.https /\ https # Blank /\ https # o.spec,
                          UpdateHTTPS(h, https, hs[<<h, https>>], o.spec)))
      BY <1>1, RepairTypes, RepairGuarded DEF When, AllGuarded
    <2>2. AllGuarded(When(~o.https /\ https # Blank,
                          DeleteHTTPSOnly(h, https, hs[<<h, https>>])))
      BY <1>1, RepairTypes, RepairGuarded DEF When, AllGuarded
    <2>3. AllGuarded(When(NeedsUpdate(AIPs(z, h), o.ip4), UpdateA(h, a, o.ip4)))
      BY <1>1, <1>3, RepairTypes, RepairGuarded DEF When, AllGuarded
    <2>4. AllGuarded(When(o.aaaa /\ aaaa = Blank, CreateAAAA(h, o.ip6)))
      BY <1>1, RepairTypes, RepairGuarded DEF When, AllGuarded
    <2>5. AllGuarded(When(o.aaaa /\ aaaa # Blank
                            /\ NeedsUpdate(AAAAIPs(z, h), o.ip6),
                          UpdateAAAA(h, aaaa, o.ip6)))
      BY <1>1, RepairTypes, RepairGuarded DEF When, AllGuarded
    <2>6. AllGuarded(When(~o.aaaa /\ aaaa # Blank, DeleteAAAAOnly(h, aaaa)))
      BY <1>1, RepairTypes, RepairGuarded DEF When, AllGuarded
    <2>7. AllGuarded(When(o.https /\ https = Blank, CreateHTTPS(h, o.spec)))
      BY <1>1, RepairTypes, RepairGuarded DEF When, AllGuarded
    <2>8. AllGuarded(RepairCalls(h, o, z, hs, a, aaaa, https))
      BY <2>1, <2>2, <2>3, <2>4, <2>5, <2>6, <2>7, AllGuardedConcat
      DEF RepairCalls
    <2>9. QED
      BY <1>3, <2>8 DEF EnsureCalls
  <1>4. QED
    BY <1>2, <1>3

-----------------------------------------------------------------------------
(* The marker stands from the opening request of a call to its last. *)

\* A request that takes no marker away leaves every marker of ours standing.
LEMMA MarkerStays ==
    ASSUME NEW z \in SUBSET Records, NEW q \in Requests, KeepsMarkers(q),
           NEW h, OwnedByUs(z, h)
    PROVE  OwnedByUs(ZoneAfter(z, q), h)
  BY DEF OwnedByUs, ZoneAfter, Removed, KeepsMarkers, HostTypes, Marker,
         MarkerRecord

\* An opening request that is accepted finds or leaves the marker at its host.
LEMMA OpeningMarks ==
    ASSUME NEW z \in SUBSET Records, NEW hs, NEW q \in Requests, Opens(q),
           Accepted(z, hs, q)
    PROVE  OwnedByUs(ZoneAfter(z, q), q.rec.host)
  BY DEF OwnedByUs, ZoneAfter, Removed, Written, Opens, Accepted, Found

LEMMA OrderlyTail ==
    ASSUME NEW s \in Seq(Requests), Orderly(s), s # <<>>
    PROVE  /\ Orderly(Tail(s))
           /\ Tail(s) # <<>> => /\ Head(Tail(s)).rec.host = Head(s).rec.host
                                /\ KeepsMarkers(Head(s))
  BY DEF Orderly

\* Where no request comes late, none is put aside.
LEMMA NothingLate == MarkersHeld /\ PerhapsServed => UNCHANGED late
  BY LateAssumption DEF MarkersHeld, PerhapsServed, MayBeLate, serverVars

LEMMA MarkerInit == Init => MarkerInv
  BY DEF Init, MarkerInv, AllGuarded, Orderly, BetweenHosts

LEMMA MarkerNext ==
    MarkersHeld /\ TypeOK /\ MarkerInv /\ [Next]_vars => MarkerInv'
  <1> SUFFICES ASSUME MarkersHeld, TypeOK, MarkerInv, [Next]_vars
               PROVE  MarkerInv'
    OBVIOUS
  <1>1. CASE BeginCycle
    BY <1>1 DEF BeginCycle, MarkerInv, serverVars, BetweenHosts
  <1>2. CASE ListHosts
    BY <1>2 DEF ListHosts, MarkerInv, serverVars, BetweenHosts
  <1>3. CASE ReadZone
    BY <1>3 DEF ReadZone, MarkerInv, serverVars, BetweenHosts
  <1>4. CASE ReadFails
    BY <1>4 DEF ReadFails, MarkerInv, serverVars, BetweenHosts
  <1>5. ASSUME NEW h \in Hosts, SkipForeign(h)
        PROVE  MarkerInv'
    BY <1>5 DEF SkipForeign, MarkerInv, serverVars, BetweenHosts
  <1>6. ASSUME NEW h \in Hosts, EnsureHost(h)
        PROVE  MarkerInv'
    <2>1. PICK a \in First(AIPs(snap, h)), aaaa \in First(AAAAIPs(snap, h)),
               https \in First(HTTPSSpecs(snap, h)) :
            calls' = EnsureCalls(h, opts, snap, snapHints, a, aaaa, https)
      BY <1>6 DEF EnsureHost
    <2>2. AllGuarded(calls')
      BY <2>1, FirstTypes, EnsureCallsGuarded DEF TypeOK
    <2>3. QED
      BY <1>6, <2>2 DEF EnsureHost, MarkerInv, serverVars, BetweenHosts
  <1>7. ASSUME NEW h \in Hosts, RemoveHost(h)
        PROVE  MarkerInv'
    <2>1. PICK a \in First(AIPs(snap, h)), aaaa \in First(AAAAIPs(snap, h)),
               https \in First(HTTPSSpecs(snap, h)) :
            calls' = <<RemoveCall(h, snapHints, a, aaaa, https)>>
      BY <1>7 DEF RemoveHost
    <2>2. AllGuarded(calls')
      BY <2>1, FirstTypes, RemoveCallGuarded DEF TypeOK
    <2>3. QED
      BY <1>7, <2>2 DEF RemoveHost, MarkerInv, serverVars, BetweenHosts
  <1>8. CASE EnsureDone
    BY <1>8 DEF EnsureDone, MarkerInv, serverVars, BetweenHosts
  <1>9. CASE RemoveDone
    BY <1>9 DEF RemoveDone, MarkerInv, serverVars, BetweenHosts
  <1>10. CASE Report
    BY <1>10 DEF Report, MarkerInv, serverVars, BetweenHosts
  <1>11. CASE BeginCall
    <2>1. Guarded(reqs') /\ AllGuarded(calls')
      BY <1>11 DEF BeginCall, MarkerInv, AllGuarded
    <2>2. phase \in {"ensure", "remove"}
      BY <1>11 DEF BeginCall, MarkerInv, BetweenHosts
    <2>3. QED
      BY <1>11, <2>1, <2>2
      DEF BeginCall, MarkerInv, Guarded, serverVars, BetweenHosts
  <1>12. CASE Answered
    <2> DEFINE q == Head(reqs)
    <2>1. q \in Requests /\ Accepted(zone, hints, q) /\ zone' = ZoneAfter(zone, q)
      BY <1>12 DEF Answered, Serve, TypeOK
    <2>2. /\ Orderly(reqs')
          /\ reqs' # <<>> => Head(reqs').rec.host = q.rec.host /\ KeepsMarkers(q)
      BY <1>12, OrderlyTail DEF Answered, MarkerInv, TypeOK
    <2>3. ASSUME reqs' # <<>>
          PROVE  OwnedByUs(zone', q.rec.host)
      <3>1. CASE Opens(q)
        BY <2>1, <3>1, OpeningMarks DEF TypeOK
      <3>2. CASE OwnedByUs(zone, q.rec.host)
        BY <2>1, <2>2, <2>3, <3>2, MarkerStays DEF TypeOK
      <3>3. QED
        BY <1>12, <3>1, <3>2 DEF Answered, MarkerInv
    <2>4. phase \in {"ensure", "remove"}
      BY <1>12 DEF Answered, MarkerInv, BetweenHosts
    <2>5. QED
      BY <1>12, <2>2, <2>3, <2>4 DEF Answered, MarkerInv
  <1>13. CASE Refused
    BY <1>13 DEF Refused, MarkerInv, Orderly, serverVars, BetweenHosts
  <1>14. CASE Lost
    BY <1>14, NothingLate DEF Lost, MarkerInv, Orderly, BetweenHosts
  <1>15. CASE NotSent
    BY <1>15 DEF NotSent, MarkerInv, Orderly, serverVars, BetweenHosts
  <1>16. ASSUME NEW r \in Records, AdminAdd(r)
         PROVE  MarkerInv'
    <2>1. zone \subseteq zone' /\ UNCHANGED late
      BY <1>16 DEF AdminAdd, Administer, AddRecord, Request, ZoneAfter, Removed
    <2>2. QED
      BY <1>16, <2>1
      DEF AdminAdd, Administer, cycleVars, MarkerInv, OwnedByUs, BetweenHosts
  <1>17. ASSUME NEW r \in Records, AdminDelete(r)
         PROVE  MarkerInv'
    <2>1. /\ zone' = zone \ {r} /\ r \in AdminDeletes
          /\ UNCHANGED <<late, phase, calls, reqs>>
      BY <1>17 DEF AdminDelete, Administer, cycleVars, DeleteRecord, Request,
                   ZoneAfter, Removed, Written
    <2>2. CASE reqs = <<>>
      BY <2>1, <2>2 DEF MarkerInv, BetweenHosts
    <2>3. CASE reqs # <<>>
      <3>1. phase \in {"ensure", "remove"}
        BY <2>3 DEF MarkerInv, BetweenHosts
      <3>2. AdminWhen = "always"
        BY <1>17, <2>3, <3>1 DEF AdminDelete, Administer
      <3>3. Head(reqs).rec.host \in Hosts
        <4>1. Head(reqs) \in Requests
          BY <2>3 DEF TypeOK
        <4>2. QED
          BY <4>1 DEF Requests, Records
      <3>4. Marker(Head(reqs).rec.host) # r
        BY <2>1, <3>2, <3>3 DEF MarkersHeld
      <3>5. QED
        BY <2>1, <3>1, <3>4 DEF MarkerInv, OwnedByUs
    <2>4. QED
      BY <2>2, <2>3
  <1>18. CASE EditRules
    BY <1>18 DEF EditRules, MarkerInv, serverVars, cycleVars, BetweenHosts
  <1>19. CASE EditConfig
    BY <1>19 DEF EditConfig, MarkerInv, serverVars, cycleVars, BetweenHosts
  <1>20. CASE Crash
    BY <1>20, NothingLate
    DEF Crash, MarkerInv, AllGuarded, Orderly, BetweenHosts
  <1>21. ASSUME NEW q \in late, CarriedOutLate(q)
         PROVE  MarkerInv'
    BY <1>21 DEF MarkerInv
  <1>22. CASE UNCHANGED vars
    BY <1>22 DEF vars, serverVars, cycleVars, MarkerInv, BetweenHosts
  <1>23. QED
    BY <1>1, <1>2, <1>3, <1>4, <1>5, <1>6, <1>7, <1>8, <1>9, <1>10, <1>11,
       <1>12, <1>13, <1>14, <1>15, <1>16, <1>17, <1>18, <1>19, <1>20, <1>21,
       <1>22
    DEF Next, Plugin, Environment

\* An opening request names a TXT record, every other is covered by the marker.
LEMMA MarkerInvImplies == TypeOK /\ MarkerInv => WriteUnderMarker
  BY DEF MarkerInv, WriteUnderMarker, Opens, Marker, MarkerRecord, HostTypes

\* A/AAAA/HTTPS records are only written or deleted while our marker stands at
\* their host, in every cycle, life and interleaving, provided that nobody else
\* removes our markers in the middle of one of the client's calls.
THEOREM WritesUnderMarker ==
    ASSUME MarkersHeld
    PROVE  Spec => []WriteUnderMarker
  <1>1. TypeOK /\ MarkerInv /\ [Next]_vars => MarkerInv'
    BY MarkerNext
  <1>2. QED
    BY <1>1, TypeInit, TypeNext, MarkerInit, MarkerInvImplies, PTL DEF Spec

-----------------------------------------------------------------------------
(***************************************************************************)
(* What a whole cycle may do.  Where no request is carried out late it     *)
(* leaves a host alone that was foreign when the zone was read, and gives  *)
(* no host up unless the circuit breaker let it.  In every instance, the   *)
(* automatic hints follow what its requests do to addresses: for that, and *)
(* for the modules on top of this one, sequences of requests are turned    *)
(* into sets.                                                              *)
(***************************************************************************)

(* The calls of a host: every request names records of that host only, and *)
(* none but the last of DeleteHost takes a marker away.                    *)

At(h, q)   == q.rec.host = h /\ q.new.host = h
Calm(h, q) == At(h, q) /\ KeepsMarkers(q)

AllAt(h, s)   == s \in Seq(Requests) /\ \A i \in 1..Len(s) : At(h, s[i])
AllCalm(h, s) == s \in Seq(Requests) /\ \A i \in 1..Len(s) : Calm(h, s[i])

CallsAt(h, cs) ==
    cs \in Seq(Seq(Requests)) /\ \A i \in 1..Len(cs) : AllAt(h, cs[i])
CallsCalm(h, cs) ==
    cs \in Seq(Seq(Requests)) /\ \A i \in 1..Len(cs) : AllCalm(h, cs[i])

LEMMA RequestsCalm ==
    ASSUME NEW h \in Hosts
    PROVE  /\ Calm(h, CheckOwnership(h)) /\ Calm(h, AddRecord(Marker(h)))
           /\ At(h, DeleteRecord(Marker(h), {}))
           /\ \A ip : /\ Calm(h, AddRecord(ARecord(h, ip)))
                      /\ Calm(h, AddRecord(AAAARecord(h, ip)))
                      /\ Calm(h, AddRecord(HTTPSRecord(h, ip)))
           /\ \A ip, new, hint :
                 /\ Calm(h, UpdateRecord(ARecord(h, ip), ARecord(h, new), hint))
                 /\ Calm(h, UpdateRecord(AAAARecord(h, ip), AAAARecord(h, new), hint))
                 /\ Calm(h, UpdateRecord(HTTPSRecord(h, ip), HTTPSRecord(h, new), hint))
           /\ \A ip, hint :
                 /\ Calm(h, DeleteRecord(ARecord(h, ip), hint))
                 /\ Calm(h, DeleteRecord(AAAARecord(h, ip), hint))
                 /\ Calm(h, DeleteRecord(HTTPSRecord(h, ip), hint))
  BY DEF Calm, At, KeepsMarkers, CheckOwnership, AddRecord, UpdateRecord,
         DeleteRecord, Request, Marker, MarkerRecord, ARecord, AAAARecord,
         HTTPSRecord, HostTypes

LEMMA AllCalmWhen ==
    ASSUME NEW h, NEW q \in Requests, NEW c, Calm(h, q)
    PROVE  AllCalm(h, When(c, q))
  BY DEF AllCalm, When

LEMMA AllCalmConcat ==
    ASSUME NEW h, NEW s, NEW t, AllCalm(h, s), AllCalm(h, t)
    PROVE  AllCalm(h, s \o t)
  BY DEF AllCalm

LEMMA AllAtConcat ==
    ASSUME NEW h, NEW s, NEW t, AllAt(h, s), AllAt(h, t)
    PROVE  AllAt(h, s \o t)
  BY DEF AllAt

LEMMA AllCalmAt ==
    ASSUME NEW h, NEW s, AllCalm(h, s)
    PROVE  AllAt(h, s)
  BY DEF AllCalm, AllAt, Calm

LEMMA CallsCalmConcat ==
    ASSUME NEW h, NEW s, NEW t, CallsCalm(h, s), CallsCalm(h, t)
    PROVE  CallsCalm(h, s \o t)
  BY DEF CallsCalm

LEMMA CreateHostCalm ==
    ASSUME NEW h \in Hosts, NEW ip4 \in IPv4s, NEW ip6 \in IPv6s \cup {Blank},
           NEW https \in Specs \cup {Blank}
    PROVE  AllCalm(h, CreateHost(h, ip4, ip6, https))
  <1> DEFINE open == <<AddRecord(Marker(h)), AddRecord(ARecord(h, ip4))>>
             v6   == When(ip6 # Blank, AddRecord(AAAARecord(h, ip6)))
             svc  == When(https # Blank, AddRecord(HTTPSRecord(h, https)))
  <1>1. AllCalm(h, open)
    BY RecordTypes, RequestTypes, RequestsCalm DEF AllCalm
  <1>2. AllCalm(h, v6)
    BY RecordTypes, RequestTypes, RequestsCalm DEF AllCalm, When
  <1>3. AllCalm(h, svc)
    BY RecordTypes, RequestTypes, RequestsCalm DEF AllCalm, When
  <1>4. CreateHost(h, ip4, ip6, https) = open \o v6 \o svc
    BY DEF CreateHost
  <1> HIDE DEF open, v6, svc
  <1>5. QED
    BY <1>1, <1>2, <1>3, <1>4, AllCalmConcat

LEMMA RepairCalm ==
    ASSUME NEW h \in Hosts
    PROVE  /\ \A s \in Specs : AllCalm(h, CreateHTTPS(h, s))
           /\ \A s \in Specs, t \in Specs, hint \in SUBSET Addresses :
                 AllCalm(h, UpdateHTTPS(h, s, hint, t))
           /\ \A s \in Specs, hint \in SUBSET Addresses :
                 AllCalm(h, DeleteHTTPSOnly(h, s, hint))
           /\ \A ip \in IPv4s, new \in IPv4s : AllCalm(h, UpdateA(h, ip, new))
           /\ \A ip \in IPv6s : AllCalm(h, CreateAAAA(h, ip))
           /\ \A ip \in IPv6s, new \in IPv6s : AllCalm(h, UpdateAAAA(h, ip, new))
           /\ \A ip \in IPv6s : AllCalm(h, DeleteAAAAOnly(h, ip))
  <1>1. ASSUME NEW q \in Requests, Calm(h, q)
        PROVE  AllCalm(h, <<CheckOwnership(h), q>>)
    BY <1>1, RequestTypes, RequestsCalm DEF AllCalm
  <1>2. QED
    BY <1>1, RecordTypes, RequestTypes, RequestsCalm
    DEF CreateHTTPS, UpdateHTTPS, DeleteHTTPSOnly, UpdateA, CreateAAAA,
        UpdateAAAA, DeleteAAAAOnly

LEMMA EnsureCallsCalm ==
    ASSUME NEW h \in Hosts, NEW o \in Configs, NEW z \in SUBSET Records,
           NEW hs \in [Hosts \X Specs -> SUBSET Addresses],
           NEW a \in IPv4s \cup {Blank}, NEW aaaa \in IPv6s \cup {Blank},
           NEW https \in Specs \cup {Blank}
    PROVE  CallsCalm(h, EnsureCalls(h, o, z, hs, a, aaaa, https))
  <1>1. /\ o.ip4 \in IPv4s
        /\ o.ip6 \in IPv6s \cup {Blank}
        /\ o.spec \in Specs
        /\ o.aaaa => o.ip6 \in IPv6s
    BY ConfigsAssumption DEF ConfigType
  <1>2. CASE a = Blank
    <2>1. AllCalm(h, CreateCall(h, o, https))
      BY <1>1, CreateHostCalm DEF CreateCall
    <2>2. QED
      BY <1>2, <2>1 DEF EnsureCalls, CallsCalm, AllCalm
  <1>3. CASE a # Blank
    <2>1. CallsCalm(h, When(o.https /\ https # Blank /\ https # o.spec,
                            UpdateHTTPS(h, https, hs[<<h, https>>], o.spec)))
      BY <1>1, RepairTypes, RepairCalm DEF When, CallsCalm
    <2>2. CallsCalm(h, When(~o.https /\ https # Blank,
                            DeleteHTTPSOnly(h, https, hs[<<h, https>>])))
      BY <1>1, RepairTypes, RepairCalm DEF When, CallsCalm
    <2>3. CallsCalm(h, When(NeedsUpdate(AIPs(z, h), o.ip4), UpdateA(h, a, o.ip4)))
      BY <1>1, <1>3, RepairTypes, RepairCalm DEF When, CallsCalm
    <2>4. CallsCalm(h, When(o.aaaa /\ aaaa = Blank, CreateAAAA(h, o.ip6)))
      BY <1>1, RepairTypes, RepairCalm DEF When, CallsCalm
    <2>5. CallsCalm(h, When(o.aaaa /\ aaaa # Blank
                              /\ NeedsUpdate(AAAAIPs(z, h), o.ip6),
                            UpdateAAAA(h, aaaa, o.ip6)))
      BY <1>1, RepairTypes, RepairCalm DEF When, CallsCalm
    <2>6. CallsCalm(h, When(~o.aaaa /\ aaaa # Blank, DeleteAAAAOnly(h, aaaa)))
      BY <1>1, RepairTypes, RepairCalm DEF When, CallsCalm
    <2>7. CallsCalm(h, When(o.https /\ https = Blank, CreateHTTPS(h, o.spec)))
      BY <1>1, RepairTypes, RepairCalm DEF When, CallsCalm
    <2>8. QED
      BY <1>3, <2>1, <2>2, <2>3, <2>4, <2>5, <2>6, <2>7, CallsCalmConcat
      DEF EnsureCalls, RepairCalls
  <1>4. QED
    BY <1>2, <1>3

LEMMA RemoveCallAt ==
    ASSUME NEW h \in Hosts, NEW hs \in [Hosts \X Specs -> SUBSET Addresses],
           NEW a \in IPv4s \cup {Blank}, NEW aaaa \in IPv6s \cup {Blank},
           NEW https \in Specs \cup {Blank}
    PROVE  CallsAt(h, <<RemoveCall(h, hs, a, aaaa, https)>>)
  <1> DEFINE hint == IF https = Blank THEN {} ELSE hs[<<h, https>>]
             open == <<CheckOwnership(h)>>
             svc  == When(https # Blank, DeleteRecord(HTTPSRecord(h, https), hint))
             v4   == When(a # Blank, DeleteRecord(ARecord(h, a), {}))
             v6   == When(aaaa # Blank, DeleteRecord(AAAARecord(h, aaaa), {}))
             last == <<DeleteRecord(Marker(h), {})>>
  <1>0. hint \in SUBSET Addresses
    OBVIOUS
  <1>1. RemoveCall(h, hs, a, aaaa, https) = open \o svc \o v4 \o v6 \o last
    BY DEF RemoveCall, DeleteHost
  <1> HIDE DEF hint
  <1>2. AllCalm(h, open)
    BY RequestTypes, RequestsCalm DEF AllCalm
  <1>3. AllCalm(h, svc)
    BY <1>0, RecordTypes, RequestTypes, RequestsCalm DEF AllCalm, When
  <1>4. AllCalm(h, v4) /\ AllCalm(h, v6)
    BY RecordTypes, RequestTypes, RequestsCalm DEF AllCalm, When
  <1>5. AllAt(h, last)
    BY RecordTypes, RequestTypes, RequestsCalm DEF AllAt
  <1> HIDE DEF open, svc, v4, v6, last
  <1>6. AllAt(h, open \o svc \o v4 \o v6 \o last)
    BY <1>2, <1>3, <1>4, <1>5, AllCalmConcat, AllCalmAt, AllAtConcat
  <1>7. AllAt(h, RemoveCall(h, hs, a, aaaa, https))
    BY <1>1, <1>6
  <1>8. QED
    BY <1>7 DEF CallsAt, AllAt

-----------------------------------------------------------------------------
(***************************************************************************)
(* The requests a cycle still has to send follow from what it has read: no *)
(* host they name was foreign in the snapshot, and they take a marker away *)
(* only in the delete loop.  That loop is reached only with enough hosts   *)
(* polled, and its hosts are ours in the snapshot.                         *)
(***************************************************************************)
Proper(q) ==
    /\ q.new.host = q.rec.host
    /\ ~Foreign(snap, q.rec.host)
    /\ phase # "remove" => KeepsMarkers(q)

AllProper(s) == \A i \in 1..Len(s) : Proper(s[i])

Enough == 2 * Cardinality(desired) >= Cardinality(previous)

CycleInv ==
    /\ late = {}
    /\ AllProper(reqs)
    /\ \A i \in 1..Len(calls) : AllProper(calls[i])
    /\ phase \notin {"ensure", "remove"} => BetweenHosts
    /\ phase = "remove" => \A h \in todo : OwnedByUs(snap, h)
    /\ lastGood = Cardinality(desired)
    /\ Cardinality(desired) \in Nat /\ Cardinality(previous) \in Nat
    /\ phase \in {"read", "ensure"} /\ ~skipDeletes => Enough
    /\ phase = "remove" => Enough

LEMMA NoneLate == LateRequests = "never" /\ PerhapsServed => UNCHANGED late
  BY DEF PerhapsServed, MayBeLate, serverVars

LEMMA EmptySetCard == Cardinality({}) = 0
  BY FS_EmptySet

LEMMA CycleInit == Init => CycleInv
  BY EmptySetCard DEF Init, CycleInv, AllProper, BetweenHosts

LEMMA ProperTail ==
    ASSUME NEW s \in Seq(Requests), AllProper(s), s # <<>>
    PROVE  Proper(Head(s)) /\ AllProper(Tail(s))
  BY DEF AllProper

LEMMA CycleNext ==
    ASSUME LateRequests = "never", TypeOK, CycleInv, [Next]_vars
    PROVE  CycleInv'
  <1>1. CASE BeginCycle
    BY <1>1 DEF BeginCycle, CycleInv, AllProper, Proper, Enough, serverVars, BetweenHosts
  <1>2. CASE ListHosts
    <2>1. Cardinality(desired') \in Nat
      BY <1>2, DerivedType DEF ListHosts, TypeOK
    <2>2. ~skipDeletes' => Enough'
      <3> DEFINE now == Cardinality(desired')
                 before == Cardinality(desired)
      <3>1. /\ now \in Nat /\ before \in Nat /\ lastGood = before
            /\ Cardinality(previous') = before
        BY <1>2, <2>1 DEF ListHosts, CycleInv
      <3>2. ~skipDeletes' => ~TooFew(now, before)
        BY <1>2, <3>1 DEF ListHosts
      <3> HIDE DEF now, before
      <3>3. ~TooFew(now, before) => 2 * now >= before
        BY <3>1 DEF TooFew
      <3>4. QED
        BY <3>1, <3>2, <3>3 DEF Enough, now
    <2>3. /\ calls' = <<>> /\ reqs' = <<>> /\ UNCHANGED late
          /\ phase' = "read" /\ previous' = desired
          /\ lastGood' = Cardinality(desired')
      BY <1>2 DEF ListHosts, CycleInv, BetweenHosts, serverVars
    <2>4. QED
      BY <2>1, <2>2, <2>3 DEF CycleInv, AllProper, BetweenHosts
  <1>3. CASE ReadZone
    BY <1>3 DEF ReadZone, CycleInv, AllProper, Proper, Enough, serverVars, BetweenHosts
  <1>4. CASE ReadFails
    BY <1>4 DEF ReadFails, CycleInv, AllProper, Proper, Enough, serverVars, BetweenHosts
  <1>5. ASSUME NEW h \in Hosts, SkipForeign(h)
        PROVE  CycleInv'
    BY <1>5 DEF SkipForeign, CycleInv, AllProper, Proper, Enough, serverVars, BetweenHosts
  <1>6. ASSUME NEW h \in Hosts, EnsureHost(h)
        PROVE  CycleInv'
    <2>1. PICK a \in First(AIPs(snap, h)), aaaa \in First(AAAAIPs(snap, h)),
               https \in First(HTTPSSpecs(snap, h)) :
            calls' = EnsureCalls(h, opts, snap, snapHints, a, aaaa, https)
      BY <1>6 DEF EnsureHost
    <2>2. CallsCalm(h, calls')
      BY <2>1, FirstTypes, EnsureCallsCalm DEF TypeOK
    <2>3. /\ ~Foreign(snap', h) /\ phase' = "ensure" /\ phase = "ensure"
          /\ reqs' = <<>> /\ UNCHANGED late
          /\ UNCHANGED <<desired, previous, lastGood, skipDeletes>>
      BY <1>6 DEF EnsureHost, BetweenHosts, serverVars
    <2>4. \A i \in 1..Len(calls') : \A j \in 1..Len(calls'[i]) :
             /\ calls'[i][j].new.host = calls'[i][j].rec.host
             /\ ~Foreign(snap', calls'[i][j].rec.host)
             /\ phase' # "remove" => KeepsMarkers(calls'[i][j])
      BY <2>2, <2>3 DEF CallsCalm, AllCalm, Calm, At
    <2>5. QED
      BY <2>3, <2>4 DEF CycleInv, AllProper, Proper, Enough
  <1>7. ASSUME NEW h \in Hosts, RemoveHost(h)
        PROVE  CycleInv'
    <2>1. PICK a \in First(AIPs(snap, h)), aaaa \in First(AAAAIPs(snap, h)),
               https \in First(HTTPSSpecs(snap, h)) :
            calls' = <<RemoveCall(h, snapHints, a, aaaa, https)>>
      BY <1>7 DEF RemoveHost
    <2>2. CallsAt(h, calls')
      BY <2>1, FirstTypes, RemoveCallAt DEF TypeOK
    <2>3. /\ ~Foreign(snap', h) /\ phase' = "remove" /\ phase = "remove"
          /\ reqs' = <<>> /\ UNCHANGED late /\ todo' \subseteq todo
          /\ UNCHANGED <<snap, desired, previous, lastGood, skipDeletes>>
      BY <1>7 DEF RemoveHost, BetweenHosts, serverVars, CycleInv, Foreign
    <2>4. \A i \in 1..Len(calls') : \A j \in 1..Len(calls'[i]) :
             /\ calls'[i][j].new.host = calls'[i][j].rec.host
             /\ ~Foreign(snap', calls'[i][j].rec.host)
             /\ phase' # "remove" => KeepsMarkers(calls'[i][j])
      BY <2>2, <2>3 DEF CallsAt, AllAt, At
    <2>5. QED
      BY <2>3, <2>4 DEF CycleInv, AllProper, Proper, Enough
  <1>8. CASE EnsureDone
    BY <1>8 DEF EnsureDone, CycleInv, AllProper, Proper, Enough, serverVars,
                BetweenHosts, Unwanted
  <1>9. CASE RemoveDone
    BY <1>9 DEF RemoveDone, CycleInv, AllProper, Proper, Enough, serverVars, BetweenHosts
  <1>10. CASE Report
    BY <1>10 DEF Report, CycleInv, AllProper, Proper, Enough, serverVars, BetweenHosts
  <1>11. CASE BeginCall
    <2>1. AllProper(Head(calls)) /\ \A i \in 1..Len(Tail(calls)) : AllProper(Tail(calls)[i])
      BY <1>11 DEF BeginCall, CycleInv, TypeOK
    <2>2. QED
      BY <1>11, <2>1
      DEF BeginCall, CycleInv, AllProper, Proper, Enough, serverVars, BetweenHosts
  <1>12. CASE Answered
    <2>1. AllProper(Tail(reqs))
      BY <1>12, ProperTail DEF Answered, CycleInv, TypeOK
    <2>2. QED
      BY <1>12, <2>1 DEF Answered, CycleInv, AllProper, Proper, Enough, BetweenHosts
  <1>13. CASE Refused
    BY <1>13 DEF Refused, CycleInv, AllProper, Proper, Enough, serverVars, BetweenHosts
  <1>14. CASE Lost
    BY <1>14, NoneLate DEF Lost, CycleInv, AllProper, Proper, Enough, BetweenHosts
  <1>15. CASE NotSent
    BY <1>15 DEF NotSent, CycleInv, AllProper, Proper, Enough, serverVars, BetweenHosts
  <1>16. ASSUME NEW r \in Records, AdminAdd(r) \/ AdminDelete(r)
         PROVE  CycleInv'
    BY <1>16 DEF AdminAdd, AdminDelete, Administer, cycleVars, CycleInv,
                 AllProper, Proper, Enough, BetweenHosts
  <1>17. CASE EditRules \/ EditConfig
    BY <1>17 DEF EditRules, EditConfig, CycleInv, AllProper, Proper, Enough,
                 serverVars, cycleVars, BetweenHosts
  <1>18. CASE Crash
    BY <1>18, NoneLate, EmptySetCard DEF Crash, CycleInv, AllProper, BetweenHosts
  <1>19. ASSUME NEW q \in late, CarriedOutLate(q)
         PROVE  CycleInv'
    BY <1>19 DEF CycleInv
  <1>20. CASE UNCHANGED vars
    BY <1>20 DEF vars, serverVars, cycleVars, CycleInv, AllProper, Proper,
                 Enough, BetweenHosts
  <1>21. QED
    BY <1>1, <1>2, <1>3, <1>4, <1>5, <1>6, <1>7, <1>8, <1>9, <1>10, <1>11,
       <1>12, <1>13, <1>14, <1>15, <1>16, <1>17, <1>18, <1>19, <1>20
    DEF Next, Plugin, Environment

-----------------------------------------------------------------------------
(* What the invariant is for. *)

\* A step that is no edit changes the zone by the next request only.
LEMMA PluginWrites ==
    ASSUME LateRequests = "never", TypeOK, CycleInv, [Next]_vars, edits' = edits
    PROVE  \/ UNCHANGED zone
           \/ reqs # <<>> /\ zone' = ZoneAfter(zone, Head(reqs))
  <1>1. ASSUME PerhapsServed
        PROVE  UNCHANGED zone \/ (reqs # <<>> /\ zone' = ZoneAfter(zone, Head(reqs)))
    BY <1>1 DEF PerhapsServed, Sent, Serve, serverVars
  <1>2. CASE Answered
    BY <1>2 DEF Answered, Serve
  <1>3. CASE Lost \/ Crash
    BY <1>1, <1>3 DEF Lost, Crash
  <1>4. ASSUME NEW r \in Records, AdminAdd(r) \/ AdminDelete(r)
        PROVE  FALSE
    BY <1>4 DEF AdminAdd, AdminDelete, Administer, Edit, TypeOK
  <1>5. CASE EditRules \/ EditConfig
    BY <1>5 DEF EditRules, EditConfig, Edit, TypeOK
  <1>6. ASSUME NEW q \in late
        PROVE  FALSE
    BY <1>6 DEF CycleInv
  <1>7. CASE \/ BeginCycle \/ ListHosts \/ ReadZone \/ ReadFails
             \/ \E h \in Hosts : SkipForeign(h) \/ EnsureHost(h) \/ RemoveHost(h)
             \/ EnsureDone \/ RemoveDone \/ Report
             \/ BeginCall \/ Refused \/ NotSent \/ UNCHANGED vars
    BY <1>7 DEF BeginCycle, ListHosts, ReadZone, ReadFails, SkipForeign, EnsureHost,
                RemoveHost, EnsureDone, RemoveDone, Report, BeginCall, Refused,
                NotSent, vars, serverVars
  <1>8. QED
    BY <1>2, <1>3, <1>4, <1>5, <1>6, <1>7 DEF Next, Plugin, Environment

\* A host that had foreign records when the zone was read is left alone for the
\* whole cycle, whatever an administrator does to its records or to any marker
\* meanwhile, at any time: Reconcile decides by the snapshot alone, and every
\* request it plans for a host stays at that host.
THEOREM ForeignersLeftAlone ==
    ASSUME LateRequests = "never"
    PROVE  Spec => ForeignHostLeftAlone
  <1>1. ASSUME TypeOK, CycleInv, [Next]_vars
        PROVE  [\A r \in (zone \ zone') \cup (zone' \ zone) :
                   (edits' = edits /\ ~OwnedByUs(snap, r.host))
                      => \A x \in snap : x.host = r.host => x.type \notin HostTypes]_vars
    <2> SUFFICES ASSUME NEW r \in (zone \ zone') \cup (zone' \ zone),
                        edits' = edits, ~OwnedByUs(snap, r.host),
                        NEW x \in snap, x.host = r.host
                 PROVE  x.type \notin HostTypes
      OBVIOUS
    <2> DEFINE q == Head(reqs)
    <2>1. reqs # <<>> /\ zone' = ZoneAfter(zone, q)
      BY <1>1, PluginWrites
    <2>2. Proper(q)
      BY <1>1, <2>1, ProperTail DEF CycleInv, TypeOK
    <2>3. r \in {q.rec, q.new}
      BY <2>1 DEF ZoneAfter, Removed, Written
    <2>4. ~Foreign(snap, r.host)
      BY <2>2, <2>3 DEF Proper
    <2>5. QED
      BY <2>4 DEF Foreign, AIPs, AAAAIPs, HTTPSSpecs, HostTypes
  <1>2. TypeOK /\ CycleInv /\ [Next]_vars => CycleInv'
    BY CycleNext
  <1>3. QED
    BY <1>1, <1>2, TypeInit, TypeNext, CycleInit, PTL DEF Spec, ForeignHostLeftAlone

\* The circuit breaker: a host of ours loses its marker only in a cycle that
\* polled at least half as many hosts as the poll before it, for any number of
\* hosts, although the baseline moves before the zone is read and whatever reads
\* fail in between.
THEOREM BreakerProtects ==
    ASSUME LateRequests = "never"
    PROVE  Spec => BreakerHolds
  <1>1. ASSUME TypeOK, CycleInv, [Next]_vars
        PROVE  [\A h \in Hosts :
                   (edits' = edits /\ OwnedByUs(zone, h) /\ ~OwnedByUs(zone', h))
                      => 2 * Cardinality(desired) >= Cardinality(previous)]_vars
    <2> SUFFICES ASSUME NEW h \in Hosts,
                        edits' = edits, OwnedByUs(zone, h), ~OwnedByUs(zone', h)
                 PROVE  2 * Cardinality(desired) >= Cardinality(previous)
      OBVIOUS
    <2> DEFINE q == Head(reqs)
    <2>1. reqs # <<>> /\ zone' = ZoneAfter(zone, q)
      BY <1>1, PluginWrites DEF OwnedByUs
    <2>2. Proper(q) /\ q \in Requests
      BY <1>1, <2>1, ProperTail DEF CycleInv, TypeOK
    <2>3. ~KeepsMarkers(q)
      BY <1>1, <2>1, <2>2, MarkerStays DEF TypeOK
    <2>4. phase = "remove"
      BY <2>2, <2>3 DEF Proper
    <2>5. QED
      BY <1>1, <2>4 DEF CycleInv, Enough
  <1>2. TypeOK /\ CycleInv /\ [Next]_vars => CycleInv'
    BY CycleNext
  <1>3. QED
    BY <1>1, <1>2, TypeInit, TypeNext, CycleInit, PTL DEF Spec, BreakerHolds

-----------------------------------------------------------------------------
(* The requests of a call, of some calls, and those still to be sent, as sets. *)

RequestsOf(s)   == {s[i] : i \in 1..Len(s)}
RequestsIn(cs)  == UNION {RequestsOf(cs[i]) : i \in 1..Len(cs)}
Pending         == RequestsOf(reqs) \cup RequestsIn(calls)

LEMMA RequestsOfTail ==
    ASSUME NEW S, NEW s \in Seq(S), s # <<>>
    PROVE  /\ Head(s) \in S /\ Tail(s) \in Seq(S)
           /\ RequestsOf(s) = {Head(s)} \cup RequestsOf(Tail(s))
  <1>1. /\ Head(s) = s[1] /\ Len(s) \in Nat /\ Len(s) >= 1
        /\ Len(Tail(s)) = Len(s) - 1
        /\ \A i \in 1..Len(s) - 1 : Tail(s)[i] = s[i + 1]
    OBVIOUS
  <1>2. \A i \in 1..Len(s) : i = 1 \/ i - 1 \in 1..Len(s) - 1
    BY <1>1
  <1>3. \A x \in RequestsOf(s) : x = Head(s) \/ x \in RequestsOf(Tail(s))
    <2>1. SUFFICES ASSUME NEW i \in 1..Len(s), s[i] # s[1]
                   PROVE  \E j \in 1..Len(s) - 1 : s[i] = Tail(s)[j]
      BY <1>1 DEF RequestsOf
    <2>2. i - 1 \in 1..Len(s) - 1 /\ s[i] = Tail(s)[i - 1]
      BY <1>1, <1>2, <2>1
    <2>3. QED
      BY <2>2
  <1>4. \A x \in RequestsOf(Tail(s)) : x \in RequestsOf(s)
    <2>1. SUFFICES ASSUME NEW i \in 1..Len(s) - 1
                   PROVE  \E j \in 1..Len(s) : Tail(s)[i] = s[j]
      BY <1>1 DEF RequestsOf
    <2>2. i + 1 \in 1..Len(s) /\ Tail(s)[i] = s[i + 1]
      BY <1>1
    <2>3. QED
      BY <2>2
  <1>5. Head(s) \in RequestsOf(s)
    BY <1>1 DEF RequestsOf
  <1>6. QED
    BY <1>1, <1>3, <1>4, <1>5

LEMMA RequestsOfConcat ==
    ASSUME NEW S, NEW s \in Seq(S), NEW t \in Seq(S)
    PROVE  RequestsOf(s \o t) = RequestsOf(s) \cup RequestsOf(t)
  <1> DEFINE u == s \o t
             m == Len(s)
             n == Len(t)
  <1>1. /\ m \in Nat /\ n \in Nat /\ Len(u) = m + n
        /\ \A i \in 1..m : u[i] = s[i]
        /\ \A i \in 1..n : u[m + i] = t[i]
    OBVIOUS
  <1> HIDE DEF u
  <1>2. \A x \in RequestsOf(u) : x \in RequestsOf(s) \cup RequestsOf(t)
    <2>1. SUFFICES ASSUME NEW i \in 1..m + n
                   PROVE  u[i] \in RequestsOf(s) \cup RequestsOf(t)
      BY <1>1 DEF RequestsOf
    <2>2. CASE i <= m
      BY <1>1, <2>2 DEF RequestsOf
    <2>3. CASE i > m
      <3> HIDE DEF m, n
      <3>1. i - m \in 1..n
        BY <1>1, <2>3
      <3>2. m + (i - m) = i
        BY <1>1
      <3>3. u[i] = t[i - m]
        BY <1>1, <3>1, <3>2
      <3> USE DEF n
      <3>4. QED
        BY <3>1, <3>3 DEF RequestsOf
    <2>4. QED
      BY <1>1, <2>2, <2>3
  <1>3. \A x \in RequestsOf(s) : x \in RequestsOf(u)
    <2>1. SUFFICES ASSUME NEW i \in 1..m
                   PROVE  \E j \in 1..m + n : s[i] = u[j]
      BY <1>1 DEF RequestsOf
    <2>2. i \in 1..m + n
      BY <1>1
    <2>3. QED
      BY <1>1, <2>2
  <1>4. \A x \in RequestsOf(t) : x \in RequestsOf(u)
    <2>1. SUFFICES ASSUME NEW i \in 1..n
                   PROVE  \E j \in 1..m + n : t[i] = u[j]
      BY <1>1 DEF RequestsOf
    <2>2. m + i \in 1..m + n
      BY <1>1
    <2>3. QED
      BY <1>1, <2>2
  <1>5. QED
    BY <1>2, <1>3, <1>4 DEF u

LEMMA RequestsInCalls ==
    ASSUME NEW cs
    PROVE  RequestsIn(cs) = UNION {RequestsOf(c) : c \in RequestsOf(cs)}
  BY DEF RequestsIn, RequestsOf

LEMMA RequestsInConcat ==
    ASSUME NEW S, NEW s \in Seq(S), NEW t \in Seq(S)
    PROVE  RequestsIn(s \o t) = RequestsIn(s) \cup RequestsIn(t)
  BY RequestsInCalls, RequestsOfConcat

LEMMA RequestsInTail ==
    ASSUME NEW S, NEW s \in Seq(S), s # <<>>
    PROVE  RequestsIn(s) = RequestsOf(Head(s)) \cup RequestsIn(Tail(s))
  BY RequestsInCalls, RequestsOfTail

LEMMA CallsTail ==
    ASSUME NEW S, NEW s \in Seq(S), Len(s) = 1
    PROVE  Tail(s) = <<>>
  <1>1. Tail(s) \in Seq(S) /\ Len(Tail(s)) = 0
    OBVIOUS
  <1>2. \A t \in Seq(S) : Len(t) = 0 => t = <<>>
    OBVIOUS
  <1>3. QED
    BY <1>1, <1>2

LEMMA CallConcat ==
    \A s, t : s \in Seq(Requests) /\ t \in Seq(Requests)
       => /\ s \o t \in Seq(Requests)
          /\ RequestsOf(s \o t) = RequestsOf(s) \cup RequestsOf(t)
  BY ConcatType, RequestsOfConcat

LEMMA CallsConcat ==
    \A s, t : s \in Seq(Seq(Requests)) /\ t \in Seq(Seq(Requests))
       => /\ s \o t \in Seq(Seq(Requests))
          /\ RequestsIn(s \o t) = RequestsIn(s) \cup RequestsIn(t)
  BY ConcatType, RequestsInConcat

\* An optional part has its requests, or none.
LEMMA FewRequests ==
    /\ RequestsOf(<<>>) = {} /\ RequestsIn(<<>>) = {}
    /\ \A p : RequestsOf(<<p>>) = {p}
    /\ \A p, q : RequestsOf(<<p, q>>) = {p, q}
    /\ \A c, q : RequestsOf(When(c, q)) = IF c THEN {q} ELSE {}
    /\ \A s : RequestsIn(<<s>>) = RequestsOf(s)
    /\ \A c, s : RequestsIn(When(c, s)) = IF c THEN RequestsOf(s) ELSE {}
  <1>1. RequestsOf(<<>>) = {} /\ RequestsIn(<<>>) = {}
    BY DEF RequestsOf, RequestsIn
  <1>2. \A p : RequestsOf(<<p>>) = {p}
    BY DEF RequestsOf
  <1>3. \A p, q : RequestsOf(<<p, q>>) = {p, q}
    <2> TAKE p, q
    <2> DEFINE s == <<p, q>>
    <2>1. Len(s) = 2 /\ s[1] = p /\ s[2] = q /\ 1..2 = {1, 2}
      OBVIOUS
    <2> HIDE DEF s
    <2>2. RequestsOf(s) = {p, q}
      BY <2>1 DEF RequestsOf
    <2>3. QED
      BY <2>2 DEF s
  <1>4. \A s : RequestsIn(<<s>>) = RequestsOf(s)
    BY DEF RequestsIn
  <1>5. QED
    BY <1>1, <1>2, <1>3, <1>4 DEF When

\* A pending request is a request.
LEMMA PendingType == TypeOK => Pending \subseteq Requests
  <1> SUFFICES ASSUME TypeOK
               PROVE  Pending \subseteq Requests
    OBVIOUS
  <1>1. \A s \in Seq(Requests) : RequestsOf(s) \subseteq Requests
    BY DEF RequestsOf
  <1>2. \A i \in 1..Len(calls) : calls[i] \in Seq(Requests)
    BY DEF TypeOK
  <1>3. QED
    BY <1>1, <1>2 DEF Pending, RequestsIn, TypeOK

-----------------------------------------------------------------------------
(* The requests of a host's calls, as the decisions of Reconcile give them. *)

Only(c, S) == IF c THEN S ELSE {}

CreateRequests(h, ip4, ip6, https) ==
    {AddRecord(Marker(h)), AddRecord(ARecord(h, ip4))}
      \cup Only(ip6 # Blank, {AddRecord(AAAARecord(h, ip6))})
      \cup Only(https # Blank, {AddRecord(HTTPSRecord(h, https))})

RepairRequests(h, o, z, hs, a, aaaa, https) ==
    Only(o.https /\ https # Blank /\ https # o.spec,
         {CheckOwnership(h),
          UpdateRecord(HTTPSRecord(h, https), HTTPSRecord(h, o.spec),
                       hs[<<h, https>>])})
      \cup Only(~o.https /\ https # Blank,
                {CheckOwnership(h),
                 DeleteRecord(HTTPSRecord(h, https), hs[<<h, https>>])})
      \cup Only(NeedsUpdate(AIPs(z, h), o.ip4),
                {CheckOwnership(h),
                 UpdateRecord(ARecord(h, a), ARecord(h, o.ip4), {})})
      \cup Only(o.aaaa /\ aaaa = Blank,
                {CheckOwnership(h), AddRecord(AAAARecord(h, o.ip6))})
      \cup Only(o.aaaa /\ aaaa # Blank /\ NeedsUpdate(AAAAIPs(z, h), o.ip6),
                {CheckOwnership(h),
                 UpdateRecord(AAAARecord(h, aaaa), AAAARecord(h, o.ip6), {})})
      \cup Only(~o.aaaa /\ aaaa # Blank,
                {CheckOwnership(h), DeleteRecord(AAAARecord(h, aaaa), {})})
      \cup Only(o.https /\ https = Blank,
                {CheckOwnership(h), AddRecord(HTTPSRecord(h, o.spec))})

\* The hints by which a deleted host's HTTPS record is named.
HintOf(h, hs, https) == IF https = Blank THEN {} ELSE hs[<<h, https>>]

RemoveRequests(h, hint, a, aaaa, https) ==
    {CheckOwnership(h), DeleteRecord(Marker(h), {})}
      \cup Only(https # Blank, {DeleteRecord(HTTPSRecord(h, https), hint)})
      \cup Only(a # Blank, {DeleteRecord(ARecord(h, a), {})})
      \cup Only(aaaa # Blank, {DeleteRecord(AAAARecord(h, aaaa), {})})

LEMMA CreateHostRequests ==
    ASSUME NEW h \in Hosts, NEW ip4 \in IPv4s, NEW ip6 \in IPv6s \cup {Blank},
           NEW https \in Specs \cup {Blank}
    PROVE  RequestsOf(CreateHost(h, ip4, ip6, https))
             = CreateRequests(h, ip4, ip6, https)
  <1> DEFINE open == <<AddRecord(Marker(h)), AddRecord(ARecord(h, ip4))>>
             v6   == When(ip6 # Blank, AddRecord(AAAARecord(h, ip6)))
             svc  == When(https # Blank, AddRecord(HTTPSRecord(h, https)))
  <1>1. /\ open \in Seq(Requests) /\ v6 \in Seq(Requests) /\ svc \in Seq(Requests)
    BY RecordTypes, RequestTypes DEF When
  <1>2. /\ RequestsOf(open) = {AddRecord(Marker(h)), AddRecord(ARecord(h, ip4))}
        /\ RequestsOf(v6) = Only(ip6 # Blank, {AddRecord(AAAARecord(h, ip6))})
        /\ RequestsOf(svc) = Only(https # Blank, {AddRecord(HTTPSRecord(h, https))})
    BY FewRequests DEF Only
  <1>3. CreateHost(h, ip4, ip6, https) = open \o v6 \o svc
    BY DEF CreateHost
  <1> DEFINE RS == Seq(Requests)
  <1>4. \A s, t : s \in RS /\ t \in RS
           => s \o t \in RS /\ RequestsOf(s \o t) = RequestsOf(s) \cup RequestsOf(t)
    BY CallConcat
  <1>5. open \in RS /\ v6 \in RS /\ svc \in RS
    BY <1>1
  <1> HIDE DEF open, v6, svc, RS
  <1>6. RequestsOf(open \o v6 \o svc)
          = RequestsOf(open) \cup RequestsOf(v6) \cup RequestsOf(svc)
    BY <1>4, <1>5
  <1>7. QED
    BY <1>2, <1>3, <1>6 DEF CreateRequests

LEMMA RemoveCallRequests ==
    ASSUME NEW h \in Hosts, NEW hs \in [Hosts \X Specs -> SUBSET Addresses],
           NEW a \in IPv4s \cup {Blank}, NEW aaaa \in IPv6s \cup {Blank},
           NEW https \in Specs \cup {Blank}
    PROVE  RequestsOf(RemoveCall(h, hs, a, aaaa, https))
             = RemoveRequests(h, HintOf(h, hs, https), a, aaaa, https)
  <1> DEFINE hint == HintOf(h, hs, https)
             open == <<CheckOwnership(h)>>
             svc  == When(https # Blank, DeleteRecord(HTTPSRecord(h, https), hint))
             v4   == When(a # Blank, DeleteRecord(ARecord(h, a), {}))
             v6   == When(aaaa # Blank, DeleteRecord(AAAARecord(h, aaaa), {}))
             last == <<DeleteRecord(Marker(h), {})>>
             RS   == Seq(Requests)
  <1>0. hint \in SUBSET Addresses
    BY DEF HintOf
  <1>1. RemoveCall(h, hs, a, aaaa, https) = open \o svc \o v4 \o v6 \o last
    BY DEF RemoveCall, DeleteHost, HintOf
  <1> HIDE DEF hint
  <1>2. open \in RS /\ svc \in RS /\ v4 \in RS /\ v6 \in RS /\ last \in RS
    BY <1>0, RecordTypes, RequestTypes DEF When
  <1>3. /\ RequestsOf(open) = {CheckOwnership(h)}
        /\ RequestsOf(svc) = Only(https # Blank, {DeleteRecord(HTTPSRecord(h, https), hint)})
        /\ RequestsOf(v4) = Only(a # Blank, {DeleteRecord(ARecord(h, a), {})})
        /\ RequestsOf(v6) = Only(aaaa # Blank, {DeleteRecord(AAAARecord(h, aaaa), {})})
        /\ RequestsOf(last) = {DeleteRecord(Marker(h), {})}
    BY FewRequests DEF Only
  <1>4. \A s, t : s \in RS /\ t \in RS
           => s \o t \in RS /\ RequestsOf(s \o t) = RequestsOf(s) \cup RequestsOf(t)
    BY CallConcat
  <1> HIDE DEF open, svc, v4, v6, last, RS
  <1>5. RequestsOf(open \o svc \o v4 \o v6 \o last)
          = RequestsOf(open) \cup RequestsOf(svc) \cup RequestsOf(v4)
              \cup RequestsOf(v6) \cup RequestsOf(last)
    BY <1>2, <1>4
  <1>6. RequestsOf(RemoveCall(h, hs, a, aaaa, https))
          = RequestsOf(open) \cup RequestsOf(svc) \cup RequestsOf(v4)
              \cup RequestsOf(v6) \cup RequestsOf(last)
    BY <1>1, <1>5
  <1>7. QED
    BY <1>3, <1>6 DEF RemoveRequests, hint

LEMMA RepairCallsRequests ==
    ASSUME NEW h \in Hosts, NEW o \in Configs, NEW z \in SUBSET Records,
           NEW hs \in [Hosts \X Specs -> SUBSET Addresses],
           NEW a \in IPv4s, NEW aaaa \in IPv6s \cup {Blank},
           NEW https \in Specs \cup {Blank}
    PROVE  RequestsIn(RepairCalls(h, o, z, hs, a, aaaa, https))
             = RepairRequests(h, o, z, hs, a, aaaa, https)
  <1> DEFINE c1 == When(o.https /\ https # Blank /\ https # o.spec,
                        UpdateHTTPS(h, https, hs[<<h, https>>], o.spec))
             c2 == When(~o.https /\ https # Blank,
                        DeleteHTTPSOnly(h, https, hs[<<h, https>>]))
             c3 == When(NeedsUpdate(AIPs(z, h), o.ip4), UpdateA(h, a, o.ip4))
             c4 == When(o.aaaa /\ aaaa = Blank, CreateAAAA(h, o.ip6))
             c5 == When(o.aaaa /\ aaaa # Blank /\ NeedsUpdate(AAAAIPs(z, h), o.ip6),
                        UpdateAAAA(h, aaaa, o.ip6))
             c6 == When(~o.aaaa /\ aaaa # Blank, DeleteAAAAOnly(h, aaaa))
             c7 == When(o.https /\ https = Blank, CreateHTTPS(h, o.spec))
             CS == Seq(Seq(Requests))
  <1>1. /\ o.ip4 \in IPv4s
        /\ o.ip6 \in IPv6s \cup {Blank}
        /\ o.spec \in Specs
        /\ o.aaaa => o.ip6 \in IPv6s
    BY ConfigsAssumption DEF ConfigType
  <1>2. c1 \in CS /\ c2 \in CS /\ c3 \in CS /\ c4 \in CS /\ c5 \in CS /\ c6 \in CS
           /\ c7 \in CS
    BY <1>1, RepairTypes DEF When
  <1>3. /\ RequestsIn(c1) = Only(o.https /\ https # Blank /\ https # o.spec,
              {CheckOwnership(h),
               UpdateRecord(HTTPSRecord(h, https), HTTPSRecord(h, o.spec),
                            hs[<<h, https>>])})
        /\ RequestsIn(c2) = Only(~o.https /\ https # Blank,
              {CheckOwnership(h),
               DeleteRecord(HTTPSRecord(h, https), hs[<<h, https>>])})
        /\ RequestsIn(c3) = Only(NeedsUpdate(AIPs(z, h), o.ip4),
              {CheckOwnership(h),
               UpdateRecord(ARecord(h, a), ARecord(h, o.ip4), {})})
        /\ RequestsIn(c4) = Only(o.aaaa /\ aaaa = Blank,
              {CheckOwnership(h), AddRecord(AAAARecord(h, o.ip6))})
        /\ RequestsIn(c5) = Only(o.aaaa /\ aaaa # Blank
                                   /\ NeedsUpdate(AAAAIPs(z, h), o.ip6),
              {CheckOwnership(h),
               UpdateRecord(AAAARecord(h, aaaa), AAAARecord(h, o.ip6), {})})
        /\ RequestsIn(c6) = Only(~o.aaaa /\ aaaa # Blank,
              {CheckOwnership(h), DeleteRecord(AAAARecord(h, aaaa), {})})
        /\ RequestsIn(c7) = Only(o.https /\ https = Blank,
              {CheckOwnership(h), AddRecord(HTTPSRecord(h, o.spec))})
    BY FewRequests DEF When, Only, UpdateHTTPS, DeleteHTTPSOnly, UpdateA,
       CreateAAAA, UpdateAAAA, DeleteAAAAOnly, CreateHTTPS
  <1>4. RepairCalls(h, o, z, hs, a, aaaa, https)
          = c1 \o c2 \o c3 \o c4 \o c5 \o c6 \o c7
    BY DEF RepairCalls
  <1> HIDE DEF c1, c2, c3, c4, c5, c6, c7, CS
  <1>5. \A s, t : s \in CS /\ t \in CS
           => s \o t \in CS /\ RequestsIn(s \o t) = RequestsIn(s) \cup RequestsIn(t)
    BY CallsConcat DEF CS
  <1>6. RequestsIn(c1 \o c2 \o c3 \o c4)
           = RequestsIn(c1) \cup RequestsIn(c2) \cup RequestsIn(c3) \cup RequestsIn(c4)
         /\ c1 \o c2 \o c3 \o c4 \in CS
    BY <1>2, <1>5
  <1>7. RequestsIn(c1 \o c2 \o c3 \o c4 \o c5 \o c6 \o c7)
           = RequestsIn(c1 \o c2 \o c3 \o c4) \cup RequestsIn(c5) \cup RequestsIn(c6)
               \cup RequestsIn(c7)
    BY <1>2, <1>5, <1>6
  <1>8. QED
    BY <1>3, <1>4, <1>6, <1>7 DEF RepairRequests

EnsureRequests(h, o, z, hs, a, aaaa, https) ==
    IF a = Blank
      THEN CreateRequests(h, o.ip4, IF o.aaaa THEN o.ip6 ELSE Blank,
                          IF o.https /\ https = Blank THEN o.spec ELSE Blank)
      ELSE RepairRequests(h, o, z, hs, a, aaaa, https)

LEMMA EnsureCallsRequests ==
    ASSUME NEW h \in Hosts, NEW o \in Configs, NEW z \in SUBSET Records,
           NEW hs \in [Hosts \X Specs -> SUBSET Addresses],
           NEW a \in IPv4s \cup {Blank}, NEW aaaa \in IPv6s \cup {Blank},
           NEW https \in Specs \cup {Blank}
    PROVE  RequestsIn(EnsureCalls(h, o, z, hs, a, aaaa, https))
             = EnsureRequests(h, o, z, hs, a, aaaa, https)
  <1>1. /\ o.ip4 \in IPv4s
        /\ o.ip6 \in IPv6s \cup {Blank}
        /\ o.spec \in Specs
    BY ConfigsAssumption DEF ConfigType
  <1>2. CASE a = Blank
    <2> DEFINE v6  == IF o.aaaa THEN o.ip6 ELSE Blank
               svc == IF o.https /\ https = Blank THEN o.spec ELSE Blank
    <2>1. v6 \in IPv6s \cup {Blank} /\ svc \in Specs \cup {Blank}
      BY <1>1
    <2>2. /\ EnsureCalls(h, o, z, hs, a, aaaa, https) = <<CreateHost(h, o.ip4, v6, svc)>>
          /\ EnsureRequests(h, o, z, hs, a, aaaa, https)
               = CreateRequests(h, o.ip4, v6, svc)
      BY <1>2 DEF EnsureCalls, CreateCall, EnsureRequests
    <2> HIDE DEF v6, svc
    <2>3. RequestsIn(<<CreateHost(h, o.ip4, v6, svc)>>)
            = RequestsOf(CreateHost(h, o.ip4, v6, svc))
      BY FewRequests
    <2>4. QED
      BY <1>1, <2>1, <2>2, <2>3, CreateHostRequests
  <1>3. CASE a # Blank
    BY <1>3, RepairCallsRequests DEF EnsureCalls, EnsureRequests
  <1>4. QED
    BY <1>2, <1>3

-----------------------------------------------------------------------------
(* How the steps of a call move the requests that are still to be sent. *)

LEMMA BeginCallPending == TypeOK /\ BeginCall => Pending' = Pending
  <1> SUFFICES ASSUME TypeOK, BeginCall
               PROVE  Pending' = Pending
    OBVIOUS
  <1>1. RequestsIn(calls) = RequestsOf(Head(calls)) \cup RequestsIn(Tail(calls))
    BY RequestsInTail DEF TypeOK, BeginCall
  <1>2. RequestsOf(reqs) = {}
    BY FewRequests DEF BeginCall
  <1>3. QED
    BY <1>1, <1>2 DEF Pending, BeginCall

LEMMA AnsweredPending ==
    ASSUME TypeOK, Answered
    PROVE  Head(reqs) \in Pending /\ Pending = {Head(reqs)} \cup Pending'
  <1>1. RequestsOf(reqs) = {Head(reqs)} \cup RequestsOf(Tail(reqs))
    BY RequestsOfTail DEF TypeOK, Answered
  <1>2. QED
    BY <1>1 DEF Pending, Answered

\* A call is given up: what is left of it is not sent.
LEMMA GivenUpPending ==
    ASSUME TypeOK, reqs' = <<>>, calls' = calls
    PROVE  Pending' \subseteq Pending /\ Pending' = RequestsIn(calls)
  BY FewRequests DEF Pending

LEMMA HeadPending ==
    ASSUME TypeOK, reqs # <<>>
    PROVE  Head(reqs) \in Pending
  BY RequestsOfTail DEF TypeOK, Pending

LEMMA NonePending ==
    ASSUME calls = <<>>, reqs = <<>>
    PROVE  Pending = {}
  BY FewRequests DEF Pending

LEMMA EnsurePending ==
    ASSUME TypeOK, NEW h \in Hosts, EnsureHost(h)
    PROVE  \E a \in First(AIPs(snap, h)), aaaa \in First(AAAAIPs(snap, h)),
              https \in First(HTTPSSpecs(snap, h)) :
             /\ a \in IPv4s \cup {Blank} /\ aaaa \in IPv6s \cup {Blank}
             /\ https \in Specs \cup {Blank}
             /\ calls' = EnsureCalls(h, opts, snap, snapHints, a, aaaa, https)
             /\ Pending' = EnsureRequests(h, opts, snap, snapHints, a, aaaa, https)
  <1>1. PICK a \in First(AIPs(snap, h)), aaaa \in First(AAAAIPs(snap, h)),
             https \in First(HTTPSSpecs(snap, h)) :
          calls' = EnsureCalls(h, opts, snap, snapHints, a, aaaa, https)
    BY DEF EnsureHost
  <1>2. /\ a \in IPv4s \cup {Blank} /\ aaaa \in IPv6s \cup {Blank}
        /\ https \in Specs \cup {Blank}
    BY FirstTypes DEF TypeOK
  <1>3. RequestsIn(calls') = EnsureRequests(h, opts, snap, snapHints, a, aaaa, https)
    <2>1. /\ opts \in Configs /\ snap \in SUBSET Records
          /\ snapHints \in [Hosts \X Specs -> SUBSET Addresses]
      BY DEF TypeOK
    <2>2. RequestsIn(EnsureCalls(h, opts, snap, snapHints, a, aaaa, https))
            = EnsureRequests(h, opts, snap, snapHints, a, aaaa, https)
      BY <1>2, <2>1, EnsureCallsRequests
    <2>3. QED
      BY <1>1, <2>2
  <1>4. RequestsOf(reqs') = {}
    BY FewRequests DEF EnsureHost, BetweenHosts
  <1>5. QED
    BY <1>1, <1>2, <1>3, <1>4 DEF Pending

LEMMA RemovePending ==
    ASSUME TypeOK, NEW h \in Hosts, RemoveHost(h)
    PROVE  \E a \in First(AIPs(snap, h)), aaaa \in First(AAAAIPs(snap, h)),
              https \in First(HTTPSSpecs(snap, h)) :
             /\ a \in IPv4s \cup {Blank} /\ aaaa \in IPv6s \cup {Blank}
             /\ https \in Specs \cup {Blank}
             /\ calls' = <<RemoveCall(h, snapHints, a, aaaa, https)>>
             /\ Pending' = RemoveRequests(h, HintOf(h, snapHints, https),
                                          a, aaaa, https)
  <1>1. PICK a \in First(AIPs(snap, h)), aaaa \in First(AAAAIPs(snap, h)),
             https \in First(HTTPSSpecs(snap, h)) :
          calls' = <<RemoveCall(h, snapHints, a, aaaa, https)>>
    BY DEF RemoveHost
  <1>2. /\ a \in IPv4s \cup {Blank} /\ aaaa \in IPv6s \cup {Blank}
        /\ https \in Specs \cup {Blank}
    BY FirstTypes DEF TypeOK
  <1>3. RequestsOf(RemoveCall(h, snapHints, a, aaaa, https))
          = RemoveRequests(h, HintOf(h, snapHints, https),
                           a, aaaa, https)
    BY <1>2, RemoveCallRequests DEF TypeOK
  <1>4. RequestsIn(calls') = RequestsOf(RemoveCall(h, snapHints, a, aaaa, https))
    BY <1>1, FewRequests
  <1>5. RequestsOf(reqs') = {}
    BY FewRequests DEF RemoveHost, BetweenHosts
  <1>6. QED
    BY <1>1, <1>2, <1>3, <1>4, <1>5 DEF Pending

-----------------------------------------------------------------------------
(***************************************************************************)
(* Every request ever sent, late ones too, stays with one host and one     *)
(* type of record, and the only TXT record it names is our marker there.   *)
(***************************************************************************)
Shaped(q) ==
    /\ q.new.host = q.rec.host /\ q.new.type = q.rec.type
    /\ q.verb = "add" => q.new = q.rec
    /\ q.verb = "update" => q.rec.type \in HostTypes
    /\ q.rec.type \notin HostTypes => q.rec = Marker(q.rec.host)

ShapeInv == \A q \in Pending \cup late : Shaped(q)

LEMMA RequestsShaped ==
    ASSUME NEW h \in Hosts
    PROVE  /\ Shaped(CheckOwnership(h)) /\ Shaped(AddRecord(Marker(h)))
           /\ Shaped(DeleteRecord(Marker(h), {}))
           /\ \A x : /\ Shaped(AddRecord(ARecord(h, x)))
                     /\ Shaped(AddRecord(AAAARecord(h, x)))
                     /\ Shaped(AddRecord(HTTPSRecord(h, x)))
           /\ \A x, y, hint :
                 /\ Shaped(UpdateRecord(ARecord(h, x), ARecord(h, y), hint))
                 /\ Shaped(UpdateRecord(AAAARecord(h, x), AAAARecord(h, y), hint))
                 /\ Shaped(UpdateRecord(HTTPSRecord(h, x), HTTPSRecord(h, y), hint))
           /\ \A x, hint :
                 /\ Shaped(DeleteRecord(ARecord(h, x), hint))
                 /\ Shaped(DeleteRecord(AAAARecord(h, x), hint))
                 /\ Shaped(DeleteRecord(HTTPSRecord(h, x), hint))
  BY DEF Shaped, CheckOwnership, AddRecord, UpdateRecord, DeleteRecord, Request,
         Marker, MarkerRecord, ARecord, AAAARecord, HTTPSRecord, HostTypes

LEMMA PlansShaped ==
    ASSUME NEW h \in Hosts
    PROVE  /\ \A o, z, hs, a, aaaa, https :
                 \A q \in EnsureRequests(h, o, z, hs, a, aaaa, https) : Shaped(q)
           /\ \A hint, a, aaaa, https :
                 \A q \in RemoveRequests(h, hint, a, aaaa, https) : Shaped(q)
  <1>1. \A ip4, ip6, https : \A q \in CreateRequests(h, ip4, ip6, https) : Shaped(q)
    BY RequestsShaped DEF CreateRequests, Only
  <1>2. \A o, z, hs, a, aaaa, https :
           \A q \in RepairRequests(h, o, z, hs, a, aaaa, https) : Shaped(q)
    BY RequestsShaped DEF RepairRequests, Only
  <1>3. \A hint, a, aaaa, https :
           \A q \in RemoveRequests(h, hint, a, aaaa, https) : Shaped(q)
    BY RequestsShaped DEF RemoveRequests, Only
  <1>4. ASSUME NEW o, NEW z, NEW hs, NEW a, NEW aaaa, NEW https,
               NEW q \in EnsureRequests(h, o, z, hs, a, aaaa, https)
        PROVE  Shaped(q)
    <2> DEFINE v6  == IF o.aaaa THEN o.ip6 ELSE Blank
               svc == IF o.https /\ https = Blank THEN o.spec ELSE Blank
    <2>1. \/ q \in CreateRequests(h, o.ip4, v6, svc)
          \/ q \in RepairRequests(h, o, z, hs, a, aaaa, https)
      BY <1>4 DEF EnsureRequests
    <2> HIDE DEF v6, svc
    <2>2. QED
      BY <1>1, <1>2, <2>1
  <1>5. QED
    BY <1>3, <1>4

LEMMA RequestsAt ==
    ASSUME NEW h \in Hosts
    PROVE  /\ CheckOwnership(h).rec.host = h
           /\ AddRecord(Marker(h)).rec.host = h
           /\ DeleteRecord(Marker(h), {}).rec.host = h
           /\ \A x : /\ AddRecord(ARecord(h, x)).rec.host = h
                     /\ AddRecord(AAAARecord(h, x)).rec.host = h
                     /\ AddRecord(HTTPSRecord(h, x)).rec.host = h
           /\ \A x, new, hint :
                 /\ UpdateRecord(ARecord(h, x), new, hint).rec.host = h
                 /\ UpdateRecord(AAAARecord(h, x), new, hint).rec.host = h
                 /\ UpdateRecord(HTTPSRecord(h, x), new, hint).rec.host = h
           /\ \A x, hint :
                 /\ DeleteRecord(ARecord(h, x), hint).rec.host = h
                 /\ DeleteRecord(AAAARecord(h, x), hint).rec.host = h
                 /\ DeleteRecord(HTTPSRecord(h, x), hint).rec.host = h
  BY DEF CheckOwnership, AddRecord, UpdateRecord, DeleteRecord, Request,
         Marker, MarkerRecord, ARecord, AAAARecord, HTTPSRecord

\* And every request of a host's plan is about that host.
LEMMA PlansAt ==
    ASSUME NEW h \in Hosts
    PROVE  /\ \A o, z, hs, a, aaaa, https :
                 \A q \in EnsureRequests(h, o, z, hs, a, aaaa, https) : q.rec.host = h
           /\ \A hint, a, aaaa, https :
                 \A q \in RemoveRequests(h, hint, a, aaaa, https) : q.rec.host = h
  <1>1. \A ip4, ip6, https : \A q \in CreateRequests(h, ip4, ip6, https) : q.rec.host = h
    BY RequestsAt DEF CreateRequests, Only
  <1>2. \A o, z, hs, a, aaaa, https :
           \A q \in RepairRequests(h, o, z, hs, a, aaaa, https) : q.rec.host = h
    BY RequestsAt DEF RepairRequests, Only
  <1>3. \A hint, a, aaaa, https :
           \A q \in RemoveRequests(h, hint, a, aaaa, https) : q.rec.host = h
    BY RequestsAt DEF RemoveRequests, Only
  <1>4. ASSUME NEW o, NEW z, NEW hs, NEW a, NEW aaaa, NEW https,
               NEW q \in EnsureRequests(h, o, z, hs, a, aaaa, https)
        PROVE  q.rec.host = h
    <2> DEFINE v6  == IF o.aaaa THEN o.ip6 ELSE Blank
               svc == IF o.https /\ https = Blank THEN o.spec ELSE Blank
    <2>1. \/ q \in CreateRequests(h, o.ip4, v6, svc)
          \/ q \in RepairRequests(h, o, z, hs, a, aaaa, https)
      BY <1>4 DEF EnsureRequests
    <2> HIDE DEF v6, svc
    <2>2. QED
      BY <1>1, <1>2, <2>1
  <1>5. QED
    BY <1>3, <1>4

\* Where no host is begun, no request is added to those sent or to be sent.
LEMMA NoNewRequests ==
    ASSUME TypeOK, [Next]_vars, \A h \in Hosts : ~EnsureHost(h) /\ ~RemoveHost(h)
    PROVE  Pending' \cup late' \subseteq Pending \cup late
  <1>1. ASSUME PerhapsServed
        PROVE  late' \subseteq Pending \cup late
    BY <1>1, HeadPending DEF PerhapsServed, Sent, serverVars
  <1>2. CASE BeginCall
    BY <1>2, BeginCallPending DEF BeginCall, serverVars
  <1>3. CASE Answered
    BY <1>3, AnsweredPending DEF Answered
  <1>4. CASE Refused \/ NotSent
    BY <1>4, GivenUpPending DEF Refused, NotSent, serverVars
  <1>5. CASE Lost
    BY <1>1, <1>5, GivenUpPending DEF Lost
  <1>6. CASE Crash
    BY <1>1, <1>6, FewRequests DEF Crash, Pending
  <1>7. ASSUME NEW q \in late, CarriedOutLate(q)
        PROVE  Pending' \cup late' \subseteq Pending \cup late
    BY <1>7 DEF CarriedOutLate, cycleVars, Pending
  <1>8. ASSUME NEW r \in Records, AdminAdd(r) \/ AdminDelete(r)
        PROVE  UNCHANGED <<calls, reqs, late>>
    BY <1>8 DEF AdminAdd, AdminDelete, Administer, cycleVars
  <1>9. CASE \/ BeginCycle \/ ListHosts \/ ReadZone \/ ReadFails
             \/ \E h \in Hosts : SkipForeign(h)
             \/ EnsureDone \/ RemoveDone \/ Report \/ EditRules \/ EditConfig
             \/ UNCHANGED vars
    <2>1. UNCHANGED <<calls, reqs, late>>
      BY <1>9 DEF BeginCycle, ListHosts, ReadZone, ReadFails, SkipForeign, EnsureDone,
                  RemoveDone, Report, EditRules, EditConfig, vars, serverVars,
                  cycleVars
    <2>2. QED
      BY <2>1 DEF Pending
  <1>10. QED
    BY <1>2, <1>3, <1>4, <1>5, <1>6, <1>7, <1>8, <1>9
    DEF Next, Plugin, Environment, Pending

LEMMA ShapeInit == Init => ShapeInv
  BY FewRequests DEF Init, ShapeInv, Pending

LEMMA ShapeNext == TypeOK /\ ShapeInv /\ [Next]_vars => ShapeInv'
  <1> SUFFICES ASSUME TypeOK, ShapeInv, [Next]_vars
               PROVE  ShapeInv'
    OBVIOUS
  <1>1. ASSUME NEW h \in Hosts, EnsureHost(h)
        PROVE  ShapeInv'
    <2>1. \A q \in Pending' : Shaped(q)
      <3>1. PICK a, aaaa, https :
               Pending' = EnsureRequests(h, opts, snap, snapHints, a, aaaa, https)
        BY <1>1, EnsurePending
      <3>2. \A q \in EnsureRequests(h, opts, snap, snapHints, a, aaaa, https) : Shaped(q)
        BY PlansShaped
      <3>3. QED
        BY <3>1, <3>2
    <2>2. late' = late
      BY <1>1 DEF EnsureHost, serverVars
    <2>3. QED
      BY <2>1, <2>2 DEF ShapeInv
  <1>2. ASSUME NEW h \in Hosts, RemoveHost(h)
        PROVE  ShapeInv'
    <2>1. \A q \in Pending' : Shaped(q)
      <3>1. PICK a, aaaa, https :
               Pending' = RemoveRequests(h, HintOf(h, snapHints, https), a, aaaa, https)
        BY <1>2, RemovePending
      <3>2. \A q \in RemoveRequests(h, HintOf(h, snapHints, https), a, aaaa, https) : Shaped(q)
        BY PlansShaped
      <3>3. QED
        BY <3>1, <3>2
    <2>2. late' = late
      BY <1>2 DEF RemoveHost, serverVars
    <2>3. QED
      BY <2>1, <2>2 DEF ShapeInv
  <1>3. CASE \A h \in Hosts : ~EnsureHost(h) /\ ~RemoveHost(h)
    BY <1>3, NoNewRequests DEF ShapeInv
  <1>4. QED
    BY <1>1, <1>2, <1>3
=============================================================================
