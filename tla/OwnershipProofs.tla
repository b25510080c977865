--------------------------- MODULE OwnershipProofs ---------------------------
(***************************************************************************)
(* Proofs that the plugin neither touches what others made nor adopts it,  *)
(* for every instance of Reconciler in which others act between cycles     *)
(* only, and never at the hosts that bear our marker; and lemmas for one   *)
(* that shares its zone with another plugin (see TwoInstancesProofs).      *)
(***************************************************************************)
EXTENDS ReconcilerProofs

-----------------------------------------------------------------------------
(***************************************************************************)
(* The kinds of steps there are, as far as a cycle's plan is concerned.    *)
(* Several actions leave the loops over the hosts, several give up a call, *)
(* and what they do to the zone is the same.                               *)
(***************************************************************************)
Undisturbed == LateRequests = "never" /\ AdminWhen = "cycles"

Loops == {"ensure", "remove"}

Still == UNCHANGED <<zone, hints, made>>
Sends == reqs # <<>> /\ Accepted(zone, hints, Head(reqs)) /\ Serve(Head(reqs))

loopVars == <<phase, opts, desired, skipDeletes, snap, snapHints, todo, skipped>>

\* One call fails: Refused, Lost and NotSent.
GivesUp ==
    /\ Sends \/ Still
    /\ reqs # <<>> /\ reqs' = <<>> /\ errors' # {}
    /\ UNCHANGED <<loopVars, calls>>

\* No loop runs afterwards: BeginCycle, ListHosts, ReadFails, Report and Crash.
Leaves ==
    /\ Sends \/ Still
    /\ phase' \notin Loops
    /\ phase' = "report" => errors' # {}
    /\ calls' = <<>> /\ reqs' = <<>>

\* Somebody edits the zone, the rules or the configuration: not in a cycle.
EditsZone == \E r \in Records : AdminAdd(r) \/ AdminDelete(r)

Edits ==
    /\ Still \/ (phase = "idle" /\ EditsZone)
    /\ UNCHANGED <<loopVars, calls, reqs, errors>>

LEMMA KindsOfSteps ==
    ASSUME Undisturbed, TypeOK, CycleInv, [Next]_vars
    PROVE  \/ Leaves \/ ReadZone
           \/ \E h \in Hosts : SkipForeign(h) \/ EnsureHost(h) \/ RemoveHost(h)
           \/ EnsureDone \/ RemoveDone
           \/ BeginCall \/ Answered \/ GivesUp \/ Edits
  <1>1. PerhapsServed => Sends \/ Still
    BY DEF Undisturbed, PerhapsServed, MayBeLate, Sent, Sends, Still, serverVars
  <1>2. CASE BeginCycle \/ ListHosts \/ ReadFails \/ Report
    <2>1. calls' = <<>> /\ reqs' = <<>> /\ Still
      BY <1>2 DEF BeginCycle, ListHosts, ReadFails, Report, CycleInv, BetweenHosts,
                  serverVars, Still
    <2>2. phase' \notin Loops /\ (phase' = "report" => errors' # {})
      BY <1>2 DEF BeginCycle, ListHosts, ReadFails, Report, Loops
    <2>3. QED
      BY <2>1, <2>2 DEF Leaves
  <1>3. CASE Crash
    BY <1>1, <1>3 DEF Crash, Leaves, Loops
  <1>4. CASE Refused \/ NotSent
    BY <1>4 DEF Refused, NotSent, GivesUp, Still, serverVars, loopVars
  <1>5. CASE Lost
    BY <1>1, <1>5 DEF Lost, GivesUp, loopVars
  <1>6. ASSUME NEW r \in Records, AdminAdd(r) \/ AdminDelete(r)
        PROVE  Edits
    <2>1. phase = "idle" /\ UNCHANGED cycleVars
      BY <1>6 DEF AdminAdd, AdminDelete, Administer, Undisturbed, CycleInv, BetweenHosts
    <2>2. QED
      BY <1>6, <2>1 DEF Edits, EditsZone, loopVars, cycleVars
  <1>7. ASSUME EditRules \/ EditConfig \/ UNCHANGED vars
        PROVE  Edits
    <2>1. Still /\ UNCHANGED cycleVars
      BY <1>7 DEF EditRules, EditConfig, vars, serverVars, Still
    <2>2. QED
      BY <2>1 DEF Edits, loopVars, cycleVars
  <1>8. ASSUME NEW q \in late
        PROVE  FALSE
    BY <1>8 DEF CycleInv
  <1>9. ASSUME Plugin
        PROVE  \/ Leaves \/ ReadZone
               \/ \E h \in Hosts : SkipForeign(h) \/ EnsureHost(h) \/ RemoveHost(h)
               \/ EnsureDone \/ RemoveDone
               \/ BeginCall \/ Answered \/ GivesUp \/ Edits
    BY <1>2, <1>4, <1>5, <1>9 DEF Plugin
  <1>10. QED
    BY <1>3, <1>6, <1>7, <1>8, <1>9 DEF Next, Environment

\* What is sent in a cycle was planned in it.
LEMMA SendsPlanned ==
    ASSUME TypeOK, CycleInv, ShapeInv, Sends
    PROVE  LET q == Head(reqs)
           IN  /\ q \in Requests /\ q \in Pending
               /\ Shaped(q) /\ Proper(q)
               /\ Accepted(zone, hints, q)
               /\ zone' = ZoneAfter(zone, q)
               /\ hints' = HintsAfter(zone, hints, q, UpdateSvcbHints(q))
               /\ made' = (made \cap zone') \cup (zone' \ zone)
               /\ phase \in Loops
  <1> DEFINE q == Head(reqs)
  <1>1. reqs # <<>> /\ Accepted(zone, hints, q) /\ Serve(q)
    BY DEF Sends
  <1>2. q \in Requests /\ q \in Pending /\ Shaped(q)
    BY <1>1, HeadPending, PendingType DEF ShapeInv
  <1>3. Proper(q)
    BY <1>1, ProperTail DEF CycleInv, TypeOK
  <1>4. phase \in Loops
    BY <1>1 DEF CycleInv, BetweenHosts, Loops
  <1>5. QED
    BY <1>1, <1>2, <1>3, <1>4 DEF Serve

-----------------------------------------------------------------------------
(***************************************************************************)
(* Whose records are whose.  At a host under our marker every address and  *)
(* HTTPS record is ours (Clear), and the marker is; and a host the cycle   *)
(* may go to, because it was not foreign in the snapshot, stays that way   *)
(* from the read of the zone to the end of the cycle.                      *)
(***************************************************************************)
Clear(h) == \A r \in zone \ made : r.host = h => r.type \notin HostTypes

AdoptInv ==
    /\ made \subseteq zone
    /\ \A h \in Hosts : OwnedByUs(zone, h) => Marker(h) \in made /\ Clear(h)
    /\ phase \in Loops => \A h \in Hosts : ~Foreign(snap, h) => Clear(h)

\* The others keep to their hosts: they edit between cycles, add nothing at a
\* host we marked, and plant no marker in our name.
OthersKeepOff ==
    /\ Undisturbed
    /\ AdminAvoidsOwned
    /\ \A h \in Hosts : Marker(h) \notin AdminAdds

\* A host that is not foreign and has a record has our marker.
LEMMA NotForeign ==
    ASSUME NEW z \in SUBSET Records, NEW h \in Hosts, ~Foreign(z, h),
           NEW r \in z, r.host = h, r.type \in HostTypes
    PROVE  OwnedByUs(z, h)
  BY DEF Foreign, AIPs, AAAAIPs, HTTPSSpecs, HostTypes

LEMMA AdoptInit == Init => AdoptInv
  <1> SUFFICES ASSUME Init
               PROVE  AdoptInv
    OBVIOUS
  <1>1. made = {r \in zone : OwnedByUs(zone, r.host)} /\ phase = "idle"
    BY DEF Init
  <1>2. \A h : Marker(h).host = h
    BY RecordShapes
  <1>3. QED
    BY <1>1, <1>2 DEF AdoptInv, Clear, OwnedByUs, Loops

\* A request of the plugin leaves no more records of others than there were.
LEMMA SendsAdopt ==
    ASSUME TypeOK, CycleInv, ShapeInv, AdoptInv, Sends
    PROVE  /\ made' \subseteq zone'
           /\ \A h : Clear(h) => Clear(h)'
           /\ \A h \in Hosts : OwnedByUs(zone', h) => Marker(h) \in made' /\ Clear(h)'
  <1> DEFINE q == Head(reqs)
  <1>1. /\ q \in Requests /\ Shaped(q) /\ Proper(q) /\ phase \in Loops
        /\ zone' = ZoneAfter(zone, q)
        /\ made' = (made \cap zone') \cup (zone' \ zone)
    BY SendsPlanned
  <1>2. made' \subseteq zone' /\ zone' \ made' \subseteq zone \ made
    BY <1>1
  <1>3. \A h : Clear(h) => Clear(h)'
    BY <1>2 DEF Clear
  <1>4. ASSUME NEW h \in Hosts, OwnedByUs(zone', h)
        PROVE  Marker(h) \in made' /\ Clear(h)'
    <2>1. CASE OwnedByUs(zone, h)
      BY <1>1, <1>3, <1>4, <2>1 DEF AdoptInv, OwnedByUs
    <2>2. CASE ~OwnedByUs(zone, h)
      <3>1. Marker(h) \in Written(q) /\ Marker(h) \in made'
        BY <1>1, <1>4, <2>2 DEF OwnedByUs, ZoneAfter
      <3>2. q.rec.host = h
        BY <1>1, <3>1, RecordShapes DEF Written, Shaped
      <3>3. Clear(h)
        BY <1>1, <3>2 DEF Proper, AdoptInv
      <3>4. QED
        BY <1>3, <3>1, <3>3
    <2>3. QED
      BY <2>1, <2>2
  <1>5. QED
    BY <1>2, <1>3, <1>4

LEMMA EditsAdopt ==
    ASSUME OthersKeepOff, TypeOK, AdoptInv, EditsZone
    PROVE  /\ made' \subseteq zone'
           /\ \A h \in Hosts : OwnedByUs(zone', h) => Marker(h) \in made' /\ Clear(h)'
  <1>1. PICK r \in Records : AdminAdd(r) \/ AdminDelete(r)
    BY DEF EditsZone
  <1>2. made' = made \cap zone' /\ made' \subseteq zone'
    BY <1>1 DEF AdminAdd, AdminDelete, Administer
  <1>3. CASE AdminDelete(r)
    <2>1. zone' = zone \ {r}
      BY <1>3 DEF AdminDelete, Administer, ZoneAfter, Removed, Written,
                  DeleteRecord, Request
    <2>2. QED
      BY <1>2, <2>1 DEF AdoptInv, Clear, OwnedByUs
  <1>4. CASE AdminAdd(r)
    <2>1. /\ zone' = zone \cup {r} /\ made' = made
          /\ r \in AdminAdds /\ ~OwnedByUs(zone, r.host)
      BY <1>2, <1>4 DEF AdminAdd, Administer, ZoneAfter, Removed, Written,
                        AddRecord, Request, OthersKeepOff, AdoptInv
    <2>2. QED
      BY <1>2, <2>1 DEF AdoptInv, Clear, OwnedByUs, OthersKeepOff
  <1>5. QED
    BY <1>1, <1>3, <1>4

LEMMA AdoptNext ==
    ASSUME OthersKeepOff, TypeOK, CycleInv, ShapeInv, AdoptInv, [Next]_vars
    PROVE  AdoptInv'
  <1>1. CASE Sends /\ (phase' \in Loops => UNCHANGED <<phase, snap>>)
    BY <1>1, SendsAdopt DEF AdoptInv
  <1>2. CASE Still /\ (phase' \in Loops => phase \in Loops /\ UNCHANGED snap)
    BY <1>2 DEF AdoptInv, Still, Clear
  <1>3. CASE ReadZone
    <2>1. UNCHANGED <<zone, made>> /\ snap' = zone
      BY <1>3 DEF ReadZone, serverVars
    <2>2. ASSUME NEW h \in Hosts, ~Foreign(zone, h)
          PROVE  Clear(h)
      BY <2>2, NotForeign DEF Clear, AdoptInv, TypeOK
    <2>3. QED
      BY <2>1, <2>2 DEF AdoptInv, Clear
  <1>4. CASE Leaves
    BY <1>1, <1>2, <1>4 DEF Leaves
  <1>5. ASSUME NEW h \in Hosts, SkipForeign(h) \/ EnsureHost(h) \/ RemoveHost(h)
        PROVE  AdoptInv'
    BY <1>2, <1>5 DEF SkipForeign, EnsureHost, RemoveHost, Still, serverVars
  <1>6. CASE EnsureDone \/ RemoveDone \/ BeginCall
    BY <1>2, <1>6 DEF EnsureDone, RemoveDone, BeginCall, Still, serverVars, Loops
  <1>7. CASE Answered
    BY <1>1, <1>7 DEF Answered, Sends
  <1>8. CASE GivesUp
    BY <1>1, <1>2, <1>8 DEF GivesUp, loopVars
  <1>9. CASE Edits
    <2>1. CASE Still
      BY <1>2, <1>9, <2>1 DEF Edits, loopVars
    <2>2. CASE phase = "idle" /\ EditsZone
      BY <1>9, <2>2, EditsAdopt DEF Edits, loopVars, AdoptInv, Loops
    <2>3. QED
      BY <1>9, <2>1, <2>2 DEF Edits
  <1>10. QED
    BY <1>3, <1>4, <1>5, <1>6, <1>7, <1>8, <1>9, KindsOfSteps DEF OthersKeepOff

\* A step sends what was planned, or edits the zone, or leaves it as it is.
LEMMA ZoneSteps ==
    ASSUME Undisturbed, TypeOK, CycleInv, [Next]_vars
    PROVE  Sends \/ Still \/ EditsZone
  <1>1. CASE Leaves \/ GivesUp \/ Edits
    BY <1>1 DEF Leaves, GivesUp, Edits
  <1>2. CASE Answered
    BY <1>2 DEF Answered, Sends
  <1>3. CASE \/ ReadZone \/ EnsureDone \/ RemoveDone \/ BeginCall
             \/ \E h \in Hosts : SkipForeign(h) \/ EnsureHost(h) \/ RemoveHost(h)
    BY <1>3 DEF ReadZone, SkipForeign, EnsureHost, RemoveHost, EnsureDone,
                RemoveDone, BeginCall, serverVars, Still
  <1>4. QED
    BY <1>1, <1>2, <1>3, KindsOfSteps

LEMMA OnlySends ==
    ASSUME Undisturbed, TypeOK, CycleInv, [Next]_vars, edits' = edits
    PROVE  UNCHANGED zone \/ Sends
  <1>1. EditsZone => edits' # edits
    BY DEF EditsZone, AdminAdd, AdminDelete, Administer, Edit, TypeOK
  <1>2. QED
    BY <1>1, ZoneSteps DEF Still

-----------------------------------------------------------------------------
(* What the invariant is for: nobody else's records are touched or adopted. *)

\* Markers are held in cycles no one disturbs.
LEMMA UndisturbedMarkers == Undisturbed => MarkersHeld
  BY DEF Undisturbed, MarkersHeld

\* A request that is carried out takes away nothing but a record of ours.
LEMMA TakesOurs ==
    ASSUME TypeOK, MarkerInv, CycleInv, ShapeInv, AdoptInv, Sends
    PROVE  zone \ made \subseteq zone'
  <1> DEFINE q == Head(reqs)
  <1>1. /\ q \in Requests /\ Shaped(q) /\ zone' = ZoneAfter(zone, q)
        /\ Accepted(zone, hints, q) /\ reqs # <<>>
    BY SendsPlanned DEF Sends
  <1>2. CASE q.verb \notin {"update", "delete"}
    BY <1>1, <1>2 DEF ZoneAfter, Removed
  <1>3. CASE q.verb \in {"update", "delete"}
    <2>1. q.rec \in zone /\ q.rec \in Records /\ q.rec.host \in Hosts
      BY <1>1, <1>3 DEF Accepted, Found, Requests, Records
    <2>2. CASE q.rec.type \in HostTypes
      <3>1. OwnedByUs(zone, q.rec.host)
        BY <1>1, <2>2, MarkerInvImplies DEF WriteUnderMarker
      <3>2. q.rec \in made
        BY <2>1, <2>2, <3>1 DEF AdoptInv, Clear
      <3>3. QED
        BY <1>1, <3>2 DEF ZoneAfter, Removed
    <2>3. CASE q.rec.type \notin HostTypes
      <3>1. q.rec = Marker(q.rec.host)
        BY <1>1, <2>3 DEF Shaped
      <3>2. q.rec \in made
        BY <2>1, <3>1 DEF AdoptInv, OwnedByUs
      <3>3. QED
        BY <1>1, <3>2 DEF ZoneAfter, Removed
    <2>4. QED
      BY <2>2, <2>3
  <1>4. QED
    BY <1>2, <1>3

\* A request marks a host only where all there is is ours.
LEMMA MarksFree ==
    ASSUME TypeOK, CycleInv, ShapeInv, AdoptInv, Sends, NEW h \in Hosts,
           ~OwnedByUs(zone, h), OwnedByUs(zone', h)
    PROVE  Clear(h)
  <1> DEFINE q == Head(reqs)
  <1>1. Shaped(q) /\ Proper(q) /\ phase \in Loops /\ zone' = ZoneAfter(zone, q)
    BY SendsPlanned
  <1>2. Marker(h) \in Written(q)
    BY <1>1 DEF OwnedByUs, ZoneAfter
  <1>3. q.rec.host = h
    BY <1>1, <1>2, RecordShapes DEF Written, Shaped
  <1>4. QED
    BY <1>1, <1>3 DEF Proper, AdoptInv

\* Reconcile never takes away or rewrites a record the plugin did not write,
\* whatever is lost and wherever it stops, provided that the others edit between
\* its cycles and stay away from the hosts it marked.
THEOREM ForeignersUntouched ==
    ASSUME OthersKeepOff
    PROVE  Spec => ForeignUntouched
  <1>1. ASSUME TypeOK, MarkerInv, CycleInv, ShapeInv, AdoptInv, [Next]_vars
        PROVE  [edits' = edits => zone \ made \subseteq zone']_vars
    <2>1. SUFFICES ASSUME edits' = edits
                   PROVE  zone \ made \subseteq zone'
      OBVIOUS
    <2>2. UNCHANGED zone \/ Sends
      BY <1>1, <2>1, OnlySends DEF OthersKeepOff
    <2>3. QED
      BY <1>1, <2>2, TakesOurs
  <1>2. TypeOK /\ MarkerInv /\ [Next]_vars => MarkerInv'
    BY MarkerNext, UndisturbedMarkers DEF OthersKeepOff
  <1>3. TypeOK /\ CycleInv /\ [Next]_vars => CycleInv'
    BY CycleNext DEF OthersKeepOff, Undisturbed
  <1>4. TypeOK /\ CycleInv /\ ShapeInv /\ AdoptInv /\ [Next]_vars => AdoptInv'
    BY AdoptNext
  <1>5. QED
    BY <1>1, <1>2, <1>3, <1>4, TypeInit, TypeNext, MarkerInit, CycleInit,
       ShapeInit, ShapeNext, AdoptInit, PTL DEF Spec, ForeignUntouched

\* CreateHost never plants the marker at a host that has an address or HTTPS
\* record the plugin did not write: a host may get one after the zone was read
\* only from the plugin itself.
THEOREM NeverAdopting ==
    ASSUME OthersKeepOff
    PROVE  Spec => NeverAdopts
  <1>1. ASSUME TypeOK, CycleInv, ShapeInv, AdoptInv, [Next]_vars
        PROVE  [\A h \in Hosts :
                  (edits' = edits /\ ~OwnedByUs(zone, h) /\ OwnedByUs(zone', h))
                     => \A r \in zone \ made :
                           r.host = h => r.type \notin HostTypes]_vars
    <2>1. SUFFICES ASSUME NEW h \in Hosts, edits' = edits,
                          ~OwnedByUs(zone, h), OwnedByUs(zone', h)
                   PROVE  Clear(h)
      BY DEF Clear
    <2>2. Sends
      BY <1>1, <2>1, OnlySends DEF OthersKeepOff, OwnedByUs
    <2>3. QED
      BY <1>1, <2>1, <2>2, MarksFree
  <1>2. TypeOK /\ CycleInv /\ [Next]_vars => CycleInv'
    BY CycleNext DEF OthersKeepOff, Undisturbed
  <1>3. TypeOK /\ CycleInv /\ ShapeInv /\ AdoptInv /\ [Next]_vars => AdoptInv'
    BY AdoptNext
  <1>4. QED
    BY <1>1, <1>2, <1>3, TypeInit, TypeNext, CycleInit, ShapeInit, ShapeNext,
       AdoptInit, PTL DEF Spec, NeverAdopts

-----------------------------------------------------------------------------
(***************************************************************************)
(* Beside another plugin.  Both may have their marker at a host, and each  *)
(* deletes or rewrites whichever address it finds there; but no marker     *)
(* answers for more than one address.  A plugin with a marker holds a      *)
(* place for one address, unless its cycle saw none at the host and is     *)
(* about to add one, or to leave, or has not come to the host yet.         *)
(***************************************************************************)
\* A host the current loop has not come to, or the first loop will not come to.
Unseen(h) == h \in todo \/ (phase = "ensure" /\ h \notin desired)

AddsAddress(q)    == q.verb = "add" /\ q.rec.type = "A"
DeletesAddress(q) == q.verb = "delete" /\ q.rec.type = "A"
TakesMarker(q)    == q.verb = "delete" /\ q.rec.type = "TXT"

Comes(h)  == Unseen(h) /\ AIPs(snap, h) = {}
Adds(h)   == \E q \in Pending : q.rec.host = h /\ AddsAddress(q)
Retires(h) ==
    /\ \E q \in Pending : q.rec.host = h /\ TakesMarker(q)
    /\ \A q \in Pending : q.rec.host = h => ~DeletesAddress(q)

Light(h) == phase \in Loops /\ (Comes(h) \/ Adds(h) \/ Retires(h))
Holds(h) == OwnedByUs(zone, h) /\ ~Light(h)

\* As many addresses as there are places.
Fits(ips, mine, theirs) ==
    /\ ~mine /\ ~theirs => ips = {}
    /\ ~(mine /\ theirs) => \A x, y \in ips : x = y
    /\ \A x, y, z \in ips : x = y \/ y = z \/ x = z

\* The users of both plugins want A records only, and nobody else edits the zone.
SharedWorld ==
    /\ Undisturbed
    /\ AdminAdds = {} /\ AdminDeletes = {}
    /\ \A c \in Configs : ~c.aaaa /\ ~c.https

Plain(z) == \A r \in z : r.type \in {"A", "TXT"}

\* A plan is one call, and what changes the number of places is its last request.
Final(q) == AddsAddress(q) \/ TakesMarker(q)

FinalLast(s) == \A i \in 1..Len(s) : i < Len(s) => ~Final(s[i])

PlanInv ==
    /\ phase \in Loops => Plain(snap)
    /\ \A q \in Pending : q.rec.type \in {"A", "TXT"}
    /\ calls # <<>> => reqs = <<>> /\ Len(calls) = 1
    /\ FinalLast(reqs) /\ \A i \in 1..Len(calls) : FinalLast(calls[i])
    /\ phase \in Loops => \A q \in Pending : ~Unseen(q.rec.host)
    /\ phase = "ensure" => todo \subseteq desired

PartyInv == TypeOK /\ MarkerInv /\ CycleInv /\ ShapeInv /\ PlanInv

\* Counting, as far as two.
LEMMA FitsEmpty == \A a, b : Fits({}, a, b)
  BY DEF Fits

LEMMA FitsFewer ==
    ASSUME NEW S, NEW T, NEW a \in BOOLEAN, NEW c \in BOOLEAN, NEW b \in BOOLEAN,
           Fits(S, a, b), T \subseteq S, a => c
    PROVE  Fits(T, c, b)
  <1>1. CASE a
    BY <1>1 DEF Fits
  <1>2. CASE ~a /\ b
    BY <1>2 DEF Fits
  <1>3. CASE ~a /\ ~b
    BY <1>3 DEF Fits
  <1>4. QED
    BY <1>1, <1>2, <1>3

LEMMA FitsOneMore ==
    ASSUME NEW S, NEW x, NEW b \in BOOLEAN, Fits(S, FALSE, b)
    PROVE  Fits(S \cup {x}, TRUE, b)
  <1>1. CASE b
    BY <1>1 DEF Fits
  <1>2. CASE ~b
    BY <1>2 DEF Fits
  <1>3. QED
    BY <1>1, <1>2

LEMMA FitsOneLess ==
    ASSUME NEW S, NEW x \in S, NEW a \in BOOLEAN, NEW b \in BOOLEAN, Fits(S, a, b)
    PROVE  Fits(S \ {x}, FALSE, b)
  <1>1. CASE b
    BY <1>1 DEF Fits
  <1>2. CASE ~b
    BY <1>2 DEF Fits
  <1>3. QED
    BY <1>1, <1>2

LEMMA FitsAnyway ==
    ASSUME NEW S, NEW a \in BOOLEAN, NEW b \in BOOLEAN, Fits(S, FALSE, b)
    PROVE  Fits(S, a, b)
  BY FitsFewer

\* T is S with y in the place of x.
Swaps(S, T, x, y) == x \in S /\ \A z \in T : z = y \/ (z \in S /\ z # x)

LEMMA FitsSwapped ==
    ASSUME NEW S, NEW T, NEW x, NEW y, NEW a \in BOOLEAN, NEW b \in BOOLEAN,
           Swaps(S, T, x, y), Fits(S, a, b)
    PROVE  Fits(T, a, b)
  <1>1. CASE a /\ b
    BY <1>1 DEF Fits, Swaps
  <1>2. CASE ~(a /\ b)
    BY <1>2 DEF Fits, Swaps
  <1>3. QED
    BY <1>1, <1>2

-----------------------------------------------------------------------------
(* The plans of a user of A records only. *)

LEMMA PlainFirsts ==
    ASSUME NEW z, Plain(z), NEW h
    PROVE  First(AAAAIPs(z, h)) = {Blank} /\ First(HTTPSSpecs(z, h)) = {Blank}
  BY DEF Plain, First, AAAAIPs, HTTPSSpecs

LEMMA OneCall ==
    ASSUME NEW s, FinalLast(s)
    PROVE  /\ <<s>> # <<>> /\ Len(<<s>>) = 1
           /\ \A i \in 1..Len(<<s>>) : FinalLast(<<s>>[i])
  <1>1. Len(<<s>>) = 1 /\ <<s>>[1] = s
    OBVIOUS
  <1>2. QED
    BY <1>1

LEMMA EmptyConcat ==
    ASSUME NEW S, NEW s \in Seq(S)
    PROVE  s \o <<>> = s /\ <<>> \o s = s
  OBVIOUS

LEMMA CreateFinal ==
    ASSUME NEW h \in Hosts, NEW ip \in IPv4s
    PROVE  FinalLast(CreateHost(h, ip, Blank, Blank))
  <1> DEFINE s == <<AddRecord(Marker(h)), AddRecord(ARecord(h, ip))>>
  <1>1. s \in Seq(Requests)
    BY RecordTypes, RequestTypes
  <1>2. CreateHost(h, ip, Blank, Blank) = s
    BY <1>1, EmptyConcat DEF CreateHost, When
  <1>3. Len(s) = 2 /\ s[1] = AddRecord(Marker(h))
    OBVIOUS
  <1>4. ~Final(AddRecord(Marker(h)))
    BY DEF Final, AddsAddress, TakesMarker, AddRecord, Request, Marker, MarkerRecord
  <1> HIDE DEF s
  <1>5. QED
    BY <1>2, <1>3, <1>4 DEF FinalLast

LEMMA UpdateFinal ==
    ASSUME NEW h \in Hosts, NEW old \in IPv4s, NEW new \in IPv4s
    PROVE  FinalLast(UpdateA(h, old, new))
  <1> DEFINE s == UpdateA(h, old, new)
  <1>1. Len(s) = 2 /\ s[1] = CheckOwnership(h)
    BY DEF UpdateA
  <1>2. ~Final(CheckOwnership(h))
    BY DEF Final, AddsAddress, TakesMarker, CheckOwnership, Request
  <1> HIDE DEF s
  <1>3. FinalLast(s)
    BY <1>1, <1>2 DEF FinalLast
  <1>4. QED
    BY <1>3 DEF s

\* No request but the last is final when all before it are none.
NoneFinal(s) == s \in Seq(Requests) /\ \A i \in 1..Len(s) : ~Final(s[i])

LEMMA NoneFinalConcat ==
    ASSUME NEW s, NEW t, NoneFinal(s), NoneFinal(t)
    PROVE  NoneFinal(s \o t)
  BY DEF NoneFinal

LEMMA NoneFinalThenLast ==
    ASSUME NEW s, NEW q \in Requests, NoneFinal(s)
    PROVE  FinalLast(s \o <<q>>)
  BY DEF NoneFinal, FinalLast

LEMMA DeleteFinal ==
    ASSUME NEW h \in Hosts, NEW ip \in IPv4s \cup {Blank}
    PROVE  FinalLast(DeleteHost(h, ip, Blank, Blank, {}))
  <1> DEFINE c == CheckOwnership(h)
             d == DeleteRecord(ARecord(h, ip), {})
             m == DeleteRecord(Marker(h), {})
             none == <<>>
             open == <<c>>
             v4   == When(ip # Blank, d)
  <1>1. c \in Requests /\ m \in Requests /\ (ip # Blank => d \in Requests)
    BY RecordTypes, RequestTypes
  <1>2. ~Final(c) /\ ~Final(d)
    BY DEF Final, AddsAddress, TakesMarker, CheckOwnership, DeleteRecord, Request,
           ARecord
  <1>3. DeleteHost(h, ip, Blank, Blank, {}) = open \o none \o v4 \o none \o <<m>>
    BY DEF DeleteHost, When
  <1> HIDE DEF c, d, m
  <1>4. NoneFinal(open) /\ NoneFinal(none)
    BY <1>1, <1>2 DEF NoneFinal
  <1>5. NoneFinal(v4)
    BY <1>1, <1>2 DEF NoneFinal, When
  <1> HIDE DEF open, none, v4
  <1>6. NoneFinal(open \o none \o v4 \o none)
    BY <1>4, <1>5, NoneFinalConcat
  <1>7. QED
    BY <1>1, <1>3, <1>6, NoneFinalThenLast

LEMMA NoEdits == SharedWorld => ~EditsZone
  BY DEF SharedWorld, EditsZone, AdminAdd, AdminDelete

LEMMA EnsureFinal ==
    ASSUME SharedWorld, TypeOK, Plain(snap), NEW h \in Hosts, EnsureHost(h)
    PROVE  /\ calls' # <<>> => Len(calls') = 1
           /\ \A i \in 1..Len(calls') : FinalLast(calls'[i])
           /\ \A q \in Pending' : q.rec.host = h /\ q.rec.type \in {"A", "TXT"}
           /\ \A q \in Pending' : ~TakesMarker(q)
           /\ (\E q \in Pending' : AddsAddress(q)) => AIPs(snap, h) = {}
  <1>1. PICK a \in First(AIPs(snap, h)), aaaa \in First(AAAAIPs(snap, h)),
             https \in First(HTTPSSpecs(snap, h)) :
          /\ a \in IPv4s \cup {Blank}
          /\ calls' = EnsureCalls(h, opts, snap, snapHints, a, aaaa, https)
          /\ Pending' = EnsureRequests(h, opts, snap, snapHints, a, aaaa, https)
    BY EnsurePending
  <1>2. aaaa = Blank /\ https = Blank
    BY <1>1, PlainFirsts
  <1>3. ~opts.aaaa /\ ~opts.https /\ opts.ip4 \in IPv4s
    BY ConfigsAssumption DEF SharedWorld, TypeOK, ConfigType
  <1>4. \A q \in Pending' : q.rec.host = h
    BY <1>1, PlansAt
  <1>5. CASE a = Blank
    <2>1. AIPs(snap, h) = {}
      <3>1. a \notin AIPs(snap, h)
        BY <1>5, BlankAssumption DEF AIPs, TypeOK, Records, Addresses
      <3>2. QED
        BY <1>1, <3>1 DEF First
    <2>2. calls' = <<CreateHost(h, opts.ip4, Blank, Blank)>>
      BY <1>1, <1>2, <1>3, <1>5 DEF EnsureCalls, CreateCall
    <2>3. Pending' = {AddRecord(Marker(h)), AddRecord(ARecord(h, opts.ip4))}
      BY <1>1, <1>2, <1>3, <1>5 DEF EnsureRequests, CreateRequests, Only
    <2>4. \A q \in Pending' : q.rec.type \in {"A", "TXT"} /\ ~TakesMarker(q)
      BY <2>3 DEF AddRecord, Request, Marker, MarkerRecord, ARecord, TakesMarker
    <2>5. FinalLast(CreateHost(h, opts.ip4, Blank, Blank))
      BY <1>3, CreateFinal
    <2>6. QED
      BY <1>4, <2>1, <2>2, <2>4, <2>5, OneCall
  <1>6. CASE a # Blank
    <2> DEFINE u == UpdateA(h, a, opts.ip4)
               w == When(NeedsUpdate(AIPs(snap, h), opts.ip4), u)
    <2>1. a \in IPv4s
      BY <1>1, <1>6
    <2>2. w = <<>> \/ w = <<u>>
      BY DEF When
    <2>3. u \in Seq(Requests)
      BY <1>3, <2>1, RepairTypes
    <2>4. FinalLast(u)
      BY <1>3, <2>1, UpdateFinal
    <2>5. calls' = w
      <3>1. calls' = <<>> \o <<>> \o w \o <<>> \o <<>> \o <<>> \o <<>>
        BY <1>1, <1>2, <1>3, <1>6 DEF EnsureCalls, RepairCalls, When
      <3> HIDE DEF u, w
      <3>2. <<u>> \in Seq(Seq(Requests)) /\ <<>> \in Seq(Seq(Requests))
        BY <2>3
      <3>3. w \in Seq(Seq(Requests))
        BY <2>2, <3>2
      <3>4. QED
        BY <3>1, <3>3, EmptyConcat
    <2>6. Pending' \subseteq {CheckOwnership(h),
                              UpdateRecord(ARecord(h, a), ARecord(h, opts.ip4), {})}
      BY <1>1, <1>2, <1>3, <1>6 DEF EnsureRequests, RepairRequests, Only
    <2>7. \A q \in Pending' : /\ q.rec.type \in {"A", "TXT"}
                              /\ ~TakesMarker(q) /\ ~AddsAddress(q)
      BY <2>6 DEF CheckOwnership, UpdateRecord, Request, Marker, MarkerRecord,
                  ARecord, TakesMarker, AddsAddress
    <2> HIDE DEF u
    <2>8. /\ calls' # <<>> => Len(calls') = 1
          /\ \A i \in 1..Len(calls') : FinalLast(calls'[i])
      BY <2>2, <2>4, <2>5, OneCall
    <2>9. QED
      BY <1>4, <2>7, <2>8
  <1>7. QED
    BY <1>5, <1>6

LEMMA RemoveFinal ==
    ASSUME TypeOK, Plain(snap), NEW h \in Hosts, RemoveHost(h)
    PROVE  /\ calls' # <<>> => Len(calls') = 1
           /\ \A i \in 1..Len(calls') : FinalLast(calls'[i])
           /\ \A q \in Pending' : q.rec.host = h /\ q.rec.type \in {"A", "TXT"}
           /\ \A q \in Pending' : ~AddsAddress(q)
           /\ (\A q \in Pending' : ~DeletesAddress(q)) => AIPs(snap, h) = {}
  <1>1. PICK a \in First(AIPs(snap, h)), aaaa \in First(AAAAIPs(snap, h)),
             https \in First(HTTPSSpecs(snap, h)) :
          /\ a \in IPv4s \cup {Blank}
          /\ calls' = <<RemoveCall(h, snapHints, a, aaaa, https)>>
          /\ Pending' = RemoveRequests(h, HintOf(h, snapHints, https), a, aaaa, https)
    BY RemovePending
  <1>2. aaaa = Blank /\ https = Blank
    BY <1>1, PlainFirsts
  <1>3. RemoveCall(h, snapHints, a, aaaa, https) = DeleteHost(h, a, Blank, Blank, {})
    BY <1>2 DEF RemoveCall
  <1>4. /\ calls' # <<>> => Len(calls') = 1
        /\ \A i \in 1..Len(calls') : FinalLast(calls'[i])
    BY <1>1, <1>3, DeleteFinal, OneCall
  <1>5. Pending' = {CheckOwnership(h), DeleteRecord(Marker(h), {})}
                     \cup (IF a # Blank THEN {DeleteRecord(ARecord(h, a), {})} ELSE {})
    BY <1>1, <1>2 DEF RemoveRequests, Only
  <1>6. \A q \in Pending' : q.rec.host = h
    BY <1>1, PlansAt
  <1>7. \A q \in Pending' : q.rec.type \in {"A", "TXT"} /\ ~AddsAddress(q)
    BY <1>5 DEF CheckOwnership, DeleteRecord, Request, Marker, MarkerRecord,
                ARecord, AddsAddress
  <1>8. ASSUME \A q \in Pending' : ~DeletesAddress(q)
        PROVE  AIPs(snap, h) = {}
    <2>1. DeletesAddress(DeleteRecord(ARecord(h, a), {}))
      BY DEF DeleteRecord, Request, ARecord, DeletesAddress
    <2>2. a = Blank
      BY <1>5, <1>8, <2>1
    <2>3. a \notin AIPs(snap, h)
      BY <2>2, BlankAssumption DEF AIPs, TypeOK, Records, Addresses
    <2>4. QED
      BY <1>1, <2>3 DEF First
  <1>9. QED
    BY <1>4, <1>6, <1>7, <1>8

LEMMA PlanInit == Init => PlanInv
  BY NonePending DEF Init, PlanInv, Plain, FinalLast, Loops

\* A final request is the only one left.
LEMMA FinalAlone ==
    ASSUME TypeOK, PlanInv, reqs # <<>>, Final(Head(reqs))
    PROVE  Tail(reqs) = <<>> /\ Pending = {Head(reqs)}
  <1>1. Len(reqs) = 1
    <2> DEFINE n == Len(reqs)
    <2>1. n \in Nat /\ n # 0 /\ Head(reqs) = reqs[1]
      BY DEF TypeOK
    <2>2. \A i \in 1..n : i < n => reqs[1] # reqs[i]
      BY <2>1 DEF PlanInv, FinalLast
    <2> HIDE DEF n
    <2>3. n = 1
      BY <2>1, <2>2
    <2>4. QED
      BY <2>3 DEF n
  <1>2. Tail(reqs) = <<>>
    BY <1>1, CallsTail DEF TypeOK
  <1>3. calls = <<>>
    BY DEF PlanInv
  <1>4. RequestsOf(reqs) = {Head(reqs)} \cup RequestsOf(Tail(reqs))
    BY RequestsOfTail DEF TypeOK
  <1>5. QED
    BY <1>2, <1>3, <1>4, FewRequests DEF Pending

\* After an answer the rest of the call is left; a failed call leaves nothing.
LEMMA AfterRequest ==
    ASSUME TypeOK, PlanInv, reqs # <<>>, calls' = calls,
           reqs' = <<>> \/ reqs' = Tail(reqs)
    PROVE  /\ Pending' = {} \/ Pending = {Head(reqs)} \cup Pending'
           /\ calls' = <<>> /\ FinalLast(reqs')
  <1>1. calls = <<>>
    BY DEF PlanInv
  <1>2. CASE reqs' = <<>>
    BY <1>1, <1>2, FewRequests DEF FinalLast, Pending
  <1>3. CASE reqs' = Tail(reqs)
    <2>1. RequestsOf(reqs) = {Head(reqs)} \cup RequestsOf(reqs')
      BY <1>3, RequestsOfTail DEF TypeOK
    <2>2. FinalLast(reqs')
      BY <1>3 DEF FinalLast, PlanInv, TypeOK
    <2>3. QED
      BY <1>1, <2>1, <2>2 DEF Pending
  <1>4. QED
    BY <1>2, <1>3

LEMMA SendsPlain ==
    ASSUME TypeOK, CycleInv, ShapeInv, PlanInv, Plain(zone), Sends
    PROVE  Plain(zone')
  <1>1. /\ zone' = ZoneAfter(zone, Head(reqs)) /\ Shaped(Head(reqs))
        /\ Head(reqs).rec.type \in {"A", "TXT"}
    BY SendsPlanned DEF PlanInv
  <1>2. QED
    BY <1>1 DEF Plain, ZoneAfter, Removed, Written, Shaped

LEMMA PlanNext ==
    ASSUME SharedWorld, TypeOK, CycleInv, ShapeInv, PlanInv, Plain(zone), [Next]_vars
    PROVE  PlanInv' /\ Plain(zone)'
  <1>1. Sends \/ Still => Plain(zone)'
    BY SendsPlain DEF Still
  <1>2. CASE Leaves
    <2>1. Pending' = {} /\ phase' \notin Loops /\ phase' # "ensure"
      BY <1>2, FewRequests DEF Leaves, Pending, Loops
    <2>2. QED
      BY <1>1, <1>2, <2>1 DEF Leaves, PlanInv, FinalLast
  <1>3. CASE ReadZone
    <2>1. /\ Pending' = {} /\ calls' = <<>> /\ reqs' = <<>> /\ snap' = zone
          /\ todo' = desired' /\ Still
      BY <1>3, NonePending DEF ReadZone, CycleInv, BetweenHosts, Pending,
                              serverVars, Still
    <2>2. QED
      BY <1>1, <2>1 DEF PlanInv, FinalLast
  <1>4. ASSUME NEW h \in Hosts, SkipForeign(h)
        PROVE  PlanInv' /\ Plain(zone)'
    <2>1. /\ todo' = todo \ {h} /\ Still /\ Pending' = Pending
          /\ UNCHANGED <<phase, snap, desired, calls, reqs>>
      BY <1>4 DEF SkipForeign, serverVars, Pending, Still
    <2>2. QED
      BY <1>1, <2>1 DEF PlanInv, Unseen
  <1>5. ASSUME NEW h \in Hosts, EnsureHost(h) \/ RemoveHost(h)
        PROVE  PlanInv' /\ Plain(zone)'
    <2>1. /\ phase \in Loops /\ h \in todo /\ todo' = todo \ {h} /\ reqs' = <<>>
          /\ UNCHANGED <<phase, snap, desired>> /\ Still
      BY <1>5 DEF EnsureHost, RemoveHost, serverVars, Loops, Still, BetweenHosts
    <2>2. /\ calls' # <<>> => Len(calls') = 1
          /\ \A i \in 1..Len(calls') : FinalLast(calls'[i])
          /\ \A q \in Pending' : q.rec.host = h /\ q.rec.type \in {"A", "TXT"}
      BY <1>5, <2>1, EnsureFinal, RemoveFinal DEF PlanInv
    <2>3. QED
      BY <1>1, <2>1, <2>2 DEF PlanInv, Unseen, FinalLast
  <1>6. CASE EnsureDone \/ RemoveDone
    <2>1. /\ Pending' = {} /\ calls' = <<>> /\ reqs' = <<>> /\ snap' = snap
          /\ phase \in Loops /\ phase' # "ensure" /\ Still
      BY <1>6, NonePending DEF EnsureDone, RemoveDone, BetweenHosts, Pending,
                              serverVars, Still, Loops
    <2>2. QED
      BY <1>1, <2>1 DEF PlanInv, FinalLast
  <1>7. CASE BeginCall
    <2>1. /\ reqs' = Head(calls) /\ calls' = Tail(calls) /\ calls # <<>>
          /\ Pending' = Pending /\ UNCHANGED <<phase, snap, todo, desired>> /\ Still
      BY <1>7, BeginCallPending DEF BeginCall, serverVars, Still
    <2>2. Len(calls) = 1 /\ FinalLast(calls[1])
      BY <2>1 DEF PlanInv
    <2>3. calls' = <<>> /\ FinalLast(reqs')
      BY <2>1, <2>2, CallsTail DEF TypeOK
    <2>4. QED
      BY <1>1, <2>1, <2>3 DEF PlanInv, Unseen
  <1>8. CASE Answered \/ GivesUp
    <2>1. /\ reqs # <<>> /\ UNCHANGED <<calls, phase, snap, todo, desired>>
          /\ reqs' = <<>> \/ reqs' = Tail(reqs)
          /\ Sends \/ Still
      BY <1>8 DEF Answered, GivesUp, loopVars, Sends
    <2>2. /\ Pending' \subseteq Pending
          /\ calls' = <<>> /\ FinalLast(reqs')
      BY <2>1, AfterRequest
    <2>3. QED
      BY <1>1, <2>1, <2>2 DEF PlanInv, Unseen
  <1>9. CASE Edits
    <2>1. Still /\ UNCHANGED <<loopVars, calls, reqs>>
      BY <1>9, NoEdits DEF Edits
    <2>2. QED
      BY <1>1, <2>1 DEF PlanInv, Unseen, Pending, loopVars
  <1>10. QED
    BY <1>2, <1>3, <1>4, <1>5, <1>6, <1>7, <1>8, <1>9, KindsOfSteps DEF SharedWorld

-----------------------------------------------------------------------------
(* What a step does to the addresses of a host and to the places for them. *)

LEMMA AddressAt ==
    ASSUME NEW z \in SUBSET Records, NEW h, NEW x
    PROVE  x \in AIPs(z, h) <=> ARecord(h, x) \in z
  <1>1. \A r \in Records : r.type = "A" => r = ARecord(r.host, r.data)
    BY DEF Records, ARecord
  <1>2. ARecord(h, x).host = h /\ ARecord(h, x).type = "A" /\ ARecord(h, x).data = x
    BY DEF ARecord
  <1>3. QED
    BY <1>1, <1>2 DEF AIPs

LEMMA ElsewhereStays ==
    ASSUME NEW z \in SUBSET Records, NEW q, Shaped(q), NEW h, q.rec.host # h
    PROVE  /\ AIPs(ZoneAfter(z, q), h) = AIPs(z, h)
           /\ OwnedByUs(ZoneAfter(z, q), h) <=> OwnedByUs(z, h)
  <1>1. \A r : r.host = h => (r \in ZoneAfter(z, q) <=> r \in z)
    BY DEF ZoneAfter, Removed, Written, Shaped
  <1>2. QED
    BY <1>1, RecordShapes DEF AIPs, OwnedByUs

\* A step that takes no place away, where no address is added.
LEMMA PlaceStays ==
    ASSUME NEW h \in Hosts, NEW b \in BOOLEAN,
           AIPs(zone', h) \subseteq AIPs(zone, h),
           OwnedByUs(zone, h) => OwnedByUs(zone', h),
           Light(h)' => Light(h), Fits(AIPs(zone, h), Holds(h), b)
    PROVE  Fits(AIPs(zone', h), Holds(h)', b)
  <1>1. Holds(h) \in BOOLEAN /\ Holds(h)' \in BOOLEAN /\ (Holds(h) => Holds(h)')
    BY DEF Holds
  <1>2. QED
    BY <1>1, FitsFewer

\* What is left of a plan when its next request was sent.
Lessens(q) ==
    \/ phase' \notin Loops
    \/ /\ UNCHANGED <<phase, snap, todo, desired>>
       /\ Pending' = {} \/ Pending = {q} \cup Pending'
       /\ Final(q) => Pending' = {}

LEMMA StaysLight ==
    ASSUME NEW h \in Hosts, Lessens(Head(reqs)),
           ~(Head(reqs).rec.host = h /\ DeletesAddress(Head(reqs)))
    PROVE  Light(h)' => Light(h)
  <1> DEFINE q == Head(reqs)
  <1> SUFFICES ASSUME Light(h)'
               PROVE  Light(h)
    OBVIOUS
  <1>1. /\ phase \in Loops /\ UNCHANGED <<phase, snap, todo, desired>>
        /\ Pending' = {} \/ Pending = {q} \cup Pending'
    BY DEF Light, Lessens
  <1>2. CASE Comes(h)'
    BY <1>1, <1>2 DEF Light, Comes, Unseen
  <1>3. CASE Adds(h)'
    BY <1>1, <1>3 DEF Light, Adds
  <1>4. CASE Retires(h)'
    <2>1. Pending = {q} \cup Pending'
      BY <1>1, <1>4 DEF Retires
    <2>2. Retires(h)
      BY <1>4, <2>1 DEF Retires
    <2>3. QED
      BY <1>1, <2>2 DEF Light
  <1>5. QED
    BY <1>2, <1>3, <1>4 DEF Light

LEMMA SendsFit ==
    ASSUME TypeOK, MarkerInv, CycleInv, ShapeInv, PlanInv, Sends, Lessens(Head(reqs)),
           NEW h \in Hosts, NEW b \in BOOLEAN, Fits(AIPs(zone, h), Holds(h), b)
    PROVE  Fits(AIPs(zone', h), Holds(h)', b)
  <1> DEFINE q == Head(reqs)
  <1>1. /\ q \in Requests /\ q \in Pending /\ Shaped(q) /\ reqs # <<>>
        /\ Accepted(zone, hints, q) /\ zone' = ZoneAfter(zone, q)
        /\ phase \in Loops
    BY SendsPlanned DEF Sends
  <1>2. /\ q.rec \in Records /\ q.new \in Records /\ q.rec.type \in {"A", "TXT"}
        /\ q.verb \in {"check", "add", "update", "delete"}
        /\ zone \in SUBSET Records
    BY <1>1 DEF Requests, PlanInv, TypeOK
  <1>3. q.verb \in {"update", "delete"} => q.rec \in zone
    BY <1>1 DEF Accepted, Found
  <1>4. Holds(h) \in BOOLEAN /\ Holds(h)' \in BOOLEAN
    BY DEF Holds
  <1>5. CASE q.rec.host # h
    <2>1. Light(h)' => Light(h)
      BY <1>5, StaysLight
    <2>2. QED
      BY <1>1, <1>2, <1>5, <2>1, ElsewhereStays, PlaceStays
  <1>6. CASE q.rec.host = h /\ q.verb = "check"
    <2>1. zone' = zone
      BY <1>1, <1>6 DEF ZoneAfter, Removed, Written
    <2>2. Light(h)' => Light(h)
      BY <1>6, StaysLight DEF DeletesAddress
    <2>3. QED
      BY <2>1, <2>2, PlaceStays
  <1>7. CASE q.rec.host = h /\ q.verb = "add" /\ q.rec.type = "TXT"
    <2>1. zone' = zone \cup {q.rec}
      BY <1>1, <1>7 DEF ZoneAfter, Removed, Written, Shaped
    <2>2. AIPs(zone', h) \subseteq AIPs(zone, h)
      BY <1>7, <2>1 DEF AIPs
    <2>3. Light(h)' => Light(h)
      BY <1>7, StaysLight DEF DeletesAddress
    <2>4. QED
      BY <2>1, <2>2, <2>3, PlaceStays DEF OwnedByUs
  <1>8. CASE q.rec.host = h /\ AddsAddress(q)
    <2>1. OwnedByUs(zone, h)
      BY <1>1, <1>8, MarkerInvImplies DEF WriteUnderMarker, AddsAddress, HostTypes
    <2>2. ~Holds(h)
      BY <1>1, <1>8 DEF Holds, Light, Adds
    <2>3. /\ zone' = zone \cup {q.rec} /\ OwnedByUs(zone', h)
      BY <1>1, <1>8, <2>1 DEF ZoneAfter, Removed, Written, Shaped, AddsAddress, OwnedByUs
    <2>4. AIPs(zone', h) = AIPs(zone, h) \cup {q.rec.data}
      BY <1>8, <2>3 DEF AIPs, AddsAddress
    <2>5. ~Unseen(h)
      BY <1>1, <1>8 DEF PlanInv
    <2>6. ~Light(h)'
      BY <1>8, <2>5 DEF Light, Comes, Adds, Retires, Unseen, Lessens, Final
    <2>7. Holds(h)'
      BY <2>3, <2>6 DEF Holds
    <2>8. Fits(AIPs(zone, h) \cup {q.rec.data}, TRUE, b)
      <3>1. Fits(AIPs(zone, h), FALSE, b)
        BY <1>4, <2>2, FitsFewer
      <3>2. QED
        BY <3>1, FitsOneMore
    <2>9. QED
      BY <1>4, <2>4, <2>7, <2>8
  <1>9. CASE q.rec.host = h /\ q.verb = "update"
    <2>1. q.rec.type = "A" /\ q.new.host = h /\ q.new.type = "A"
      BY <1>1, <1>2, <1>9 DEF Shaped, HostTypes
    <2>2. zone' = (zone \ {q.rec}) \cup {q.new}
      BY <1>1, <1>9 DEF ZoneAfter, Removed, Written
    <2>3. q.rec = ARecord(h, q.rec.data) /\ q.new = ARecord(h, q.new.data)
      BY <1>2, <1>9, <2>1 DEF Records, ARecord
    <2>4. AIPs(zone', h) = (AIPs(zone, h) \ {q.rec.data}) \cup {q.new.data}
      <3>1. zone' \in SUBSET Records
        BY <1>2, <2>2
      <3>2. \A x : ARecord(h, x) \in zone'
                     <=> \/ ARecord(h, x) \in zone /\ x # q.rec.data
                         \/ x = q.new.data
        <4>1. \A x, y : ARecord(h, x) = ARecord(h, y) <=> x = y
          BY DEF ARecord
        <4>2. QED
          BY <2>2, <2>3, <4>1
      <3>3. QED
        BY <1>2, <3>1, <3>2, AddressAt
    <2>5. q.rec.data \in AIPs(zone, h)
      BY <1>3, <1>9, <2>1 DEF AIPs
    <2>6. Fits(AIPs(zone', h), Holds(h), b)
      <3>1. Swaps(AIPs(zone, h), AIPs(zone', h), q.rec.data, q.new.data)
        BY <2>4, <2>5 DEF Swaps
      <3>2. QED
        BY <1>4, <3>1, FitsSwapped
    <2>7. Light(h)' => Light(h)
      BY <1>9, StaysLight DEF DeletesAddress
    <2>8. OwnedByUs(zone, h) => OwnedByUs(zone', h)
      BY <2>1, <2>2 DEF OwnedByUs, Marker, MarkerRecord
    <2>9. Holds(h) => Holds(h)'
      BY <2>7, <2>8 DEF Holds
    <2>10. QED
      BY <1>4, <2>6, <2>9, FitsFewer
  <1>10. CASE q.rec.host = h /\ DeletesAddress(q)
    <2>1. zone' = zone \ {q.rec} /\ q.rec \in zone
      BY <1>1, <1>3, <1>10 DEF ZoneAfter, Removed, Written, DeletesAddress
    <2>2. q.rec = ARecord(h, q.rec.data)
      BY <1>2, <1>10 DEF Records, ARecord, DeletesAddress
    <2>3. AIPs(zone', h) = AIPs(zone, h) \ {q.rec.data}
      <3>1. \A x : ARecord(h, x) \in zone' <=> ARecord(h, x) \in zone /\ x # q.rec.data
        BY <2>1, <2>2 DEF ARecord
      <3>2. QED
        BY <1>2, <2>1, <3>1, AddressAt
    <2>4. q.rec.data \in AIPs(zone, h)
      BY <1>10, <2>1 DEF AIPs, DeletesAddress
    <2>5. Fits(AIPs(zone', h), FALSE, b)
      <3>1. Fits(AIPs(zone, h) \ {q.rec.data}, FALSE, b)
        BY <1>4, <2>4, FitsOneLess
      <3>2. QED
        BY <2>3, <3>1
    <2>6. QED
      BY <1>4, <2>5, FitsAnyway
  <1>11. CASE q.rec.host = h /\ TakesMarker(q)
    <2>1. Pending = {q}
      BY <1>1, <1>11, FinalAlone DEF Final
    <2>2. ~Holds(h)
      BY <1>1, <1>11, <2>1 DEF Holds, Light, Retires, TakesMarker, DeletesAddress
    <2>3. zone' = zone \ {q.rec}
      BY <1>1, <1>11 DEF ZoneAfter, Removed, Written, TakesMarker
    <2>4. AIPs(zone', h) \subseteq AIPs(zone, h)
      BY <2>3 DEF AIPs
    <2>5. QED
      BY <1>4, <2>2, <2>4, FitsFewer
  <1>12. QED
    BY <1>2, <1>5, <1>6, <1>7, <1>8, <1>9, <1>10, <1>11
    DEF AddsAddress, DeletesAddress, TakesMarker

\* A step without a request leaves every place where it is, or finds no address.
LEMMA StillFit ==
    ASSUME NEW h \in Hosts, NEW b \in BOOLEAN, Still,
           Fits(AIPs(zone, h), Holds(h), b), Light(h)' => Light(h)
    PROVE  Fits(AIPs(zone', h), Holds(h)', b)
  BY PlaceStays DEF Still

LEMMA StillLight ==
    ASSUME SharedWorld, TypeOK, CycleInv, ShapeInv, PlanInv, NEW h \in Hosts,
           \/ \E g \in Hosts : SkipForeign(g) \/ EnsureHost(g) \/ RemoveHost(g)
           \/ EnsureDone \/ RemoveDone \/ BeginCall
    PROVE  Still /\ (Light(h)' => Light(h))
  <1>1. ASSUME NEW g \in Hosts, SkipForeign(g)
        PROVE  Still /\ (Light(h)' => Light(h))
    <2>1. /\ todo' = todo \ {g} /\ Still /\ Pending' = Pending
          /\ UNCHANGED <<phase, snap, desired>>
      BY <1>1 DEF SkipForeign, serverVars, Pending, Still
    <2>2. QED
      BY <2>1 DEF Light, Comes, Unseen, Adds, Retires
  <1>2. ASSUME NEW g \in Hosts, EnsureHost(g) \/ RemoveHost(g)
        PROVE  Still /\ (Light(h)' => Light(h))
    <2>1. /\ todo' = todo \ {g} /\ Still /\ g \in todo /\ phase \in Loops
          /\ UNCHANGED <<phase, snap, desired>>
      BY <1>2 DEF EnsureHost, RemoveHost, serverVars, Still, Loops
    <2>2. CASE Comes(h)'
      BY <2>1, <2>2 DEF Light, Comes, Unseen
    <2>3. CASE Adds(h)'
      <3>1. /\ \A q \in Pending' : q.rec.host = g
            /\ (\E q \in Pending' : AddsAddress(q)) => AIPs(snap, g) = {}
        BY <1>2, <2>1, EnsureFinal, RemoveFinal DEF PlanInv
      <3>2. QED
        BY <2>1, <2>3, <3>1 DEF Adds, Light, Comes, Unseen
    <2>4. CASE Retires(h)'
      <3>1. PICK q \in Pending' : q.rec.host = h /\ TakesMarker(q)
        BY <2>4 DEF Retires
      <3>2. RemoveHost(g)
        BY <1>2, <2>1, <3>1, EnsureFinal DEF PlanInv
      <3>3. /\ \A p \in Pending' : p.rec.host = g
            /\ (\A p \in Pending' : ~DeletesAddress(p)) => AIPs(snap, g) = {}
        BY <2>1, <3>2, RemoveFinal DEF PlanInv
      <3>4. g = h /\ AIPs(snap, h) = {}
        BY <2>4, <3>1, <3>3 DEF Retires
      <3>5. QED
        BY <2>1, <3>4 DEF Light, Comes, Unseen
    <2>5. QED
      BY <2>1, <2>2, <2>3, <2>4 DEF Light
  <1>3. CASE EnsureDone
    <2>1. /\ Pending' = {} /\ UNCHANGED <<snap, desired>> /\ phase = "ensure"
          /\ phase' = "report" \/ (phase' = "remove" /\ todo' = Unwanted(snap, desired))
          /\ Still
      BY <1>3, FewRequests DEF EnsureDone, BetweenHosts, Pending, serverVars, Still
    <2>2. QED
      BY <2>1 DEF Light, Comes, Unseen, Adds, Retires, Unwanted, Loops
  <1>4. CASE RemoveDone
    BY <1>4 DEF RemoveDone, Light, Loops, serverVars, Still
  <1>5. CASE BeginCall
    <2>1. Pending' = Pending /\ UNCHANGED <<phase, snap, todo, desired>> /\ Still
      BY <1>5, BeginCallPending DEF BeginCall, serverVars, Still
    <2>2. QED
      BY <2>1 DEF Light, Comes, Unseen, Adds, Retires
  <1>6. QED
    BY <1>1, <1>2, <1>3, <1>4, <1>5

LEMMA FitNext ==
    ASSUME SharedWorld, PartyInv, [Next]_vars,
           NEW h \in Hosts, NEW b \in BOOLEAN, Fits(AIPs(zone, h), Holds(h), b)
    PROVE  Fits(AIPs(zone', h), Holds(h)', b)
  <1>1. TypeOK /\ MarkerInv /\ CycleInv /\ ShapeInv /\ PlanInv
    BY DEF PartyInv
  <1>2. ASSUME Sends \/ Still, Lessens(Head(reqs)), Still => (Light(h)' => Light(h))
        PROVE  Fits(AIPs(zone', h), Holds(h)', b)
    BY <1>1, <1>2, SendsFit, StillFit
  <1>3. CASE Leaves
    BY <1>2, <1>3 DEF Leaves, Lessens, Light
  <1>4. CASE ReadZone
    <2>1. Pending' = {} /\ snap' = zone /\ Still
      BY <1>1, <1>4, FewRequests DEF ReadZone, CycleInv, BetweenHosts, Pending,
                                     serverVars, Still
    <2>2. CASE AIPs(zone, h) = {}
      BY <2>1, <2>2, FitsEmpty DEF Still
    <2>3. CASE AIPs(zone, h) # {}
      <3>1. ~Light(h)'
        BY <2>1, <2>3 DEF Light, Comes, Adds, Retires
      <3>2. QED
        BY <2>1, <3>1, StillFit
    <2>4. QED
      BY <2>2, <2>3
  <1>5. CASE \/ \E g \in Hosts : SkipForeign(g) \/ EnsureHost(g) \/ RemoveHost(g)
             \/ EnsureDone \/ RemoveDone \/ BeginCall
    BY <1>1, <1>5, StillLight, StillFit
  <1>6. CASE Answered \/ GivesUp
    <2>1. /\ reqs # <<>> /\ UNCHANGED <<calls, phase, snap, todo, desired>>
          /\ reqs' = <<>> \/ (reqs' = Tail(reqs) /\ Sends)
          /\ Sends \/ Still
      BY <1>6 DEF Answered, GivesUp, loopVars, Sends
    <2>2. Pending' = {} \/ Pending = {Head(reqs)} \cup Pending'
      BY <1>1, <2>1, AfterRequest
    <2>3. /\ Final(Head(reqs)) => Pending' = {}
          /\ reqs' = <<>> => Pending' = {}
      <3>1. calls' = <<>>
        BY <1>1, <2>1, AfterRequest
      <3>2. Final(Head(reqs)) => reqs' = <<>>
        BY <1>1, <2>1, FinalAlone
      <3>3. QED
        BY <3>1, <3>2, FewRequests DEF Pending
    <2>4. Lessens(Head(reqs))
      BY <2>1, <2>2, <2>3 DEF Lessens
    <2>5. CASE Sends
      BY <1>1, <2>4, <2>5, SendsFit
    <2>6. CASE Still /\ Pending' = {}
      <3>1. Light(h)' => Light(h)
        BY <2>1, <2>6 DEF Light, Comes, Unseen, Adds, Retires
      <3>2. QED
        BY <2>6, <3>1, StillFit
    <2>7. QED
      BY <2>1, <2>3, <2>5, <2>6
  <1>7. CASE Edits
    <2>1. Still /\ UNCHANGED <<loopVars, calls, reqs>>
      BY <1>7, NoEdits DEF Edits
    <2>2. Light(h)' => Light(h)
      BY <2>1 DEF loopVars, Light, Comes, Unseen, Adds, Retires, Pending
    <2>3. QED
      BY <2>1, <2>2, StillFit
  <1>8. QED
    BY <1>1, <1>3, <1>4, <1>5, <1>6, <1>7, KindsOfSteps DEF SharedWorld

-----------------------------------------------------------------------------
(* What each plugin does, and what it takes from a step of the other. *)

LEMMA PartyInit == Init => PartyInv
  BY TypeInit, MarkerInit, CycleInit, ShapeInit, PlanInit DEF PartyInv

LEMMA PartyNext ==
    ASSUME SharedWorld, PartyInv, Plain(zone), [Next]_vars
    PROVE  PartyInv' /\ Plain(zone)'
  <1>1. MarkersHeld /\ LateRequests = "never"
    BY UndisturbedMarkers DEF SharedWorld, Undisturbed
  <1>2. QED
    BY <1>1, TypeNext, MarkerNext, CycleNext, ShapeNext, PlanNext DEF PartyInv

\* Nobody but the plugin edits the zone, and the plugin by its requests.
LEMMA SendsOrStill ==
    ASSUME SharedWorld, PartyInv, [Next]_vars
    PROVE  Sends \/ Still
  BY ZoneSteps, NoEdits DEF SharedWorld, PartyInv

\* What the plugin wrote is what is left of it in the zone.
LEMMA MadeStays ==
    ASSUME SharedWorld, PartyInv, made \subseteq zone, [Next]_vars
    PROVE  made' \subseteq zone'
  BY SendsOrStill, SendsPlanned DEF PartyInv, Still

\* The plugin neither plants nor takes away a marker that is not its own.
LEMMA OtherMarkersStay ==
    ASSUME SharedWorld, PartyInv, [Next]_vars,
           NEW h \in Hosts, NEW inst \in Instances \ {Self}
    PROVE  MarkerRecord(h, inst) \in zone' <=> MarkerRecord(h, inst) \in zone
  <1>1. CASE Sends
    <2>1. zone' = ZoneAfter(zone, Head(reqs)) /\ Shaped(Head(reqs))
      BY <1>1, SendsPlanned DEF PartyInv
    <2>2. MarkerRecord(h, inst).type \notin HostTypes
      BY DEF MarkerRecord, HostTypes
    <2>3. \A g : MarkerRecord(h, inst) # Marker(g)
      BY DEF Marker, MarkerRecord
    <2>4. /\ Head(reqs).rec # MarkerRecord(h, inst)
          /\ MarkerRecord(h, inst) \notin Written(Head(reqs))
      BY <2>1, <2>2, <2>3 DEF Shaped, Written
    <2>5. QED
      BY <2>1, <2>4 DEF ZoneAfter, Removed
  <1>2. CASE Still
    BY <1>2 DEF Still
  <1>3. QED
    BY <1>1, <1>2, SendsOrStill

\* A step of somebody else who leaves our markers alone.
Watches ==
    /\ UNCHANGED <<late, rules, config, lastSuccess, cycleVars>>
    /\ zone' \in SUBSET Records
    /\ hints' \in [Hosts \X Specs -> SUBSET Addresses]
    /\ made' \in SUBSET Records
    /\ edits' \in 0..MaxEdits /\ faults' \in 0..MaxFaults
    /\ \A h \in Hosts : OwnedByUs(zone', h) <=> OwnedByUs(zone, h)

LEMMA PartyWatches ==
    ASSUME PartyInv, Watches
    PROVE  PartyInv' /\ \A h \in Hosts : Holds(h)' <=> Holds(h)
  <1>1. TypeOK'
    BY DEF PartyInv, TypeOK, Watches, cycleVars
  <1>2. MarkerInv'
    <2>1. reqs # <<>> => Head(reqs).rec.host \in Hosts
      <3>1. reqs # <<>> => Head(reqs) \in Requests
        BY DEF PartyInv, TypeOK
      <3>2. QED
        BY <3>1 DEF Requests, Records
    <2>2. QED
      BY <2>1 DEF PartyInv, MarkerInv, Watches, cycleVars, BetweenHosts
  <1>3. CycleInv'
    BY DEF PartyInv, CycleInv, Watches, cycleVars, AllProper, Proper, Enough, BetweenHosts
  <1>4. Pending' = Pending
    BY DEF Watches, cycleVars, Pending
  <1>5. ShapeInv'
    BY <1>4 DEF PartyInv, ShapeInv, Watches
  <1>6. PlanInv'
    BY <1>4 DEF PartyInv, PlanInv, Watches, cycleVars, Unseen
  <1>7. \A h \in Hosts : Holds(h)' <=> Holds(h)
    BY <1>4 DEF Watches, cycleVars, Holds, Light, Comes, Unseen, Adds, Retires
  <1>8. QED
    BY <1>1, <1>2, <1>3, <1>5, <1>6, <1>7 DEF PartyInv
=============================================================================
