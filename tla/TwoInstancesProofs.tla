-------------------------- MODULE TwoInstancesProofs --------------------------
(***************************************************************************)
(* Proof that two plugins which share a zone orphan no record between      *)
(* them.  What each of them does is known from the lemmas about one        *)
(* Reconciler, which are instantiated here for each of the two; and the    *)
(* steps of TwoInstances are shown to be steps of these instances.         *)
(***************************************************************************)
EXTENDS TwoInstances, TLAPS

PA == INSTANCE OwnershipProofs WITH
       Self <- IdA, Configs <- ConfigsA, InitZones <- {{}}, AdminAdds <- {},
       AdminDeletes <- {}, AdminWhen <- "cycles", AdminAvoidsOwned <- TRUE,
       LateRequests <- "never", late <- {},
       made <- madeA, rules <- rulesA, config <- configA,
       lastSuccess <- lastSuccessA, phase <- phaseA, opts <- optsA,
       desired <- desiredA, previous <- previousA, lastGood <- lastGoodA,
       skipDeletes <- skipDeletesA, snap <- snapA, snapHints <- snapHintsA,
       todo <- todoA, calls <- callsA, reqs <- reqsA, errors <- errorsA,
       skipped <- skippedA, expired <- expiredA

PB == INSTANCE OwnershipProofs WITH
       Self <- IdB, Configs <- ConfigsB, InitZones <- {{}}, AdminAdds <- {},
       AdminDeletes <- {}, AdminWhen <- "cycles", AdminAvoidsOwned <- TRUE,
       LateRequests <- "never", late <- {},
       made <- madeB, rules <- rulesB, config <- configB,
       lastSuccess <- lastSuccessB, phase <- phaseB, opts <- optsB,
       desired <- desiredB, previous <- previousB, lastGood <- lastGoodB,
       skipDeletes <- skipDeletesB, snap <- snapB, snapHints <- snapHintsB,
       todo <- todoB, calls <- callsB, reqs <- reqsB, errors <- errorsB,
       skipped <- skippedB, expired <- expiredB

-----------------------------------------------------------------------------
(***************************************************************************)
(* Every definition of Reconciler is there twice for each plugin: as A!Op, *)
(* of the specification, and as PA!Op, of the lemmas.  They are the same.  *)
(***************************************************************************)

\* The assumptions of the instance.
LEMMA WorldA ==
    /\ IdA \in Instances /\ ProxyHosts \subseteq PA!ProxyHost
    /\ ConfigsA \subseteq PA!ConfigType
    /\ \A c \in ConfigsA : c.aaaa => c.ip6 # Blank
    /\ PA!IsFiniteSet(Hosts) /\ Blank \notin PA!Addresses \cup Specs
    /\ {{}} \subseteq SUBSET PA!Records /\ {} \subseteq PA!Records
    /\ MaxEdits \in Nat /\ MaxFaults \in Nat
    /\ \A s \in Specs : s.target \in Hosts \cup {Own} /\ s.auto \in BOOLEAN
  BY IdsAssumption, PartiesAssumption
  DEF A!ProxyHost, PA!ProxyHost, A!Names, PA!Names, A!ConfigType, PA!ConfigType,
      A!Addresses, PA!Addresses, PA!IsFiniteSet, IsFiniteSet

\* What the server does with a request.
LEMMA SameServerA ==
    /\ \A z, q : A!ZoneAfter(z, q) = PA!ZoneAfter(z, q)
    /\ \A z, hs, q : A!Accepted(z, hs, q) <=> PA!Accepted(z, hs, q)
    /\ \A z, hs, q :
         A!HintsAfter(z, hs, q, A!UpdateSvcbHints(q))
           = PA!HintsAfter(z, hs, q, PA!UpdateSvcbHints(q))
    /\ \A z, h, s : A!Resolve(z, h, s) = PA!Resolve(z, h, s)
    /\ \A h, s : A!HTTPSRecord(h, s) = PA!HTTPSRecord(h, s)
  <1>1. \A h, s : A!HTTPSRecord(h, s) = PA!HTTPSRecord(h, s)
    BY DEF A!HTTPSRecord, PA!HTTPSRecord
  <1>2. \A z, q : A!ZoneAfter(z, q) = PA!ZoneAfter(z, q)
    BY DEF A!ZoneAfter, PA!ZoneAfter, A!Removed, PA!Removed, A!Written, PA!Written
  <1>3. \A z, hs, q : A!Accepted(z, hs, q) <=> PA!Accepted(z, hs, q)
    BY DEF A!Accepted, PA!Accepted, A!Found, PA!Found
  <1>4. \A z, h, s : A!Resolve(z, h, s) = PA!Resolve(z, h, s)
    BY DEF A!Resolve, PA!Resolve, A!TargetOf, PA!TargetOf, A!AddressTypes,
           PA!AddressTypes
  <1>5. \A z, q, h, s :
          A!Rehints(z, q, A!UpdateSvcbHints(q), h, s)
            <=> PA!Rehints(z, q, PA!UpdateSvcbHints(q), h, s)
    BY <1>1 DEF A!Rehints, PA!Rehints, A!Conflict, PA!Conflict, A!Written,
                PA!Written, A!UpdateSvcbHints, PA!UpdateSvcbHints, A!AddressTypes,
                PA!AddressTypes, A!TargetOf, PA!TargetOf
  <1>6. QED
    BY <1>1, <1>2, <1>3, <1>4, <1>5 DEF A!HintsAfter, PA!HintsAfter

\* What the plugin makes of the zone and of the rules.
LEMMA SameViewA ==
    /\ \A z, h : /\ A!AIPs(z, h) = PA!AIPs(z, h)
                 /\ A!AAAAIPs(z, h) = PA!AAAAIPs(z, h)
                 /\ A!HTTPSSpecs(z, h) = PA!HTTPSSpecs(z, h)
                 /\ A!OwnedByUs(z, h) <=> PA!OwnedByUs(z, h)
                 /\ A!Foreign(z, h) <=> PA!Foreign(z, h)
    /\ \A S : A!First(S) = PA!First(S)
    /\ \A z, wanted : A!Unwanted(z, wanted) = PA!Unwanted(z, wanted)
    /\ \A m, n : A!TooFew(m, n) <=> PA!TooFew(m, n)
    /\ \A S : A!Cardinality(S) = PA!Cardinality(S)
    /\ \A rs : A!DeriveDesiredHostnames(rs) = PA!DeriveDesiredHostnames(rs)
    /\ A!NoHints = PA!NoHints
  <1>1. \A z, h : /\ A!AIPs(z, h) = PA!AIPs(z, h)
                 /\ A!AAAAIPs(z, h) = PA!AAAAIPs(z, h)
                 /\ A!HTTPSSpecs(z, h) = PA!HTTPSSpecs(z, h)
    BY DEF A!AIPs, PA!AIPs, A!AAAAIPs, PA!AAAAIPs, A!HTTPSSpecs, PA!HTTPSSpecs
  <1>2. \A z, h : A!OwnedByUs(z, h) <=> PA!OwnedByUs(z, h)
    BY DEF A!OwnedByUs, PA!OwnedByUs, A!Marker, PA!Marker, A!MarkerRecord,
           PA!MarkerRecord
  <1>3. \A z, h : A!Foreign(z, h) <=> PA!Foreign(z, h)
    BY <1>1, <1>2 DEF A!Foreign, PA!Foreign
  <1>4. \A S : A!First(S) = PA!First(S)
    BY DEF A!First, PA!First
  <1>5. \A z, wanted : A!Unwanted(z, wanted) = PA!Unwanted(z, wanted)
    BY <1>2 DEF A!Unwanted, PA!Unwanted
  <1>6. \A S : A!Cardinality(S) = PA!Cardinality(S)
    BY DEF A!Cardinality, PA!Cardinality
  <1>7. \A m, n : A!TooFew(m, n) <=> PA!TooFew(m, n)
    BY DEF A!TooFew, PA!TooFew
  <1>8. \A rs : A!DeriveDesiredHostnames(rs) = PA!DeriveDesiredHostnames(rs)
    BY DEF A!DeriveDesiredHostnames, PA!DeriveDesiredHostnames
  <1>9. A!NoHints = PA!NoHints
    BY DEF A!NoHints, PA!NoHints
  <1>10. QED
    BY <1>1, <1>2, <1>3, <1>4, <1>5, <1>6, <1>7, <1>8, <1>9

\* The methods of the client, and what they are made of.
LEMMA SameRequestsA ==
    /\ \A h, ip4, ip6, https :
         A!CreateHost(h, ip4, ip6, https) = PA!CreateHost(h, ip4, ip6, https)
    /\ \A h, ip4, ip6, https, hint :
         A!DeleteHost(h, ip4, ip6, https, hint)
           = PA!DeleteHost(h, ip4, ip6, https, hint)
    /\ \A h, s : A!CreateHTTPS(h, s) = PA!CreateHTTPS(h, s)
    /\ \A h, s, hint, t :
         A!UpdateHTTPS(h, s, hint, t) = PA!UpdateHTTPS(h, s, hint, t)
    /\ \A h, s, hint : A!DeleteHTTPSOnly(h, s, hint) = PA!DeleteHTTPSOnly(h, s, hint)
    /\ \A h, old, new : A!UpdateA(h, old, new) = PA!UpdateA(h, old, new)
    /\ \A h, ip : A!CreateAAAA(h, ip) = PA!CreateAAAA(h, ip)
    /\ \A h, old, new : A!UpdateAAAA(h, old, new) = PA!UpdateAAAA(h, old, new)
    /\ \A h, ip : A!DeleteAAAAOnly(h, ip) = PA!DeleteAAAAOnly(h, ip)
    /\ \A c, q : A!When(c, q) = PA!When(c, q)
    /\ \A ips, ip : A!NeedsUpdate(ips, ip) <=> PA!NeedsUpdate(ips, ip)
  <1> USE DEF A!Marker, PA!Marker, A!MarkerRecord, PA!MarkerRecord, A!ARecord, PA!ARecord,
          A!AAAARecord, PA!AAAARecord, A!HTTPSRecord, PA!HTTPSRecord,
          A!Request, PA!Request, A!CheckOwnership, PA!CheckOwnership,
          A!AddRecord, PA!AddRecord, A!UpdateRecord, PA!UpdateRecord,
          A!DeleteRecord, PA!DeleteRecord, A!When, PA!When
  <1>1. \A h, ip4, ip6, https :
          A!CreateHost(h, ip4, ip6, https) = PA!CreateHost(h, ip4, ip6, https)
    BY DEF A!CreateHost, PA!CreateHost
  <1>2. \A h, ip4, ip6, https, hint :
          A!DeleteHost(h, ip4, ip6, https, hint)
            = PA!DeleteHost(h, ip4, ip6, https, hint)
    BY DEF A!DeleteHost, PA!DeleteHost
  <1>3. /\ \A h, s : A!CreateHTTPS(h, s) = PA!CreateHTTPS(h, s)
        /\ \A h, s, hint, t : A!UpdateHTTPS(h, s, hint, t) = PA!UpdateHTTPS(h, s, hint, t)
        /\ \A h, s, hint : A!DeleteHTTPSOnly(h, s, hint) = PA!DeleteHTTPSOnly(h, s, hint)
    BY DEF A!CreateHTTPS, PA!CreateHTTPS, A!UpdateHTTPS, PA!UpdateHTTPS,
           A!DeleteHTTPSOnly, PA!DeleteHTTPSOnly
  <1>4. /\ \A h, old, new : A!UpdateA(h, old, new) = PA!UpdateA(h, old, new)
        /\ \A h, ip : A!CreateAAAA(h, ip) = PA!CreateAAAA(h, ip)
        /\ \A h, old, new : A!UpdateAAAA(h, old, new) = PA!UpdateAAAA(h, old, new)
        /\ \A h, ip : A!DeleteAAAAOnly(h, ip) = PA!DeleteAAAAOnly(h, ip)
    BY DEF A!UpdateA, PA!UpdateA, A!CreateAAAA, PA!CreateAAAA, A!UpdateAAAA,
           PA!UpdateAAAA, A!DeleteAAAAOnly, PA!DeleteAAAAOnly
  <1>5. \A c, q : A!When(c, q) = PA!When(c, q)
    OBVIOUS
  <1>6. \A ips, ip : A!NeedsUpdate(ips, ip) <=> PA!NeedsUpdate(ips, ip)
    BY DEF A!NeedsUpdate, PA!NeedsUpdate
  <1>7. QED
    BY <1>1, <1>2, <1>3, <1>4, <1>5, <1>6

\* What is planned for a host.
LEMMA SamePlansA ==
    /\ \A h, o, z, hs, a, aaaa, https :
         A!EnsureCalls(h, o, z, hs, a, aaaa, https)
           = PA!EnsureCalls(h, o, z, hs, a, aaaa, https)
    /\ \A h, hs, a, aaaa, https :
         A!RemoveCall(h, hs, a, aaaa, https) = PA!RemoveCall(h, hs, a, aaaa, https)
  <1>1. \A h, o, z, hs, a, aaaa, https :
          A!RepairCalls(h, o, z, hs, a, aaaa, https)
            = PA!RepairCalls(h, o, z, hs, a, aaaa, https)
    <2> TAKE h, o, z, hs, a, aaaa, https
    <2>1. A!AIPs(z, h) = PA!AIPs(z, h) /\ A!AAAAIPs(z, h) = PA!AAAAIPs(z, h)
      BY SameViewA
    <2>2. QED
      BY <2>1, SameRequestsA DEF A!RepairCalls, PA!RepairCalls
  <1>2. QED
    BY <1>1, SameRequestsA DEF A!EnsureCalls, PA!EnsureCalls, A!CreateCall,
                            PA!CreateCall, A!RemoveCall, PA!RemoveCall

\* So the behaviours are the same as well.
LEMMA SameInitA == A!Init => PA!Init
  BY SameServerA, SameViewA DEF A!Init, PA!Init

LEMMA SameStepsA == A!Plugin \/ A!Crash \/ A!EditRules => PA!Next
  <1> USE DEF A!serverVars, PA!serverVars, A!cycleVars, PA!cycleVars,
              A!BetweenHosts, PA!BetweenHosts
  <1>1. \A q : A!Serve(q) <=> PA!Serve(q)
    BY SameServerA DEF A!Serve, PA!Serve
  <1>2. A!PerhapsServed => PA!PerhapsServed
    BY <1>1, SameServerA DEF A!PerhapsServed, PA!PerhapsServed, A!Sent, PA!Sent,
                             A!MayBeLate, PA!MayBeLate
  <1>3. A!BeginCycle => PA!BeginCycle
    BY DEF A!BeginCycle, PA!BeginCycle
  <1>4. A!ListHosts => PA!ListHosts
    <2>1. /\ \A rs : A!DeriveDesiredHostnames(rs) = PA!DeriveDesiredHostnames(rs)
          /\ \A S : A!Cardinality(S) = PA!Cardinality(S)
          /\ \A m, n : A!TooFew(m, n) <=> PA!TooFew(m, n)
      BY SameViewA
    <2>2. QED
      BY <2>1 DEF A!ListHosts, PA!ListHosts
  <1>5. A!ReadZone => PA!ReadZone
    BY DEF A!ReadZone, PA!ReadZone
  <1>6. A!ReadFails => PA!ReadFails
    BY DEF A!ReadFails, PA!ReadFails
  <1>7. \A h \in Hosts : A!SkipForeign(h) => PA!SkipForeign(h)
    BY SameViewA DEF A!SkipForeign, PA!SkipForeign
  <1>8. \A h \in Hosts : A!EnsureHost(h) => PA!EnsureHost(h)
    BY SameViewA, SamePlansA DEF A!EnsureHost, PA!EnsureHost
  <1>9. \A h \in Hosts : A!RemoveHost(h) => PA!RemoveHost(h)
    BY SameViewA, SamePlansA DEF A!RemoveHost, PA!RemoveHost
  <1>10. A!EnsureDone => PA!EnsureDone
    BY SameViewA DEF A!EnsureDone, PA!EnsureDone
  <1>11. A!RemoveDone => PA!RemoveDone
    BY DEF A!RemoveDone, PA!RemoveDone
  <1>12. A!Report => PA!Report
    BY SameViewA DEF A!Report, PA!Report
  <1>13. A!BeginCall => PA!BeginCall
    BY DEF A!BeginCall, PA!BeginCall
  <1>14. A!Answered => PA!Answered
    BY <1>1, SameServerA DEF A!Answered, PA!Answered
  <1>15. A!Refused => PA!Refused
    BY SameServerA DEF A!Refused, PA!Refused
  <1>16. A!Lost => PA!Lost
    BY <1>2 DEF A!Lost, PA!Lost
  <1>17. A!NotSent => PA!NotSent
    BY DEF A!NotSent, PA!NotSent
  <1>18. A!Crash => PA!Crash
    BY <1>2, SameViewA DEF A!Crash, PA!Crash
  <1>19. A!EditRules => PA!EditRules
    BY DEF A!EditRules, PA!EditRules, A!Edit, PA!Edit
  <1>20. QED
    BY <1>3, <1>4, <1>5, <1>6, <1>7, <1>8, <1>9, <1>10, <1>11, <1>12, <1>13, <1>14,
       <1>15, <1>16, <1>17, <1>18, <1>19
    DEF A!Plugin, PA!Plugin, PA!Next, PA!Environment

\* The same for the other plugin.
LEMMA WorldB ==
    /\ IdB \in Instances /\ ProxyHosts \subseteq PB!ProxyHost
    /\ ConfigsB \subseteq PB!ConfigType
    /\ \A c \in ConfigsB : c.aaaa => c.ip6 # Blank
    /\ PB!IsFiniteSet(Hosts) /\ Blank \notin PB!Addresses \cup Specs
    /\ {{}} \subseteq SUBSET PB!Records /\ {} \subseteq PB!Records
    /\ MaxEdits \in Nat /\ MaxFaults \in Nat
    /\ \A s \in Specs : s.target \in Hosts \cup {Own} /\ s.auto \in BOOLEAN
  BY IdsAssumption, PartiesAssumption
  DEF A!ProxyHost, PB!ProxyHost, A!Names, PB!Names, A!ConfigType, PB!ConfigType,
      A!Addresses, PB!Addresses, PB!IsFiniteSet, IsFiniteSet

LEMMA SameServerB ==
    /\ \A z, q : B!ZoneAfter(z, q) = PB!ZoneAfter(z, q)
    /\ \A z, hs, q : B!Accepted(z, hs, q) <=> PB!Accepted(z, hs, q)
    /\ \A z, hs, q :
         B!HintsAfter(z, hs, q, B!UpdateSvcbHints(q))
           = PB!HintsAfter(z, hs, q, PB!UpdateSvcbHints(q))
    /\ \A z, h, s : B!Resolve(z, h, s) = PB!Resolve(z, h, s)
    /\ \A h, s : B!HTTPSRecord(h, s) = PB!HTTPSRecord(h, s)
  <1>1. \A h, s : B!HTTPSRecord(h, s) = PB!HTTPSRecord(h, s)
    BY DEF B!HTTPSRecord, PB!HTTPSRecord
  <1>2. \A z, q : B!ZoneAfter(z, q) = PB!ZoneAfter(z, q)
    BY DEF B!ZoneAfter, PB!ZoneAfter, B!Removed, PB!Removed, B!Written, PB!Written
  <1>3. \A z, hs, q : B!Accepted(z, hs, q) <=> PB!Accepted(z, hs, q)
    BY DEF B!Accepted, PB!Accepted, B!Found, PB!Found
  <1>4. \A z, h, s : B!Resolve(z, h, s) = PB!Resolve(z, h, s)
    BY DEF B!Resolve, PB!Resolve, B!TargetOf, PB!TargetOf, B!AddressTypes,
           PB!AddressTypes
  <1>5. \A z, q, h, s :
          B!Rehints(z, q, B!UpdateSvcbHints(q), h, s)
            <=> PB!Rehints(z, q, PB!UpdateSvcbHints(q), h, s)
    BY <1>1 DEF B!Rehints, PB!Rehints, B!Conflict, PB!Conflict, B!Written,
                PB!Written, B!UpdateSvcbHints, PB!UpdateSvcbHints, B!AddressTypes,
                PB!AddressTypes, B!TargetOf, PB!TargetOf
  <1>6. QED
    BY <1>1, <1>2, <1>3, <1>4, <1>5 DEF B!HintsAfter, PB!HintsAfter

LEMMA SameViewB ==
    /\ \A z, h : /\ B!AIPs(z, h) = PB!AIPs(z, h)
                 /\ B!AAAAIPs(z, h) = PB!AAAAIPs(z, h)
                 /\ B!HTTPSSpecs(z, h) = PB!HTTPSSpecs(z, h)
                 /\ B!OwnedByUs(z, h) <=> PB!OwnedByUs(z, h)
                 /\ B!Foreign(z, h) <=> PB!Foreign(z, h)
    /\ \A S : B!First(S) = PB!First(S)
    /\ \A z, wanted : B!Unwanted(z, wanted) = PB!Unwanted(z, wanted)
    /\ \A m, n : B!TooFew(m, n) <=> PB!TooFew(m, n)
    /\ \A S : B!Cardinality(S) = PB!Cardinality(S)
    /\ \A rs : B!DeriveDesiredHostnames(rs) = PB!DeriveDesiredHostnames(rs)
    /\ B!NoHints = PB!NoHints
  <1>1. \A z, h : /\ B!AIPs(z, h) = PB!AIPs(z, h)
                 /\ B!AAAAIPs(z, h) = PB!AAAAIPs(z, h)
                 /\ B!HTTPSSpecs(z, h) = PB!HTTPSSpecs(z, h)
    BY DEF B!AIPs, PB!AIPs, B!AAAAIPs, PB!AAAAIPs, B!HTTPSSpecs, PB!HTTPSSpecs
  <1>2. \A z, h : B!OwnedByUs(z, h) <=> PB!OwnedByUs(z, h)
    BY DEF B!OwnedByUs, PB!OwnedByUs, B!Marker, PB!Marker, B!MarkerRecord,
           PB!MarkerRecord
  <1>3. \A z, h : B!Foreign(z, h) <=> PB!Foreign(z, h)
    BY <1>1, <1>2 DEF B!Foreign, PB!Foreign
  <1>4. \A S : B!First(S) = PB!First(S)
    BY DEF B!First, PB!First
  <1>5. \A z, wanted : B!Unwanted(z, wanted) = PB!Unwanted(z, wanted)
    BY <1>2 DEF B!Unwanted, PB!Unwanted
  <1>6. \A S : B!Cardinality(S) = PB!Cardinality(S)
    BY DEF B!Cardinality, PB!Cardinality
  <1>7. \A m, n : B!TooFew(m, n) <=> PB!TooFew(m, n)
    BY DEF B!TooFew, PB!TooFew
  <1>8. \A rs : B!DeriveDesiredHostnames(rs) = PB!DeriveDesiredHostnames(rs)
    BY DEF B!DeriveDesiredHostnames, PB!DeriveDesiredHostnames
  <1>9. B!NoHints = PB!NoHints
    BY DEF B!NoHints, PB!NoHints
  <1>10. QED
    BY <1>1, <1>2, <1>3, <1>4, <1>5, <1>6, <1>7, <1>8, <1>9

LEMMA SameRequestsB ==
    /\ \A h, ip4, ip6, https :
         B!CreateHost(h, ip4, ip6, https) = PB!CreateHost(h, ip4, ip6, https)
    /\ \A h, ip4, ip6, https, hint :
         B!DeleteHost(h, ip4, ip6, https, hint)
           = PB!DeleteHost(h, ip4, ip6, https, hint)
    /\ \A h, s : B!CreateHTTPS(h, s) = PB!CreateHTTPS(h, s)
    /\ \A h, s, hint, t :
         B!UpdateHTTPS(h, s, hint, t) = PB!UpdateHTTPS(h, s, hint, t)
    /\ \A h, s, hint : B!DeleteHTTPSOnly(h, s, hint) = PB!DeleteHTTPSOnly(h, s, hint)
    /\ \A h, old, new : B!UpdateA(h, old, new) = PB!UpdateA(h, old, new)
    /\ \A h, ip : B!CreateAAAA(h, ip) = PB!CreateAAAA(h, ip)
    /\ \A h, old, new : B!UpdateAAAA(h, old, new) = PB!UpdateAAAA(h, old, new)
    /\ \A h, ip : B!DeleteAAAAOnly(h, ip) = PB!DeleteAAAAOnly(h, ip)
    /\ \A c, q : B!When(c, q) = PB!When(c, q)
    /\ \A ips, ip : B!NeedsUpdate(ips, ip) <=> PB!NeedsUpdate(ips, ip)
  <1> USE DEF B!Marker, PB!Marker, B!MarkerRecord, PB!MarkerRecord, B!ARecord, PB!ARecord,
          B!AAAARecord, PB!AAAARecord, B!HTTPSRecord, PB!HTTPSRecord,
          B!Request, PB!Request, B!CheckOwnership, PB!CheckOwnership,
          B!AddRecord, PB!AddRecord, B!UpdateRecord, PB!UpdateRecord,
          B!DeleteRecord, PB!DeleteRecord, B!When, PB!When
  <1>1. \A h, ip4, ip6, https :
          B!CreateHost(h, ip4, ip6, https) = PB!CreateHost(h, ip4, ip6, https)
    BY DEF B!CreateHost, PB!CreateHost
  <1>2. \A h, ip4, ip6, https, hint :
          B!DeleteHost(h, ip4, ip6, https, hint)
            = PB!DeleteHost(h, ip4, ip6, https, hint)
    BY DEF B!DeleteHost, PB!DeleteHost
  <1>3. /\ \A h, s : B!CreateHTTPS(h, s) = PB!CreateHTTPS(h, s)
        /\ \A h, s, hint, t : B!UpdateHTTPS(h, s, hint, t) = PB!UpdateHTTPS(h, s, hint, t)
        /\ \A h, s, hint : B!DeleteHTTPSOnly(h, s, hint) = PB!DeleteHTTPSOnly(h, s, hint)
    BY DEF B!CreateHTTPS, PB!CreateHTTPS, B!UpdateHTTPS, PB!UpdateHTTPS,
           B!DeleteHTTPSOnly, PB!DeleteHTTPSOnly
  <1>4. /\ \A h, old, new : B!UpdateA(h, old, new) = PB!UpdateA(h, old, new)
        /\ \A h, ip : B!CreateAAAA(h, ip) = PB!CreateAAAA(h, ip)
        /\ \A h, old, new : B!UpdateAAAA(h, old, new) = PB!UpdateAAAA(h, old, new)
        /\ \A h, ip : B!DeleteAAAAOnly(h, ip) = PB!DeleteAAAAOnly(h, ip)
    BY DEF B!UpdateA, PB!UpdateA, B!CreateAAAA, PB!CreateAAAA, B!UpdateAAAA,
           PB!UpdateAAAA, B!DeleteAAAAOnly, PB!DeleteAAAAOnly
  <1>5. \A c, q : B!When(c, q) = PB!When(c, q)
    OBVIOUS
  <1>6. \A ips, ip : B!NeedsUpdate(ips, ip) <=> PB!NeedsUpdate(ips, ip)
    BY DEF B!NeedsUpdate, PB!NeedsUpdate
  <1>7. QED
    BY <1>1, <1>2, <1>3, <1>4, <1>5, <1>6

LEMMA SamePlansB ==
    /\ \A h, o, z, hs, a, aaaa, https :
         B!EnsureCalls(h, o, z, hs, a, aaaa, https)
           = PB!EnsureCalls(h, o, z, hs, a, aaaa, https)
    /\ \A h, hs, a, aaaa, https :
         B!RemoveCall(h, hs, a, aaaa, https) = PB!RemoveCall(h, hs, a, aaaa, https)
  <1>1. \A h, o, z, hs, a, aaaa, https :
          B!RepairCalls(h, o, z, hs, a, aaaa, https)
            = PB!RepairCalls(h, o, z, hs, a, aaaa, https)
    <2> TAKE h, o, z, hs, a, aaaa, https
    <2>1. B!AIPs(z, h) = PB!AIPs(z, h) /\ B!AAAAIPs(z, h) = PB!AAAAIPs(z, h)
      BY SameViewB
    <2>2. QED
      BY <2>1, SameRequestsB DEF B!RepairCalls, PB!RepairCalls
  <1>2. QED
    BY <1>1, SameRequestsB DEF B!EnsureCalls, PB!EnsureCalls, B!CreateCall,
                            PB!CreateCall, B!RemoveCall, PB!RemoveCall

LEMMA SameInitB == B!Init => PB!Init
  BY SameServerB, SameViewB DEF B!Init, PB!Init

LEMMA SameStepsB == B!Plugin \/ B!Crash \/ B!EditRules => PB!Next
  <1> USE DEF B!serverVars, PB!serverVars, B!cycleVars, PB!cycleVars,
              B!BetweenHosts, PB!BetweenHosts
  <1>1. \A q : B!Serve(q) <=> PB!Serve(q)
    BY SameServerB DEF B!Serve, PB!Serve
  <1>2. B!PerhapsServed => PB!PerhapsServed
    BY <1>1, SameServerB DEF B!PerhapsServed, PB!PerhapsServed, B!Sent, PB!Sent,
                             B!MayBeLate, PB!MayBeLate
  <1>3. B!BeginCycle => PB!BeginCycle
    BY DEF B!BeginCycle, PB!BeginCycle
  <1>4. B!ListHosts => PB!ListHosts
    <2>1. /\ \A rs : B!DeriveDesiredHostnames(rs) = PB!DeriveDesiredHostnames(rs)
          /\ \A S : B!Cardinality(S) = PB!Cardinality(S)
          /\ \A m, n : B!TooFew(m, n) <=> PB!TooFew(m, n)
      BY SameViewB
    <2>2. QED
      BY <2>1 DEF B!ListHosts, PB!ListHosts
  <1>5. B!ReadZone => PB!ReadZone
    BY DEF B!ReadZone, PB!ReadZone
  <1>6. B!ReadFails => PB!ReadFails
    BY DEF B!ReadFails, PB!ReadFails
  <1>7. \A h \in Hosts : B!SkipForeign(h) => PB!SkipForeign(h)
    BY SameViewB DEF B!SkipForeign, PB!SkipForeign
  <1>8. \A h \in Hosts : B!EnsureHost(h) => PB!EnsureHost(h)
    BY SameViewB, SamePlansB DEF B!EnsureHost, PB!EnsureHost
  <1>9. \A h \in Hosts : B!RemoveHost(h) => PB!RemoveHost(h)
    BY SameViewB, SamePlansB DEF B!RemoveHost, PB!RemoveHost
  <1>10. B!EnsureDone => PB!EnsureDone
    BY SameViewB DEF B!EnsureDone, PB!EnsureDone
  <1>11. B!RemoveDone => PB!RemoveDone
    BY DEF B!RemoveDone, PB!RemoveDone
  <1>12. B!Report => PB!Report
    BY SameViewB DEF B!Report, PB!Report
  <1>13. B!BeginCall => PB!BeginCall
    BY DEF B!BeginCall, PB!BeginCall
  <1>14. B!Answered => PB!Answered
    BY <1>1, SameServerB DEF B!Answered, PB!Answered
  <1>15. B!Refused => PB!Refused
    BY SameServerB DEF B!Refused, PB!Refused
  <1>16. B!Lost => PB!Lost
    BY <1>2 DEF B!Lost, PB!Lost
  <1>17. B!NotSent => PB!NotSent
    BY DEF B!NotSent, PB!NotSent
  <1>18. B!Crash => PB!Crash
    BY <1>2, SameViewB DEF B!Crash, PB!Crash
  <1>19. B!EditRules => PB!EditRules
    BY DEF B!EditRules, PB!EditRules, B!Edit, PB!Edit
  <1>20. QED
    BY <1>3, <1>4, <1>5, <1>6, <1>7, <1>8, <1>9, <1>10, <1>11, <1>12, <1>13, <1>14,
       <1>15, <1>16, <1>17, <1>18, <1>19
    DEF B!Plugin, PB!Plugin, PB!Next, PB!Environment

-----------------------------------------------------------------------------
(***************************************************************************)
(* What both of them keep up together.  Both may have their marker at a    *)
(* host, and each deletes or rewrites whichever address it finds there;    *)
(* but no marker answers for more than one address (PA!Fits), so the       *)
(* plugin that takes its marker away leaves no address behind that the     *)
(* other one's marker does not answer for.                                 *)
(***************************************************************************)

\* Both users want A records only.
PlainUsers == \A c \in ConfigsA \cup ConfigsB : ~c.aaaa /\ ~c.https

Shared ==
    /\ PA!PartyInv /\ PB!PartyInv
    /\ madeA \subseteq zone /\ madeB \subseteq zone
    /\ PA!Plain(zone)
    /\ \A h \in Hosts : PA!Fits(PA!AIPs(zone, h), PA!Holds(h), PB!Holds(h))

LEMMA Worlds == PlainUsers => PA!SharedWorld /\ PB!SharedWorld
  BY DEF PlainUsers, PA!SharedWorld, PA!Undisturbed, PB!SharedWorld, PB!Undisturbed

\* A plain zone is plain, and as many addresses as places are so, for both.
LEMMA SameShare ==
    /\ \A z : PA!Plain(z) <=> PB!Plain(z)
    /\ \A z, h : PA!AIPs(z, h) = PB!AIPs(z, h)
    /\ \A S : \A a, b \in BOOLEAN : PA!Fits(S, a, b) <=> PB!Fits(S, b, a)
  <1>1. \A z : PA!Plain(z) <=> PB!Plain(z)
    BY DEF PA!Plain, PB!Plain
  <1>2. \A z, h : PA!AIPs(z, h) = PB!AIPs(z, h)
    BY DEF PA!AIPs, PB!AIPs
  <1>3. ASSUME NEW S, NEW a \in BOOLEAN, NEW b \in BOOLEAN
        PROVE  PA!Fits(S, a, b) <=> PB!Fits(S, b, a)
    BY DEF PA!Fits, PB!Fits
  <1>4. QED
    BY <1>1, <1>2, <1>3

\* In an empty zone there is nothing to share.
LEMMA SharedInit ==
    ASSUME Init
    PROVE  Shared
  <1>1. PA!Init /\ PB!Init
    BY SameInitA, SameInitB DEF Init
  <1>2. PA!PartyInv /\ PB!PartyInv
    BY <1>1, WorldA, WorldB, PA!PartyInit, PB!PartyInit DEF PA!PartyInit, PB!PartyInit
  <1>3. zone = {} /\ madeA = {} /\ madeB = {}
    BY <1>1 DEF PA!Init, PB!Init
  <1>4. PA!Plain(zone)
    BY <1>3 DEF PA!Plain
  <1>5. \A h \in Hosts : PA!Fits(PA!AIPs(zone, h), PA!Holds(h), PB!Holds(h))
    BY <1>3 DEF PA!Fits, PA!AIPs
  <1>6. QED
    BY <1>2, <1>3, <1>4, <1>5 DEF Shared

\* A step of one plugin, as the other sees it.
StepA == [PA!Next]_(PA!vars) /\ madeB' = madeB \cap zone' /\ UNCHANGED onlyB

LEMMA StepWatchedA ==
    ASSUME PlainUsers, Shared, StepA
    PROVE  /\ PA!PartyInv' /\ PA!Plain(zone)' /\ madeA' \subseteq zone'
           /\ PB!Watches
  <1>1. PA!SharedWorld /\ PA!PartyInv /\ PA!Plain(zone) /\ [PA!Next]_(PA!vars)
    BY Worlds DEF Shared, StepA
  <1>2. PA!PartyInv' /\ PA!Plain(zone)'
    BY <1>1, WorldA, PA!PartyNext DEF PA!PartyNext
  <1>3. madeA' \subseteq zone'
    BY <1>1, WorldA, PA!MadeStays DEF PA!MadeStays, Shared
  <1>4. IdB \in Instances \ {IdA}
    BY IdsAssumption
  <1>5. \A h \in Hosts : PA!MarkerRecord(h, IdB) \in zone'
                           <=> PA!MarkerRecord(h, IdB) \in zone
    BY <1>1, <1>4, WorldA, PA!OtherMarkersStay DEF PA!OtherMarkersStay
  <1>6. \A h \in Hosts : PB!OwnedByUs(zone', h) <=> PB!OwnedByUs(zone, h)
    BY <1>5 DEF PB!OwnedByUs, PB!Marker, PB!MarkerRecord, PA!MarkerRecord
  <1>7. PB!Records = PA!Records /\ PB!Addresses = PA!Addresses
    BY DEF PB!Records, PA!Records, PB!Addresses, PA!Addresses
  <1>8. /\ zone' \in SUBSET PA!Records
        /\ hints' \in [Hosts \X Specs -> SUBSET PA!Addresses]
        /\ edits' \in 0..MaxEdits /\ faults' \in 0..MaxFaults
    BY <1>2 DEF PA!PartyInv, PA!TypeOK
  <1>9. UNCHANGED <<rulesB, configB, lastSuccessB, PB!cycleVars>>
    BY DEF StepA, onlyB, PB!cycleVars
  <1>10. madeB' = madeB \cap zone'
    BY DEF StepA
  <1>11. PB!Watches
    BY <1>6, <1>7, <1>8, <1>9, <1>10 DEF PB!Watches
  <1>12. QED
    BY <1>2, <1>3, <1>11

\* The places of the one that steps change, those of the other do not.
LEMMA StepSharedA ==
    ASSUME PlainUsers, Shared, StepA
    PROVE  Shared'
  <1>1. /\ PA!PartyInv' /\ PA!Plain(zone)' /\ madeA' \subseteq zone'
        /\ PB!Watches
    BY StepWatchedA
  <1>2. PB!PartyInv' /\ \A h \in Hosts : PB!Holds(h)' <=> PB!Holds(h)
    BY <1>1, WorldB, PB!PartyWatches DEF PB!PartyWatches, Shared
  <1>3. madeB' \subseteq zone'
    BY DEF StepA
  <1>4. PA!SharedWorld /\ PA!PartyInv /\ [PA!Next]_(PA!vars)
    BY Worlds DEF Shared, StepA
  <1>5. ASSUME NEW h \in Hosts
        PROVE  PA!Fits(PA!AIPs(zone', h), PA!Holds(h)', PB!Holds(h)')
    <2>1. /\ PA!Holds(h) \in BOOLEAN /\ PA!Holds(h)' \in BOOLEAN
          /\ PB!Holds(h) \in BOOLEAN /\ PB!Holds(h)' \in BOOLEAN
      BY DEF PA!Holds, PB!Holds
    <2>2. PA!Fits(PA!AIPs(zone, h), PA!Holds(h), PB!Holds(h))
      BY DEF Shared
    <2>3. PA!Fits(PA!AIPs(zone', h), PA!Holds(h)', PB!Holds(h))
      BY <1>4, <2>1, <2>2, WorldA, PA!FitNext DEF PA!FitNext
    <2>4. QED
      BY <1>2, <2>1, <2>3
  <1>6. QED
    BY <1>1, <1>2, <1>3, <1>5 DEF Shared

StepB == [PB!Next]_(PB!vars) /\ madeA' = madeA \cap zone' /\ UNCHANGED onlyA

LEMMA StepWatchedB ==
    ASSUME PlainUsers, Shared, StepB
    PROVE  /\ PB!PartyInv' /\ PB!Plain(zone)' /\ madeB' \subseteq zone'
           /\ PA!Watches
  <1>1. PB!SharedWorld /\ PB!PartyInv /\ PB!Plain(zone) /\ [PB!Next]_(PB!vars)
    BY Worlds, SameShare DEF Shared, StepB
  <1>2. PB!PartyInv' /\ PB!Plain(zone)'
    BY <1>1, WorldB, PB!PartyNext DEF PB!PartyNext
  <1>3. madeB' \subseteq zone'
    BY <1>1, WorldB, PB!MadeStays DEF PB!MadeStays, Shared
  <1>4. IdA \in Instances \ {IdB}
    BY IdsAssumption
  <1>5. \A h \in Hosts : PB!MarkerRecord(h, IdA) \in zone'
                           <=> PB!MarkerRecord(h, IdA) \in zone
    BY <1>1, <1>4, WorldB, PB!OtherMarkersStay DEF PB!OtherMarkersStay
  <1>6. \A h \in Hosts : PA!OwnedByUs(zone', h) <=> PA!OwnedByUs(zone, h)
    BY <1>5 DEF PA!OwnedByUs, PA!Marker, PA!MarkerRecord, PB!MarkerRecord
  <1>7. PA!Records = PB!Records /\ PA!Addresses = PB!Addresses
    BY DEF PA!Records, PB!Records, PA!Addresses, PB!Addresses
  <1>8. /\ zone' \in SUBSET PB!Records
        /\ hints' \in [Hosts \X Specs -> SUBSET PB!Addresses]
        /\ edits' \in 0..MaxEdits /\ faults' \in 0..MaxFaults
    BY <1>2 DEF PB!PartyInv, PB!TypeOK
  <1>9. UNCHANGED <<rulesA, configA, lastSuccessA, PA!cycleVars>>
    BY DEF StepB, onlyA, PA!cycleVars
  <1>10. madeA' = madeA \cap zone'
    BY DEF StepB
  <1>11. PA!Watches
    BY <1>6, <1>7, <1>8, <1>9, <1>10 DEF PA!Watches
  <1>12. QED
    BY <1>2, <1>3, <1>11

LEMMA StepSharedB ==
    ASSUME PlainUsers, Shared, StepB
    PROVE  Shared'
  <1>1. /\ PB!PartyInv' /\ PB!Plain(zone)' /\ madeB' \subseteq zone'
        /\ PA!Watches
    BY StepWatchedB
  <1>2. PA!PartyInv' /\ \A h \in Hosts : PA!Holds(h)' <=> PA!Holds(h)
    BY <1>1, WorldA, PA!PartyWatches DEF PA!PartyWatches, Shared
  <1>3. madeA' \subseteq zone'
    BY DEF StepB
  <1>4. PB!SharedWorld /\ PB!PartyInv /\ [PB!Next]_(PB!vars)
    BY Worlds DEF Shared, StepB
  <1>5. ASSUME NEW h \in Hosts
        PROVE  PA!Fits(PA!AIPs(zone', h), PA!Holds(h)', PB!Holds(h)')
    <2>1. /\ PB!Holds(h) \in BOOLEAN /\ PB!Holds(h)' \in BOOLEAN
          /\ PA!Holds(h) \in BOOLEAN /\ PA!Holds(h)' \in BOOLEAN
      BY DEF PB!Holds, PA!Holds
    <2>2. PB!Fits(PB!AIPs(zone, h), PB!Holds(h), PA!Holds(h))
      BY <2>1, SameShare DEF Shared
    <2>3. PB!Fits(PB!AIPs(zone', h), PB!Holds(h)', PA!Holds(h))
      BY <1>4, <2>1, <2>2, WorldB, PB!FitNext DEF PB!FitNext
    <2>4. QED
      BY <1>2, <2>1, <2>3, SameShare
  <1>6. QED
    BY <1>1, <1>2, <1>3, <1>5, SameShare DEF Shared

\* Every step is a step of one of them, watched by the other.
LEMMA SharedNext ==
    ASSUME PlainUsers, Shared, [Next]_vars
    PROVE  Shared'
  <1>1. CASE PluginA \/ CrashA
    BY <1>1, SameStepsA, StepSharedA DEF PluginA, CrashA, StepA
  <1>2. CASE PluginB \/ CrashB
    BY <1>2, SameStepsB, StepSharedB DEF PluginB, CrashB, StepB
  <1>3. CASE MoveA
    <2>1. UNCHANGED zone
      BY <1>3 DEF MoveA, A!EditRules, A!serverVars
    <2>2. madeB' = madeB \cap zone'
      BY <1>3, <2>1 DEF MoveA, Shared
    <2>3. QED
      BY <1>3, <2>2, SameStepsA, StepSharedA DEF MoveA, StepA
  <1>4. CASE MoveB
    <2>1. UNCHANGED zone
      BY <1>4 DEF MoveB, B!EditRules, B!serverVars
    <2>2. madeA' = madeA \cap zone'
      BY <1>4, <2>1 DEF MoveB, Shared
    <2>3. QED
      BY <1>4, <2>2, SameStepsB, StepSharedB DEF MoveB, StepB
  <1>5. CASE UNCHANGED vars
    <2>1. UNCHANGED PA!vars /\ UNCHANGED onlyB /\ UNCHANGED <<zone, madeB>>
      BY <1>5 DEF vars, onlyA, onlyB, PA!vars, PA!serverVars, PA!cycleVars
    <2>2. madeB' = madeB \cap zone'
      BY <2>1 DEF Shared
    <2>3. QED
      BY <2>1, <2>2, StepSharedA DEF StepA
  <1>6. QED
    BY <1>1, <1>2, <1>3, <1>4, <1>5 DEF Next

\* An address has a place, and a place has a marker.
LEMMA SharedOrphansNothing ==
    ASSUME Shared
    PROVE  NothingOrphaned
  <1>1. SUFFICES ASSUME NEW r \in madeA \cup madeB, r.type \in A!HostTypes
                 PROVE  A!OwnedByUs(zone, r.host) \/ B!OwnedByUs(zone, r.host)
    BY DEF NothingOrphaned
  <1>2. r \in zone
    BY <1>1 DEF Shared
  <1>3. r.type = "A"
    BY <1>1, <1>2 DEF Shared, PA!Plain, A!HostTypes
  <1>4. r.host \in Hosts
    BY <1>2 DEF Shared, PA!PartyInv, PA!TypeOK, PA!Records
  <1>5. r.data \in PA!AIPs(zone, r.host)
    BY <1>2, <1>3 DEF PA!AIPs
  <1>6. PA!Holds(r.host) \/ PB!Holds(r.host)
    BY <1>4, <1>5 DEF Shared, PA!Fits
  <1>7. PA!OwnedByUs(zone, r.host) \/ PB!OwnedByUs(zone, r.host)
    BY <1>6 DEF PA!Holds, PB!Holds
  <1>8. QED
    BY <1>7, SameViewA, SameViewB

\* Two plugins in one zone, whose users want A records only, orphan no record
\* between them, however hosts move from one Zoraxy to the other, wherever
\* either plugin stops and whatever requests are lost: each of them deletes and
\* rewrites records of the other, but never the last one a marker answers for.
THEOREM NothingLeftBehind ==
    ASSUME PlainUsers
    PROVE  Spec => []NothingOrphaned
  <1>1. Init => Shared
    BY SharedInit
  <1>2. Shared /\ [Next]_vars => Shared'
    BY SharedNext
  <1>3. Shared => NothingOrphaned
    BY SharedOrphansNothing
  <1>4. QED
    BY <1>1, <1>2, <1>3, PTL DEF Spec
=============================================================================
