-------------------------- MODULE TechnitiumClient --------------------------
(***************************************************************************)
(* internal/technitium/client.go: how each DNSStore method turns into HTTP *)
(* requests.  A method is the sequence of its requests; the first one that *)
(* is not accepted ends the method with an error (Reconciler's actions do  *)
(* that).  Every method but CreateHost opens with checkOwnership.          *)
(***************************************************************************)
EXTENDS DnsZone

CONSTANTS
    Self,   \* this plugin's instance ID, as written in the marker's text
    Blank   \* the absent address or spec ("" and nil in the code)

ASSUME SelfAssumption == Self \in Instances

Marker(h) == MarkerRecord(h, Self)

\* One call of each address method forgets the parameter.
UpdateSvcbHintsNotOnCreate(q) ==                                  \* mutant
    \/ q.verb = "add"    /\ q.rec.type = "A"
    \/ q.verb = "update" /\ q.rec.type \in AddressTypes
    \/ q.verb = "delete" /\ q.rec.type \in AddressTypes

\* The requests sent with updateSvcbHints=true: addA, addAAAA, updateA,
\* updateAAAA, deleteA and deleteAAAA each set the parameter on their own.
UpdateSvcbHints(q) ==
    \/ q.verb = "add"    /\ q.rec.type = "A"
    \/ q.verb = "add"    /\ q.rec.type = "AAAA"
    \/ q.verb = "update" /\ q.rec.type = "A"
    \/ q.verb = "update" /\ q.rec.type = "AAAA"
    \/ q.verb = "delete" /\ q.rec.type = "A"
    \/ q.verb = "delete" /\ q.rec.type = "AAAA"

OwnedByAny(z, h) ==                                               \* mutant
    \E i \in Instances : MarkerRecord(h, i) \in z

(***************************************************************************)
(* What GetZoneState groups under a hostname, and the marker test it       *)
(* shares with checkOwnership: some TXT record at _ztsync.<host> matches.  *)
(***************************************************************************)
AIPs(z, h)       == {r.data : r \in {x \in z : x.host = h /\ x.type = "A"}}
AAAAIPs(z, h)    == {r.data : r \in {x \in z : x.host = h /\ x.type = "AAAA"}}
HTTPSSpecs(z, h) == {r.data : r \in {x \in z : x.host = h /\ x.type = "HTTPS"}}
OwnedByUs(z, h)  == Marker(h) \in z

-----------------------------------------------------------------------------
Request(verb, rec, new, hint) ==
    [verb |-> verb, rec |-> rec, new |-> new, hint |-> hint]

CheckOwnership(h)         == Request("check", Marker(h), Marker(h), {})
AddRecord(r)              == Request("add", r, r, {})
UpdateRecord(r, new, hint) == Request("update", r, new, hint)
DeleteRecord(r, hint)     == Request("delete", r, r, hint)

\* The request q is part of the method only if the condition holds.
When(condition, q) == IF condition THEN <<q>> ELSE <<>>

CreateHostAnyIPv6(h, ip4, ip6, https) ==                          \* mutant
    <<AddRecord(Marker(h)), AddRecord(ARecord(h, ip4)),
      AddRecord(AAAARecord(h, ip6))>>
      \o When(https # Blank, AddRecord(HTTPSRecord(h, https)))

CreateHost(h, ip4, ip6, https) ==
    <<AddRecord(Marker(h)), AddRecord(ARecord(h, ip4))>>
      \o When(ip6 # Blank, AddRecord(AAAARecord(h, ip6)))
      \o When(https # Blank, AddRecord(HTTPSRecord(h, https)))

CreateHTTPS(h, spec) ==
    <<CheckOwnership(h), AddRecord(HTTPSRecord(h, spec))>>

UpdateHTTPS(h, current, hint, spec) ==
    <<CheckOwnership(h),
      UpdateRecord(HTTPSRecord(h, current), HTTPSRecord(h, spec), hint)>>

DeleteHTTPSOnly(h, current, hint) ==
    <<CheckOwnership(h), DeleteRecord(HTTPSRecord(h, current), hint)>>

UpdateAUnchecked(h, old, new) ==                                  \* mutant
    <<UpdateRecord(ARecord(h, old), ARecord(h, new), {})>>

UpdateA(h, old, new) ==
    <<CheckOwnership(h), UpdateRecord(ARecord(h, old), ARecord(h, new), {})>>

CreateAAAA(h, ip) ==
    <<CheckOwnership(h), AddRecord(AAAARecord(h, ip))>>

UpdateAAAA(h, old, new) ==
    <<CheckOwnership(h),
      UpdateRecord(AAAARecord(h, old), AAAARecord(h, new), {})>>

DeleteAAAAOnly(h, ip) ==
    <<CheckOwnership(h), DeleteRecord(AAAARecord(h, ip), {})>>

DeleteHostMarkerFirst(h, ip4, ip6, https, hint) ==                \* mutant
    <<CheckOwnership(h), DeleteRecord(Marker(h), {})>>
      \o When(https # Blank, DeleteRecord(HTTPSRecord(h, https), hint))
      \o When(ip4 # Blank, DeleteRecord(ARecord(h, ip4), {}))
      \o When(ip6 # Blank, DeleteRecord(AAAARecord(h, ip6), {}))

\* The HTTPS record goes first, the marker last.
DeleteHost(h, ip4, ip6, https, hint) ==
    <<CheckOwnership(h)>>
      \o When(https # Blank, DeleteRecord(HTTPSRecord(h, https), hint))
      \o When(ip4 # Blank, DeleteRecord(ARecord(h, ip4), {}))
      \o When(ip6 # Blank, DeleteRecord(AAAARecord(h, ip6), {}))
      \o <<DeleteRecord(Marker(h), {})>>
=============================================================================
