---------------------------- MODULE MCReconciler ----------------------------
(***************************************************************************)
(* Small instances of Reconciler for TLC.                                  *)
(***************************************************************************)
EXTENDS Reconciler

CONSTANTS h1, h2, a1, a2, b1, b2, us, them, own, none

\* HTTPS specs: two of the record's own name, one whose target is host h2.
SpecPlain  == [id |-> 1, target |-> own, auto |-> FALSE]
SpecAuto   == [id |-> 2, target |-> own, auto |-> TRUE]
SpecAuto2  == [id |-> 3, target |-> own, auto |-> TRUE]
SpecOther  == [id |-> 4, target |-> h2,  auto |-> TRUE]

Cfg(ip4, ip6, https, spec) ==
    [ip4 |-> ip4, aaaa |-> ip6 # none, ip6 |-> ip6,
     https |-> https, spec |-> spec]

OneHost    == {h1}
TwoHosts   == {h1, h2}
OneIPv4    == {a1}
TwoIPv4s   == {a1, a2}
OneIPv6    == {b1}
TwoIPv6s   == {b1, b2}
PlainSpecs == {SpecPlain}
AutoSpecs  == {SpecAuto, SpecAuto2}
Both       == {us, them}
NoRecords  == {}
EmptyZone  == {{}}

\* Host rules: h1 alone; h2 with h1, misspelled, as an alias; h2 switched off.
Rule(root, aliases, disabled) ==
    [root |-> [host |-> root, plain |-> TRUE],
     aliases |-> [host : aliases, plain : {FALSE}], disabled |-> disabled]

RuleH1    == Rule(h1, {}, FALSE)
RuleH2    == Rule(h2, {h1, none}, FALSE)
RuleH2Off == Rule(h2, {}, TRUE)

OneRule    == {RuleH1}
TwoRules   == {RuleH1, RuleH2}
OffRules   == {RuleH1, RuleH2, RuleH2Off}
ApartRules == {RuleH1, Rule(h2, {}, FALSE)}

OwnershipConfigs ==
    {Cfg(a1, b1, TRUE, SpecPlain), Cfg(a2, none, FALSE, SpecPlain)}

ForeignAt(h) == {ARecord(h, a2), AAAARecord(h, b1), MarkerRecord(h, them)}
Foreigners   == ForeignAt(h1)
ForeignersH2 == ForeignAt(h2)
OwnAddresses == {ARecord(h1, a1), AAAARecord(h1, b1)}
OurMarkers   == {MarkerRecord(h, us) : h \in Hosts}
MarkersToo   == OurMarkers \cup Foreigners \cup OwnAddresses

\* A zone found empty, with another instance's host, or with ours.
SomeZones ==
    {{}, {MarkerRecord(h1, them), ARecord(h1, a1)},
         {MarkerRecord(h1, us), MarkerRecord(h1, them), ARecord(h1, a1)}}

HttpsConfigs ==
    {Cfg(a1, b1, TRUE, SpecAuto), Cfg(a2, b1, TRUE, SpecAuto2),
     Cfg(a2, none, TRUE, SpecAuto), Cfg(a2, none, FALSE, SpecAuto)}
PlainConfigs == {Cfg(a1, none, FALSE, SpecPlain)}
IPv6Configs  == {Cfg(a1, b1, FALSE, SpecPlain), Cfg(a1, b2, FALSE, SpecPlain)}
OtherSpecs   == {SpecOther, SpecPlain}

\* Nothing, or a host of ours from a life with other targets.
EarlierZones ==
    {{}, {MarkerRecord(h1, us), ARecord(h1, a2), AAAARecord(h1, b2),
          HTTPSRecord(h1, SpecAuto)}}
OtherConfigs == {Cfg(a1, none, TRUE, SpecOther), Cfg(a2, none, TRUE, SpecPlain)}
=============================================================================
