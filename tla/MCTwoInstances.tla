--------------------------- MODULE MCTwoInstances ---------------------------
(***************************************************************************)
(* A small instance of TwoInstances for TLC: one host that moves between   *)
(* two plugins with different IPv4 targets.                                *)
(***************************************************************************)
EXTENDS TwoInstances

CONSTANTS h1, a1, a2, b1, us, them, own, none

SpecPlain == [id |-> 1, target |-> own, auto |-> FALSE]

OneHost    == {h1}
TwoIPv4s   == {a1, a2}
OneIPv6    == {b1}
PlainSpecs == {SpecPlain}
Both       == {us, them}

OneRule == {[root |-> [host |-> h1, plain |-> TRUE],
             aliases |-> {}, disabled |-> FALSE]}

IPv4Only(ip) ==
    {[ip4 |-> ip, aaaa |-> FALSE, ip6 |-> none, https |-> FALSE,
      spec |-> SpecPlain]}
OurConfigs   == IPv4Only(a1)
TheirConfigs == IPv4Only(a2)
=============================================================================
