---------------------------- MODULE MCHttpsRecord ----------------------------
(***************************************************************************)
(* A small instance of HttpsRecord for TLC.  The one dohpath has no spaces *)
(* around it: they are sent, but not compared.                             *)
(***************************************************************************)
EXTENDS HttpsRecord

CONSTANTS code, nokey, blank, absent, h2, h3, x, y, u, hex, p443, p444, path,
          own, other

TheCodes == {code}
AllTexts == Keys \cup {nokey, blank, h2, h3, x, y, u, hex, p443, p444, path}
TheTexts ==
    [k \in Keys |->
        CASE k = "mandatory" -> Keys
          [] k = "alpn"      -> {h2, h3}
          [] k = "port"      -> {p443, p444}
          [] k = "ipv4hint"  -> {x, y}
          [] k = "ipv6hint"  -> {u}
          [] k = code        -> {hex}
          [] OTHER           -> {}]

Entry(text)    == [text |-> text, plain |-> TRUE]
Oddly(text)    == [text |-> text, plain |-> FALSE]
Pair(k, plain, v) ==
    [key |-> [name |-> k, plain |-> plain], value |-> v, bar |-> FALSE]

\* Values of every key, in several spellings, orders and lengths.
H2H3    == Pair("alpn", TRUE, <<Entry(h2), Entry(h3)>>)
H3H2    == Pair("alpn", TRUE, <<Entry(h3), Entry(h2)>>)
H2H3Odd == Pair("alpn", FALSE, <<Oddly(h2), Entry(blank), Oddly(h3)>>)
Must    == Pair("mandatory", TRUE, <<Entry("alpn"), Entry("port")>>)
MustOdd == Pair("mandatory", TRUE, <<Oddly("port"), Entry("alpn"), Entry("port")>>)
NoAlpn  == Pair("no-default-alpn", TRUE, <<Entry(blank)>>)
NoAlpnX == Pair("no-default-alpn", FALSE, <<Entry(x)>>)
Port    == Pair("port", TRUE, <<Entry(p443)>>)
PortOdd == Pair("port", TRUE, <<Oddly(p443)>>)
Port444 == Pair("port", TRUE, <<Entry(p444)>>)
HintX   == Pair("ipv4hint", TRUE, <<Entry(x)>>)
HintXY  == Pair("ipv4hint", TRUE, <<Oddly(x), Entry(y)>>)
HintU   == Pair("ipv6hint", TRUE, <<Oddly(u)>>)
Path    == Pair("dohpath", TRUE, <<Entry(path)>>)
Hex     == Pair(code, FALSE, <<Oddly(hex)>>)

\* And values that are refused.
Empty   == Pair("alpn", TRUE, <<Entry(blank)>>)
Wrong   == Pair("port", TRUE, <<Entry(h2)>>)
Unknown == Pair(nokey, TRUE, <<Entry(h2)>>)
Barred  == [H2H3 EXCEPT !.bar = TRUE]

ParamLists ==
    {<<>>}
      \cup {<<p>> : p \in {H2H3, H3H2, H2H3Odd, Must, MustOdd, NoAlpn, NoAlpnX,
                           Port, PortOdd, Port444, HintX, HintXY, HintU, Path,
                           Hex, Empty, Wrong, Unknown, Barred}}
      \cup {<<H2H3, HintX>>, <<HintX, H2H3Odd>>, <<HintX, HintU, NoAlpn>>,
            <<Port, Must, H2H3>>, <<H2H3, Hex>>, <<H2H3, H2H3Odd>>,
            <<HintX, HintXY>>, <<Hex, Unknown>>}

Wanted(ps, auto, target, priority) ==
    [params |-> ps, auto |-> auto, priority |-> priority,
     target |-> [name |-> target, plain |-> FALSE]]

TheSpecs ==
    {Wanted(ps, auto, own, 1) : ps \in ParamLists, auto \in {{}, {"ipv4hint"}}}
      \cup {Wanted(<<HintX, HintU>>, HintKeys, own, 1),
            Wanted(<<H2H3>>, {}, other, 1), Wanted(<<H2H3>>, {}, own, 0),
            Wanted(<<HintX>>, {"ipv4hint"}, own, 0),
            Wanted(<<H2H3>>, {}, own, 65535), Wanted(<<H2H3>>, {}, own, 65536)}

TheHints ==
    {[k \in HintKeys |-> <<>>],
     [k \in HintKeys |-> IF k = "ipv4hint" THEN <<x>> ELSE <<u>>],
     [k \in HintKeys |-> IF k = "ipv4hint" THEN <<y>> ELSE <<>>]}
=============================================================================
