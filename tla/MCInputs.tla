------------------------------ MODULE MCInputs ------------------------------
(***************************************************************************)
(* Small instances for TLC of two parts that judge what comes from outside *)
(* and share nothing: the HTTPS record (HttpsRecord, instance of           *)
(* MCHttpsRecord) and the detection of the IPv6 target (StableIPv6).  A    *)
(* behaviour is one of the one or of the other.                            *)
(***************************************************************************)
EXTENDS StableIPv6, MCHttpsRecord

CONSTANTS malformed, noaddress, notrun, assigned, random, token

\* Two interfaces: one with a MAC address, one without.
TheMacs == <<<<2, 16, 32, 48, 64, 80>>, <<>>>>
TheByteRange == 0..255
Derived == EUI64FromMAC(TheMacs[1])
TheIds == {Derived, assigned, random, token}
TheTokens == {token}

Line(prefix, iid, index, scope, flags) ==
    [prefix |-> prefix, iid |-> iid, index |-> index, scope |-> scope,
     flags |-> flags, privacy |-> FALSE]

StableLines ==
    {Line(<<254, 128>>, Derived, 1, "link", {"permanent"}),
     Line(<<32, 1>>, Derived, 1, "global", {}),
     Line(<<253, 1>>, Derived, 1, "global", {}),
     Line(<<32, 1>>, assigned, 1, "global", {"permanent"}),
     Line(<<253, 1>>, assigned, 1, "global", {"permanent", "tentative"}),
     Line(<<253, 2>>, random, 2, "global", {})}

\* Up to three lines that stay, in any order, or one that does not parse.
TheFiles ==
    {<<malformed, l>> : l \in StableLines}
      \cup UNION {{s \in [1..n -> StableLines] : \A i, j \in 1..n : s[i] = s[j] => i = j} :
                    n \in 1..3}

VARIABLE part  \* which of the two

IPv6Init ==
    /\ part = "IPv6" /\ DetectInit
    /\ saved = Absent /\ record = Absent /\ fresh = FALSE /\ wrote = FALSE
    /\ hints = [k \in HintKeys |-> <<>>]

HttpsInit == part = "HTTPS" /\ Init /\ file = <<>> /\ lan = NotRun

InputsNext ==
    \/ part = "HTTPS" /\ Next /\ UNCHANGED <<part, detectVars>>
    \/ part = "IPv6" /\ DetectNext /\ UNCHANGED <<part, vars>>

InputsSpec ==
    (IPv6Init \/ HttpsInit) /\ [][InputsNext]_<<part, vars, detectVars>>
=============================================================================
