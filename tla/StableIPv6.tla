----------------------------- MODULE StableIPv6 -----------------------------
(***************************************************************************)
(* Detection of the IPv6 target when the plugin is first run               *)
(* (internal/config/detect_ipv6_linux.go) beside a kernel that goes on     *)
(* adding and dropping privacy addresses: what is detected is written to   *)
(* the configuration and never detected again, so it must last.            *)
(*                                                                         *)
(* An address is its first two bytes (prefix) and its interface identifier *)
(* (iid); of the file's lines only the fields that selection looks at are  *)
(* kept, and whether the kernel minted the address for privacy, which the  *)
(* file does not say.                                                      *)
(***************************************************************************)
EXTENDS Integers, Sequences, SequencesExt

CONSTANTS
    Bytes,      \* 0..255, or a part of it
    Ids,        \* interface identifiers
    Indexes,    \* interfaces, by ifindex
    MacOf,      \* the MAC address of each, of any length
    Malformed,  \* a line that does not parse
    NoAddress,  \* the blank target
    NotRun,     \* the target before the plugin is first run
    InitFiles,  \* what /proc/net/if_inet6 may hold at first
    Tokens,     \* interface identifiers of privacy addresses
    MaxLines    \* bound on the lines of the file

ASSUME MacOfAssumption == MacOf \in [Indexes -> Seq(Bytes)]

Flags  == {"temporary", "dadfailed", "deprecated", "tentative", "permanent"}
Scopes == {"global", "host", "link", "site", "compat"}

Lines ==
    [prefix : Bytes \X Bytes, iid : Ids, index : Indexes, scope : Scopes,
     flags : SUBSET Flags, privacy : BOOLEAN]

\* The texts NoAddress and NotRun are no addresses.
ASSUME TextsAssumption ==
    /\ Malformed \notin Lines
    /\ {NoAddress, NotRun} \cap ((Bytes \X Bytes) \X Ids) = {}

\* Whatever is there at first, the privacy addresses among it included.
ASSUME InitFilesAssumption ==
    /\ InitFiles \subseteq Seq(Lines \cup {Malformed})
    /\ \A f \in InitFiles : \A i \in DOMAIN f :
          (f[i] # Malformed /\ f[i].privacy)
             => f[i].iid \in Tokens /\ "permanent" \notin f[i].flags

VARIABLES
    file,  \* the lines of /proc/net/if_inet6
    lan    \* LANIPv6 of the configuration

detectVars == <<file, lan>>

-----------------------------------------------------------------------------
(* The selection. *)

FlipLocalBit(b) == IF (b \div 2) % 2 = 0 THEN b + 2 ELSE b - 2

\* Nothing if the MAC address is not one of six bytes.
EUI64FromMAC(mac) ==
    IF Len(mac) # 6 THEN <<>>
    ELSE <<FlipLocalBit(mac[1]), mac[2], mac[3], 255, 254, mac[4], mac[5], mac[6]>>

\* The kernel draws other identifiers for privacy addresses.
ASSUME TokensAssumption ==
    /\ Tokens \subseteq Ids
    /\ \A n \in Indexes : EUI64FromMAC(MacOf[n]) \notin Tokens

NotStableEnough == {"temporary", "dadfailed", "deprecated", "tentative"}

IsLoopback(l)  == l.prefix = <<0, 0>>
IsLinkLocal(l) == l.prefix[1] = 254 /\ l.prefix[2] \in 128..191
IsULA(l)       == l.prefix[1] = 253

\* Where in f the lines stand that may be picked at all.
Candidates(f) ==
    {i \in DOMAIN f :
        /\ f[i] # Malformed
        /\ f[i].scope = "global"
        /\ ~IsLoopback(f[i]) /\ ~IsLinkLocal(f[i])
        /\ f[i].flags \cap NotStableEnough = {}}

AnyCandidate(f) == Candidates(f)                                   \* mutant

\* Assigned by DHCPv6 or configured, and derived from the interface's MAC.
Permanent(f) == {i \in Candidates(f) : "permanent" \in f[i].flags}
FromMAC(f)   == {i \in Candidates(f) : f[i].iid = EUI64FromMAC(MacOf[f[i].index])}

FirstOf(S) == CHOOSE i \in S : \A j \in S : i <= j

PreferFirst(f, S) == FirstOf(S)                                    \* mutant

PreferULA(f, S) ==
    LET ulas == {i \in S : IsULA(f[i])}
    IN  IF ulas # {} THEN FirstOf(ulas) ELSE FirstOf(S)

AddressOf(l) == <<l.prefix, l.iid>>

PickStableIPv6(f) ==
    IF Permanent(f) # {} THEN AddressOf(f[PreferULA(f, Permanent(f))])
    ELSE IF FromMAC(f) # {} THEN AddressOf(f[PreferULA(f, FromMAC(f))])
    ELSE NoAddress

-----------------------------------------------------------------------------
(* The kernel and the plugin. *)

DetectInit == file \in InitFiles /\ lan = NotRun

\* The plugin's first run: the default configuration takes what is detected.
FirstRun ==
    /\ lan = NotRun
    /\ lan' = PickStableIPv6(file)
    /\ UNCHANGED file

\* A privacy address appears anywhere in the file, flagged or, as on the host
\* the source tells of, not flagged at all.
Mint(i, l) ==
    /\ Len(file) < MaxLines
    /\ file' = InsertAt(file, i, l)
    /\ UNCHANGED lan

\* It is on its way out, which the kernel may flag, and then gone.
Deprecate(i) ==
    /\ file[i] # Malformed /\ file[i].privacy
    /\ file' = [file EXCEPT ![i].flags = @ \cup {"deprecated"}]
    /\ UNCHANGED lan

Expire(i) ==
    /\ file[i] # Malformed /\ file[i].privacy
    /\ file' = RemoveAt(file, i)
    /\ UNCHANGED lan

MintedAt(i) ==
    \E p \in {l.prefix : l \in {file[j] : j \in DOMAIN file} \ {Malformed}},
       t \in Tokens, n \in Indexes,
       fs \in {{}, {"temporary"}, {"temporary", "tentative"}} :
         Mint(i, [prefix |-> p, iid |-> t, index |-> n, scope |-> "global",
                  flags |-> fs, privacy |-> TRUE])

DetectNext ==
    \/ FirstRun
    \/ \E i \in 1..(Len(file) + 1) : MintedAt(i)
    \/ \E i \in DOMAIN file : Deprecate(i) \/ Expire(i)

DetectSpec == DetectInit /\ [][DetectNext]_detectVars

-----------------------------------------------------------------------------
(* What must hold. *)

\* The target chosen at the first run is an address that the host still has,
\* however often its privacy addresses have been replaced since.
TargetLasts ==
    lan \notin {NotRun, NoAddress} =>
        \E i \in DOMAIN file : file[i] # Malformed /\ AddressOf(file[i]) = lan

\* Whatever privacy addresses come and go, flagged or not, and wherever in the
\* file: the same address is picked before and after.
RotationHarmless ==
    [][lan' = lan => PickStableIPv6(file') = PickStableIPv6(file)]_detectVars

\* An address of a permanent or MAC-derived kind is found if there is one, a
\* permanent one before a derived one, and a ULA before another of its kind.
Rank(l) ==
    (IF "permanent" \in l.flags THEN 2 ELSE 0) + (IF IsULA(l) THEN 1 ELSE 0)

Eligible(l) ==
    /\ l # Malformed
    /\ l.scope = "global" /\ ~IsLoopback(l) /\ ~IsLinkLocal(l)
    /\ ~l.privacy /\ l.flags \subseteq {"permanent"}
    /\ "permanent" \in l.flags \/ l.iid = EUI64FromMAC(MacOf[l.index])

PicksTheBest ==
    LET usable == {file[i] : i \in {j \in DOMAIN file : Eligible(file[j])}}
    IN  IF usable = {} THEN PickStableIPv6(file) = NoAddress
        ELSE \E l \in usable :
               /\ AddressOf(l) = PickStableIPv6(file)
               /\ \A x \in usable : Rank(x) <= Rank(l)
=============================================================================
