------------------------------ MODULE SvcParam ------------------------------
(***************************************************************************)
(* The service binding parameters of an HTTPS record: internal/svcparam,   *)
(* what sameHTTPS of internal/reconciler compares and what the client of   *)
(* internal/technitium sends and reads back.                               *)
(*                                                                         *)
(* Text is abstracted to what normalization tells apart.  A key, a target  *)
(* and an entry of a value have the name or text they stand for, and are   *)
(* plain or spelled otherwise (upper case, underscores, leading zeros,     *)
(* spaces, long forms of addresses, colons in hex).  A value is the        *)
(* sequence of what its commas separate.                                   *)
(***************************************************************************)
EXTENDS Integers, Sequences, FiniteSets, SequencesExt

CONSTANTS
    Texts,      \* what a name or an entry may read, spelling apart
    Codes,      \* numeric key codes, in plain decimal
    NoKey,      \* a text that is neither a known key nor a number
    Blank,      \* an entry of spaces only
    ValidTexts  \* for each key, the entries its validator accepts

KnownKeys == {"mandatory", "alpn", "no-default-alpn", "port", "ipv4hint",
              "ipv6hint", "dohpath"}
Keys      == KnownKeys \cup Codes
HintKeys  == {"ipv4hint", "ipv6hint"}
ListKeys  == {"mandatory", "alpn"} \cup HintKeys

ASSUME KeysAssumption == NoKey \notin Keys

ASSUME ValidTextsAssumption ==
    /\ DOMAIN ValidTexts = Keys
    /\ \A k \in Keys : Blank \notin ValidTexts[k]
    /\ ValidTexts["mandatory"] = Keys

-----------------------------------------------------------------------------
(* internal/svcparam *)

Entries == [text : Texts, plain : BOOLEAN]
Value   == Seq(Entries)
Param   == [key : [name : Texts, plain : BOOLEAN], value : Value, bar : BOOLEAN]

\* The canonical key, NoKey for anything else.
NormalizeKey(key) == IF key.name \in Keys THEN key.name ELSE NoKey

\* What a filter that goes through s keeps: its elements at these positions.
Kept(s, positions) ==
    LET Nth(n) == CHOOSE i \in positions :
                     Cardinality({j \in positions : j <= i}) = n
    IN  [n \in 1..Cardinality(positions) |-> s[Nth(n)]]

\* The texts of the entries that are not blank.
SplitTrim(value) ==
    LET kept == Kept(value, {i \in DOMAIN value : value[i].text # Blank})
    IN  [i \in DOMAIN kept |-> kept[i].text]

\* A value of '|' would be read as further pairs; a list must not be empty, a
\* port or hex is no list; every entry must be what its key stands for.  The
\* value of no-default-alpn is never looked at, that of dohpath may be anything.
ValidateParam(p) ==
    LET k == NormalizeKey(p.key)
        entries == SplitTrim(p.value)
    IN  /\ k # NoKey
        /\ ~p.bar
        /\ k \in ListKeys \cup {"port"} => entries # <<>>
        /\ k \in Codes \cup {"port"} => Len(p.value) = 1
        /\ k \notin {"no-default-alpn", "dohpath"}
             => \A i \in DOMAIN entries : entries[i] \in ValidTexts[k]

\* What two values are compared by: the keys of mandatory are a set, ALPN IDs
\* and addresses keep their order, no-default-alpn has no value.
CanonicalValue(k, value) ==
    CASE k = "mandatory"       -> ToSet(SplitTrim(value))
      [] k = "no-default-alpn" -> {}
      [] k = "dohpath"         -> [i \in DOMAIN value |-> value[i].text]
      [] OTHER                 -> SplitTrim(value)

\* Where in ps the keys that count stand: the last one of each key.
LastOfKey(ps) ==
    {i \in DOMAIN ps :
        /\ NormalizeKey(ps[i].key) # NoKey
        /\ \A j \in DOMAIN ps :
              j > i => NormalizeKey(ps[j].key) # NormalizeKey(ps[i].key)}

\* The signature of a list, whatever its order: each key with its value.
CanonicalParams(ps) ==
    {<<NormalizeKey(ps[i].key), CanonicalValue(NormalizeKey(ps[i].key), ps[i].value)>> :
        i \in LastOfKey(ps)}

EncodeNonEmpty(ps) ==                                              \* mutant
    LET sent == Kept(ps, {i \in DOMAIN ps : SplitTrim(ps[i].value) # <<>>})
    IN  [i \in DOMAIN sent |->
            [key |-> NormalizeKey(sent[i].key), value |-> sent[i].value]]

\* The pairs sent as svcParams, values verbatim; none ("false") for an empty
\* list and for a list with a key that is none.
EncodeParams(ps) ==
    IF \E i \in DOMAIN ps : NormalizeKey(ps[i].key) = NoKey
      THEN <<>>
      ELSE [i \in DOMAIN ps |->
              [key |-> NormalizeKey(ps[i].key), value |-> ps[i].value]]

-----------------------------------------------------------------------------
(* internal/config: what can be saved while the HTTPS toggle is on. *)

Priorities == 0..65535  \* 0 is alias mode

ValidateSpec(spec) ==
    /\ spec.priority \in Priorities
    /\ \A i \in DOMAIN spec.params : ValidateParam(spec.params[i])
    /\ \A i, j \in DOMAIN spec.params :
          NormalizeKey(spec.params[i].key) = NormalizeKey(spec.params[j].key)
            => i = j

-----------------------------------------------------------------------------
(* internal/reconciler: is the record in the zone the one that is wanted? *)

AllParams(spec) == spec.params                                     \* mutant

\* The hints Technitium keeps itself are not compared.
EffectiveParams(spec) ==
    Kept(spec.params, {i \in DOMAIN spec.params :
                          NormalizeKey(spec.params[i].key) \notin spec.auto})

SameHTTPS(actual, desired) ==
    /\ actual.priority = desired.priority
    /\ actual.auto = desired.auto
    /\ actual.target.name = desired.target.name
    /\ CanonicalParams(EffectiveParams(actual))
         = CanonicalParams(EffectiveParams(desired))
=============================================================================
