----------------------------- MODULE HttpsRecord -----------------------------
(***************************************************************************)
(* One host's HTTPS record between the configuration, the plugin and the   *)
(* server: the user saves specs in any spelling and switches the record    *)
(* off and on, a cycle compares what the server reports with what is saved *)
(* and adds, rewrites or deletes the record, the server resolves automatic *)
(* hints again whenever addresses change.                                  *)
(*                                                                         *)
(* The server is not in the repository: how it reads svcParams, stores and *)
(* reports them is taken from the comments of svcparam.go and client.go.   *)
(***************************************************************************)
EXTENDS SvcParam

CONSTANTS
    Specs,     \* what a user may try to save
    HintSets,  \* addresses the target may have: [HintKeys -> sequences]
    Absent     \* no record; the HTTPS toggle is off

VARIABLES
    saved,   \* the spec in the configuration
    record,  \* the record the server holds
    hints,   \* the addresses of its target
    fresh,   \* history: a cycle has run since the last save
    wrote    \* history: the last cycle sent a request

vars == <<saved, record, hints, fresh, wrote>>

ASSUME SpecsAssumption ==
    \A s \in Specs : s.params \in Seq(Param) /\ s.auto \subseteq HintKeys

ASSUME HintSetsAssumption == HintSets \subseteq [HintKeys -> Seq(Texts \ {Blank})]

-----------------------------------------------------------------------------
(* The server. *)

\* What a value means on the wire.
Meaning(k, value) ==
    CASE k = "mandatory"       -> {value[i].text : i \in DOMAIN value} \ {Blank}
      [] k = "no-default-alpn" -> <<>>
      [] k = "dohpath"         -> value
      [] OTHER                 -> SplitTrim(value)

\* The pairs of a request, as the server stores them.
Stored(pairs) ==
    [k \in {pairs[i].key : i \in DOMAIN pairs} |->
        Meaning(k, (CHOOSE p \in ToSet(pairs) : p.key = k).value)]

\* The hints the server resolves itself: none in alias mode, which is priority 0.
Automatic(r) == IF r.priority > 0 THEN r.auto ELSE {}

\* Automatic hints replace whatever was sent for their keys.
Rehinted(params, auto, hs) ==
    [k \in {x \in DOMAIN params : x \notin auto}
             \cup {x \in auto : hs[x] # <<>>} |->
        IF k \in auto THEN hs[k] ELSE params[k]]

RecordOf(spec, hs) ==
    [priority |-> spec.priority, target |-> spec.target.name,
     auto |-> spec.auto,
     params |-> Rehinted(Stored(EncodeParams(spec.params)), Automatic(spec), hs)]

ASSUME AbsentAssumption ==
    \A s \in Specs : s # Absent /\ \A hs \in HintSets : RecordOf(s, hs) # Absent

\* A value as the server reports it, in the spelling it likes.
Reported(k, meaning, plain) ==
    CASE k = "mandatory"       ->
           [i \in 1..Cardinality(meaning) |->
              [text |-> SetToSeq(meaning)[i], plain |-> plain]]
      [] k = "no-default-alpn" -> <<[text |-> Blank, plain |-> plain]>>
      [] k = "dohpath"         -> meaning
      [] OTHER                 ->
           [i \in DOMAIN meaning |-> [text |-> meaning[i], plain |-> plain]]

-----------------------------------------------------------------------------
(* The plugin. *)

\* parseRecords: the params of the reported object, the keys in some order.
Parsed(r, plain) ==
    [priority |-> r.priority,
     target   |-> [name |-> r.target, plain |-> plain],
     auto     |-> r.auto,
     params   |-> LET ks == SetToSeq(DOMAIN r.params)
                  IN  [i \in DOMAIN ks |->
                         [key   |-> [name |-> ks[i], plain |-> TRUE],
                          value |-> Reported(ks[i], r.params[ks[i]], plain),
                          bar   |-> FALSE]]]

\* Priority, target and params of what was read must identify the record.
Identified(actual) ==
    /\ actual.priority = record.priority
    /\ actual.target.name = record.target
    /\ Stored(EncodeParams(actual.params)) = record.params

Init ==
    /\ saved \in {s \in Specs : ValidateSpec(s)} \cup {Absent}
    /\ record = Absent
    /\ hints \in HintSets
    /\ fresh = FALSE
    /\ wrote = FALSE

SaveSpec(s) ==
    /\ ValidateSpec(s)
    /\ saved' = s
    /\ fresh' = FALSE
    /\ UNCHANGED <<record, hints, wrote>>

SwitchOff ==
    /\ saved' = Absent
    /\ fresh' = FALSE
    /\ UNCHANGED <<record, hints, wrote>>

\* A request that the server takes, or refuses because it finds no such record.
Write(accepted, new) ==
    /\ wrote' = TRUE
    /\ record' = IF accepted THEN new ELSE record
    /\ fresh' = TRUE
    /\ UNCHANGED <<saved, hints>>

AddRecord ==
    /\ saved # Absent /\ record = Absent
    /\ Write(TRUE, RecordOf(saved, hints))

UpdateRecord(plain) ==
    /\ saved # Absent /\ record # Absent
    /\ ~SameHTTPS(Parsed(record, plain), saved)
    /\ Write(Identified(Parsed(record, plain)), RecordOf(saved, hints))

DeleteRecord(plain) ==
    /\ saved = Absent /\ record # Absent
    /\ Write(Identified(Parsed(record, plain)), Absent)

\* The record is as wanted, or neither there nor wanted.
LeaveRecord(plain) ==
    /\ (saved = Absent) = (record = Absent)
    /\ record # Absent => SameHTTPS(Parsed(record, plain), saved)
    /\ wrote' = FALSE
    /\ fresh' = TRUE
    /\ UNCHANGED <<saved, record, hints>>

Cycle ==
    \/ AddRecord
    \/ \E plain \in BOOLEAN :
          UpdateRecord(plain) \/ DeleteRecord(plain) \/ LeaveRecord(plain)

\* The target's addresses change, and the automatic hints with them.
Rehint ==
    /\ hints' \in HintSets \ {hints}
    /\ record' = IF record = Absent THEN Absent
                 ELSE [record EXCEPT !.params =
                         Rehinted(record.params, Automatic(record), hints')]
    /\ UNCHANGED <<saved, fresh, wrote>>

Next ==
    \/ \E s \in Specs : SaveSpec(s)
    \/ SwitchOff
    \/ Cycle
    \/ Rehint

Spec == Init /\ [][Next]_vars

-----------------------------------------------------------------------------
(* What must hold. *)

\* A cycle after a cycle writes nothing, if nothing was saved in between: no
\* spelling, order or automatic hint makes the plugin rewrite a record for ever,
\* in whatever spelling the server reports it.
Settles == [][(fresh /\ fresh' /\ UNCHANGED hints) => ~wrote']_vars

\* The params the user asks for, and nothing else but hints of the server's own;
\* a hint whose flag is on is not compared, in alias mode neither.
ParamsMean(r, s) ==
    \A k \in Keys \ s.auto :
        /\ k \in DOMAIN r.params <=> \E i \in DOMAIN s.params : s.params[i].key.name = k
        /\ \A i \in DOMAIN s.params :
              s.params[i].key.name = k => r.params[k] = Meaning(k, s.params[i].value)

\* After a cycle the record means what was saved: no change of meaning is
\* mistaken for a change of spelling, every change gets through because the
\* record is still identified by what was read, and hints stay the server's.
Arrives ==
    fresh =>
        /\ (record = Absent) = (saved = Absent)
        /\ saved # Absent =>
              /\ record.priority = saved.priority
              /\ record.target = saved.target.name
              /\ record.auto = saved.auto
              /\ ParamsMean(record, saved)
              /\ \A k \in Automatic(saved) :
                    IF hints[k] = <<>> THEN k \notin DOMAIN record.params
                                       ELSE record.params[k] = hints[k]
=============================================================================
