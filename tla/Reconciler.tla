----------------------------- MODULE Reconciler -----------------------------
(***************************************************************************)
(* The reconcile loop: internal/reconciler/reconciler.go run by runOnce of *)
(* main.go, through the client of internal/technitium, against a zone that *)
(* administrators edit as well.  One action per request sent or answer     *)
(* received, so that anything may happen between two of them.              *)
(*                                                                         *)
(* A request that got no answer may be carried out later, among or after   *)
(* the requests of later cycles (late).                                    *)
(*                                                                         *)
(* Left out: TTLs, log lines, the result's Created/Updated/Deleted lists   *)
(* and ManagedCount (reporting only), and which of several equal records   *)
(* the server lists first (any of them may be [0]).                        *)
(***************************************************************************)
EXTENDS TechnitiumClient

CONSTANTS
    ProxyHosts,        \* host rules Zoraxy may have
    Configs,           \* configurations a user may save
    InitZones,         \* zone contents the plugin may find when it is installed
    AdminAdds,         \* records somebody else may add to the zone
    AdminDeletes,      \* records somebody else may delete from it
    AdminWhen,         \* and when: between "cycles", between "calls", "always"
    AdminAvoidsOwned,  \* TRUE: somebody else adds nothing at a host we marked
    LateRequests,      \* requests carried out late: "never", "steady", "any"
    MaxEdits,          \* bound on edits of the zone, the rules, the config
    MaxFaults          \* bound on lost requests, failed reads and crashes

\* A hostname as a rule spells it: perhaps not in lower case or trimmed.
Names == [host : Hosts \cup {Blank}, plain : BOOLEAN]

ProxyHost == [root : Names, aliases : SUBSET Names, disabled : BOOLEAN]

ASSUME ProxyHostsAssumption == ProxyHosts \subseteq ProxyHost

ConfigType ==
    [ip4 : IPv4s, aaaa : BOOLEAN, ip6 : IPv6s \cup {Blank},
     https : BOOLEAN, spec : Specs]

\* What config.Validate lets through: an address whenever AAAA is enabled.
ASSUME ConfigsAssumption ==
    /\ Configs \subseteq ConfigType
    /\ \A c \in Configs : c.aaaa => c.ip6 # Blank

ASSUME HostsAssumption == IsFiniteSet(Hosts)

ASSUME BlankAssumption == Blank \notin Addresses \cup Specs

ASSUME AdminAssumption ==
    /\ InitZones \subseteq SUBSET Records
    /\ AdminAdds \subseteq Records
    /\ AdminDeletes \subseteq Records
    /\ AdminWhen \in {"cycles", "calls", "always"}
    /\ AdminAvoidsOwned \in BOOLEAN

ASSUME LateAssumption == LateRequests \in {"never", "steady", "any"}

ASSUME BoundsAssumption == MaxEdits \in Nat /\ MaxFaults \in Nat

VARIABLES
    zone,         \* Technitium: the records
    hints,        \* Technitium: hint params of each HTTPS record
    made,         \* history: the records in the zone that the plugin wrote
    late,         \* requests without an answer that the server has yet to see
    rules,        \* Zoraxy: its host rules
    config,       \* the config store (internal/config)
    lastSuccess,  \* the status store (internal/status): LastSuccess
    phase,        \* where the cycle is
    opts,         \* Reconciler.Opts, copied from the store by runOnce
    desired,      \* desiredSet of the last poll that succeeded
    previous,     \* history: desiredSet of the poll that succeeded before it
    lastGood,     \* Reconciler.lastGoodHostCount
    skipDeletes,  \* skipDeletes of this cycle
    snap,         \* the records GetZoneState returned
    snapHints,    \* and their hint params
    todo,         \* hosts the current loop has not visited
    calls,        \* DNSStore calls still to make for the current host
    reqs,         \* HTTP requests still to send for the current call
    errors,       \* kinds of errors in the result
    skipped,      \* result.Skipped
    expired,      \* the cycle's 25 second context is done
    edits, faults \* how much of the two bounds is used up

serverVars == <<zone, hints, made, late>>
cycleVars  == <<phase, opts, desired, previous, lastGood, skipDeletes, snap,
                snapHints, todo, calls, reqs, errors, skipped, expired>>
vars == <<serverVars, rules, config, lastSuccess, cycleVars, edits, faults>>

Phases   == {"idle", "list", "read", "ensure", "remove", "report"}
Failures == {"fault", "not_owned", "refused"}

NoHints == [p \in Hosts \X Specs |-> {}]

\* Types: in particular, no request is ever about an absent address or spec.
TypeOK ==
    /\ zone \in SUBSET Records
    /\ hints \in [Hosts \X Specs -> SUBSET Addresses]
    /\ made \in SUBSET Records
    /\ late \in SUBSET Requests
    /\ rules \in SUBSET ProxyHosts
    /\ config \in Configs
    /\ lastSuccess \in BOOLEAN
    /\ phase \in Phases
    /\ opts \in Configs
    /\ desired \in SUBSET Hosts
    /\ previous \in SUBSET Hosts
    /\ lastGood \in Nat
    /\ skipDeletes \in BOOLEAN
    /\ snap \in SUBSET Records
    /\ snapHints \in [Hosts \X Specs -> SUBSET Addresses]
    /\ todo \in SUBSET Hosts
    /\ calls \in Seq(Seq(Requests))
    /\ reqs \in Seq(Requests)
    /\ errors \in SUBSET Failures
    /\ skipped \in SUBSET Hosts
    /\ expired \in BOOLEAN
    /\ edits \in 0..MaxEdits
    /\ faults \in 0..MaxFaults

\* The plugin starts in a zone where the records under our marker, if any, are
\* its own from an earlier life, and where the hints are as the server left them.
Init ==
    /\ zone \in InitZones
    /\ hints = [p \in Hosts \X Specs |->
                   IF HTTPSRecord(p[1], p[2]) \in zone
                     THEN Resolve(zone, p[1], p[2]) ELSE {}]
    /\ made = {r \in zone : OwnedByUs(zone, r.host)}
    /\ late = {}
    /\ rules \in SUBSET ProxyHosts
    /\ config \in Configs
    /\ lastSuccess = FALSE
    /\ phase = "idle"
    /\ opts = config
    /\ desired = {} /\ previous = {}
    /\ lastGood = 0 /\ skipDeletes = FALSE
    /\ snap = {} /\ snapHints = NoHints
    /\ todo = {} /\ calls = <<>> /\ reqs = <<>>
    /\ errors = {} /\ skipped = {} /\ expired = FALSE
    /\ edits = 0 /\ faults = 0

-----------------------------------------------------------------------------
(* What Zoraxy answers. *)

\* The roots and aliases of the rules that are not disabled, normalized; a host
\* that several rules name, or one rule in several spellings, counts once.
DeriveDesiredHostnames(rs) ==
    {n.host : n \in UNION {{r.root} \cup r.aliases :
                              r \in {x \in rs : ~x.disabled}}} \ {Blank}

-----------------------------------------------------------------------------
(* The decisions Reconcile takes. *)

TooFewRounded(now, before) == before > 0 /\ now < before \div 2    \* mutant

\* The circuit breaker: fewer than half the hosts of the last good poll.
TooFew(now, before) == before > 0 /\ now * 2 < before

ForeignA(z, h) == ~OwnedByUs(z, h) /\ AIPs(z, h) # {}             \* mutant

\* Records but no marker of ours: never adopted, whatever their type.
Foreign(z, h) ==
    /\ ~OwnedByUs(z, h)
    /\ \/ AIPs(z, h) # {}
       \/ AAAAIPs(z, h) # {}
       \/ HTTPSSpecs(z, h) # {}

\* Element [0] of a list holding S in the server's order, Blank if it is empty.
First(S) == IF S = {} THEN {Blank} ELSE S

NeedsUpdateCount(ips, target) == Cardinality(ips) # 1            \* mutant

NeedsUpdate(ips, target) == ips # {target}

\* No A record in the snapshot, so the host is created (again).
CreateCall(h, o, https) ==
    CreateHost(h, o.ip4, IF o.aaaa THEN o.ip6 ELSE Blank,
               IF o.https /\ https = Blank THEN o.spec ELSE Blank)

RepairCallsHTTPSLast(h, o, z, hs, a, aaaa, https) ==              \* mutant
    When(NeedsUpdate(AIPs(z, h), o.ip4), UpdateA(h, a, o.ip4))
      \o When(o.https /\ https # Blank /\ https # o.spec,
              UpdateHTTPS(h, https, hs[<<h, https>>], o.spec))

\* There is an A record: close the gap one record type after the other, HTTPS
\* records that exist before the addresses, a new HTTPS record after them.
RepairCalls(h, o, z, hs, a, aaaa, https) ==
    When(o.https /\ https # Blank /\ https # o.spec,
         UpdateHTTPS(h, https, hs[<<h, https>>], o.spec))
      \o When(~o.https /\ https # Blank,
              DeleteHTTPSOnly(h, https, hs[<<h, https>>]))
      \o When(NeedsUpdate(AIPs(z, h), o.ip4), UpdateA(h, a, o.ip4))
      \o When(o.aaaa /\ aaaa = Blank, CreateAAAA(h, o.ip6))
      \o When(o.aaaa /\ aaaa # Blank /\ NeedsUpdate(AAAAIPs(z, h), o.ip6),
              UpdateAAAA(h, aaaa, o.ip6))
      \o When(~o.aaaa /\ aaaa # Blank, DeleteAAAAOnly(h, aaaa))
      \o When(o.https /\ https = Blank, CreateHTTPS(h, o.spec))

EnsureCalls(h, o, z, hs, a, aaaa, https) ==
    IF a = Blank
      THEN <<CreateCall(h, o, https)>>
      ELSE RepairCalls(h, o, z, hs, a, aaaa, https)

RemoveCall(h, hs, a, aaaa, https) ==
    DeleteHost(h, a, aaaa, https,
               IF https = Blank THEN {} ELSE hs[<<h, https>>])

\* The hosts of the delete loop: ours, and no longer wanted.
Unwanted(z, wanted) == {h \in Hosts : OwnedByUs(z, h) /\ h \notin wanted}

-----------------------------------------------------------------------------
(* A cycle, as far as the reads. *)

\* main.go runOnce: the configuration is read once per cycle.
BeginCycle ==
    /\ phase = "idle"
    /\ opts' = config
    /\ phase' = "list"
    /\ UNCHANGED <<serverVars, rules, config, lastSuccess, desired, previous,
                   lastGood, skipDeletes, snap, snapHints, todo, calls, reqs,
                   errors, skipped, expired, edits, faults>>

ListHostsKeepsBaseline ==                                         \* mutant
    /\ phase = "list"
    /\ previous' = desired
    /\ desired' = DeriveDesiredHostnames(rules)
    /\ skipDeletes' = TooFew(Cardinality(desired'), lastGood)
    /\ lastGood' = IF skipDeletes' THEN lastGood ELSE Cardinality(desired')
    /\ phase' = "read"
    /\ UNCHANGED <<serverVars, rules, config, lastSuccess, opts, snap,
                   snapHints, todo, calls, reqs, errors, skipped, expired,
                   edits, faults>>

\* Zoraxy answers.  The breaker's baseline moves here, before the zone is read.
ListHosts ==
    /\ phase = "list"
    /\ previous' = desired
    /\ desired' = DeriveDesiredHostnames(rules)
    /\ skipDeletes' = TooFew(Cardinality(desired'), lastGood)
    /\ lastGood' = Cardinality(desired')
    /\ phase' = "read"
    /\ UNCHANGED <<serverVars, rules, config, lastSuccess, opts, snap,
                   snapHints, todo, calls, reqs, errors, skipped, expired,
                   edits, faults>>

\* GetZoneState answers; the loop over the desired hosts works on this copy.
ReadZone ==
    /\ phase = "read"
    /\ snap' = zone
    /\ snapHints' = hints
    /\ todo' = desired
    /\ phase' = "ensure"
    /\ UNCHANGED <<serverVars, rules, config, lastSuccess, opts, desired,
                   previous, lastGood, skipDeletes, calls, reqs, errors,
                   skipped, expired, edits, faults>>

\* Either read fails: Reconcile returns its error at once.
ReadFails ==
    /\ phase \in {"list", "read"}
    /\ faults < MaxFaults
    /\ faults' = faults + 1
    /\ errors' = {"fault"}
    /\ phase' = "report"
    /\ UNCHANGED <<serverVars, rules, config, lastSuccess, opts, desired,
                   previous, lastGood, skipDeletes, snap, snapHints, todo,
                   calls, reqs, skipped, expired, edits>>

-----------------------------------------------------------------------------
(* The two loops; a host is begun when the calls for the last one are over. *)

BetweenHosts == calls = <<>> /\ reqs = <<>>

SkipForeign(h) ==
    /\ phase = "ensure" /\ BetweenHosts /\ h \in todo
    /\ Foreign(snap, h)
    /\ skipped' = skipped \cup {h}
    /\ todo' = todo \ {h}
    /\ UNCHANGED <<serverVars, rules, config, lastSuccess, phase, opts,
                   desired, previous, lastGood, skipDeletes, snap, snapHints,
                   calls, reqs, errors, expired, edits, faults>>

EnsureHost(h) ==
    /\ phase = "ensure" /\ BetweenHosts /\ h \in todo
    /\ ~Foreign(snap, h)
    /\ \E a \in First(AIPs(snap, h)), aaaa \in First(AAAAIPs(snap, h)),
          https \in First(HTTPSSpecs(snap, h)) :
         calls' = EnsureCalls(h, opts, snap, snapHints, a, aaaa, https)
    /\ todo' = todo \ {h}
    /\ UNCHANGED <<serverVars, rules, config, lastSuccess, phase, opts,
                   desired, previous, lastGood, skipDeletes, snap, snapHints,
                   reqs, errors, skipped, expired, edits, faults>>

EnsureDone ==
    /\ phase = "ensure" /\ BetweenHosts /\ todo = {}
    /\ IF skipDeletes
         THEN phase' = "report" /\ UNCHANGED todo
         ELSE phase' = "remove" /\ todo' = Unwanted(snap, desired)
    /\ UNCHANGED <<serverVars, rules, config, lastSuccess, opts, desired,
                   previous, lastGood, skipDeletes, snap, snapHints, calls,
                   reqs, errors, skipped, expired, edits, faults>>

RemoveHost(h) ==
    /\ phase = "remove" /\ BetweenHosts /\ h \in todo
    /\ \E a \in First(AIPs(snap, h)), aaaa \in First(AAAAIPs(snap, h)),
          https \in First(HTTPSSpecs(snap, h)) :
         calls' = <<RemoveCall(h, snapHints, a, aaaa, https)>>
    /\ todo' = todo \ {h}
    /\ UNCHANGED <<serverVars, rules, config, lastSuccess, phase, opts,
                   desired, previous, lastGood, skipDeletes, snap, snapHints,
                   reqs, errors, skipped, expired, edits, faults>>

RemoveDone ==
    /\ phase = "remove" /\ BetweenHosts /\ todo = {}
    /\ phase' = "report"
    /\ UNCHANGED <<serverVars, rules, config, lastSuccess, opts, desired,
                   previous, lastGood, skipDeletes, snap, snapHints, todo,
                   calls, reqs, errors, skipped, expired, edits, faults>>

\* The status store is set and what Reconcile kept for the cycle is dropped.
Report ==
    /\ phase = "report"
    /\ lastSuccess' = (errors = {})
    /\ phase' = "idle"
    /\ snap' = {} /\ snapHints' = NoHints
    /\ todo' = {} /\ skipDeletes' = FALSE
    /\ errors' = {} /\ skipped' = {} /\ expired' = FALSE
    /\ UNCHANGED <<serverVars, rules, config, opts, desired, previous,
                   lastGood, calls, reqs, edits, faults>>

-----------------------------------------------------------------------------
(* Calls and their requests. *)

BeginCall ==
    /\ reqs = <<>> /\ calls # <<>>
    /\ reqs' = Head(calls)
    /\ calls' = Tail(calls)
    /\ UNCHANGED <<serverVars, rules, config, lastSuccess, phase, opts,
                   desired, previous, lastGood, skipDeletes, snap, snapHints,
                   todo, errors, skipped, expired, edits, faults>>

\* The server carries out q; `made' follows what the plugin wrote.
Serve(q) ==
    /\ zone' = ZoneAfter(zone, q)
    /\ hints' = HintsAfter(zone, hints, q, UpdateSvcbHints(q))
    /\ made' = (made \cap zone') \cup (zone' \ zone)

Answered ==
    /\ reqs # <<>> /\ ~expired
    /\ Accepted(zone, hints, Head(reqs))
    /\ Serve(Head(reqs))
    /\ reqs' = Tail(reqs)
    /\ UNCHANGED <<late, rules, config, lastSuccess, phase, opts, desired, previous,
                   lastGood, skipDeletes, snap, snapHints, todo, calls,
                   errors, skipped, expired, edits, faults>>

\* No marker of ours (ErrNotOwned), or no such record to update or delete.
Refused ==
    /\ reqs # <<>> /\ ~expired
    /\ ~Accepted(zone, hints, Head(reqs))
    /\ errors' = errors \cup
         {IF Head(reqs).verb = "check" THEN "not_owned" ELSE "refused"}
    /\ reqs' = <<>>
    /\ UNCHANGED <<serverVars, rules, config, lastSuccess, phase, opts,
                   desired, previous, lastGood, skipDeletes, snap, snapHints,
                   todo, calls, skipped, expired, edits, faults>>

\* Whatever the current cycle does is still what Zoraxy and the user ask for.
StillWished == opts = config /\ desired = DeriveDesiredHostnames(rules)

\* A request is sent but no answer comes back: was it carried out or not, or
\* will it be?  If so at any time ("any"), or at least not before that is what
\* the rules and the configuration ask for, and before they change ("steady").
Sent == reqs # <<>> /\ ~expired

MayBeLate ==
    /\ Head(reqs).verb # "check"
    /\ \/ LateRequests = "any"
       \/ LateRequests = "steady" /\ StillWished

PerhapsServed ==
    \/ Sent /\ Accepted(zone, hints, Head(reqs)) /\ Serve(Head(reqs))
         /\ UNCHANGED late
    \/ Sent /\ MayBeLate /\ late' = late \cup {Head(reqs)}
         /\ UNCHANGED <<zone, hints, made>>
    \/ UNCHANGED serverVars

\* One request fails or times out, perhaps with the whole cycle's context.
Lost ==
    /\ reqs # <<>> /\ ~expired
    /\ faults < MaxFaults
    /\ faults' = faults + 1
    /\ PerhapsServed
    /\ errors' = errors \cup {"fault"}
    /\ reqs' = <<>>
    /\ expired' \in BOOLEAN
    /\ UNCHANGED <<rules, config, lastSuccess, phase, opts, desired, previous,
                   lastGood, skipDeletes, snap, snapHints, todo, calls,
                   skipped, edits>>

\* Once the context is done every request fails without being sent.
NotSent ==
    /\ reqs # <<>> /\ expired
    /\ errors' = errors \cup {"fault"}
    /\ reqs' = <<>>
    /\ UNCHANGED <<serverVars, rules, config, lastSuccess, phase, opts,
                   desired, previous, lastGood, skipDeletes, snap, snapHints,
                   todo, calls, skipped, expired, edits, faults>>

\* The server gets to a request whose sender no longer waits for the answer.
CarriedOutLate(q) ==
    /\ q \in late
    /\ late' = late \ {q}
    /\ IF Accepted(zone, hints, q) THEN Serve(q)
                                  ELSE UNCHANGED <<zone, hints, made>>
    /\ UNCHANGED <<rules, config, lastSuccess, cycleVars, edits, faults>>

Plugin ==
    \/ BeginCycle \/ ListHosts \/ ReadZone \/ ReadFails
    \/ \E h \in Hosts : SkipForeign(h) \/ EnsureHost(h) \/ RemoveHost(h)
    \/ EnsureDone \/ RemoveDone \/ Report
    \/ BeginCall \/ Answered \/ Refused \/ Lost \/ NotSent

-----------------------------------------------------------------------------
(* Everybody else. *)

\* An edit is one of finitely many; under "steady" it waits for late requests.
Edit ==
    /\ edits < MaxEdits
    /\ edits' = edits + 1
    /\ LateRequests = "steady" => late = {}

Administer(q) ==
    /\ Edit
    /\ \/ AdminWhen = "always"
       \/ AdminWhen = "calls" /\ reqs = <<>>
       \/ phase = "idle"
    /\ zone' = ZoneAfter(zone, q)
    /\ \E update \in BOOLEAN : hints' = HintsAfter(zone, hints, q, update)
    /\ made' = made \cap zone'
    /\ UNCHANGED <<late, rules, config, lastSuccess, cycleVars, faults>>

AdminAdd(r) ==
    /\ r \in AdminAdds \ zone
    /\ AdminAvoidsOwned => ~OwnedByUs(zone, r.host)
    /\ Administer(AddRecord(r))

AdminDelete(r) ==
    /\ r \in AdminDeletes \cap zone
    /\ Administer(DeleteRecord(r, {}))

\* Rules are added, removed, enabled, disabled or rewritten in Zoraxy.
EditRules ==
    /\ Edit
    /\ rules' \in SUBSET ProxyHosts \ {rules}
    /\ UNCHANGED <<serverVars, config, lastSuccess, cycleVars, faults>>

\* The UI saves a configuration; a running cycle keeps its copy.
EditConfig ==
    /\ Edit
    /\ config' \in Configs \ {config}
    /\ UNCHANGED <<serverVars, rules, lastSuccess, cycleVars, faults>>

\* The process ends at any point, perhaps with a request on its way, and starts
\* again: everything is read anew, the breaker's baseline is gone.
Crash ==
    /\ faults < MaxFaults
    /\ faults' = faults + 1
    /\ PerhapsServed
    /\ lastSuccess' = FALSE
    /\ phase' = "idle"
    /\ opts' = config
    /\ desired' = {} /\ previous' = {}
    /\ lastGood' = 0 /\ skipDeletes' = FALSE
    /\ snap' = {} /\ snapHints' = NoHints
    /\ todo' = {} /\ calls' = <<>> /\ reqs' = <<>>
    /\ errors' = {} /\ skipped' = {} /\ expired' = FALSE
    /\ UNCHANGED <<rules, config, edits>>

Environment ==
    \/ \E r \in Records : AdminAdd(r) \/ AdminDelete(r)
    \/ EditRules \/ EditConfig \/ Crash
    \/ \E q \in late : CarriedOutLate(q)

Next == Plugin \/ Environment

Spec == Init /\ [][Next]_vars

\* The loop's goroutine never stops, its ticker always fires again, and the
\* timeouts end every request: the plugin goes on.  Nobody else has to.
FairSpec == Spec /\ WF_vars(Plugin)

-----------------------------------------------------------------------------
(* What must hold. *)

\* Nobody else, and no request of our own that comes late, removes our markers
\* while a call of the client is under way.
MarkersHeld ==
    /\ \/ \A h \in Hosts : Marker(h) \notin AdminDeletes
       \/ AdminWhen # "always"
    /\ LateRequests = "never"

\* A/AAAA/HTTPS records of a host are only written or deleted while our marker
\* stands at the host: CreateHost plants it first, DeleteHost takes it away
\* last, every other call checks it, whatever the zone snapshot said, and no
\* interleaving of lost requests, crashes and edits gets in between.  Somebody
\* who removes the marker while a call runs can break it (MarkersHeld).
WriteUnderMarker ==
    (reqs # <<>> /\ Head(reqs).rec.type \in HostTypes)
        => OwnedByUs(zone, Head(reqs).rec.host)

\* No record of ours is ever orphaned: whatever the plugin wrote stands under
\* its marker, through every partial failure of CreateHost and DeleteHost, so
\* that a later cycle (or life) still finds it and may remove it.
OwnRecordsMarked ==
    \A r \in made : r.type \in HostTypes => OwnedByUs(zone, r.host)

\* A step of the plugin never removes or rewrites a record it did not write.
ForeignUntouched ==
    [][edits' = edits => zone \ made \subseteq zone']_vars

\* A step of the plugin never plants the marker at a host that has a record,
\* of any type, that it did not write.
NeverAdopts ==
    [][\A h \in Hosts :
         (edits' = edits /\ ~OwnedByUs(zone, h) /\ OwnedByUs(zone', h))
            => \A r \in zone \ made : r.host = h => r.type \notin HostTypes]_vars

\* A host that had foreign records when the zone was read is left alone for the
\* whole cycle, whatever happens to its records or markers meanwhile.
ForeignHostLeftAlone ==
    [][\A r \in (zone \ zone') \cup (zone' \ zone) :
         (edits' = edits /\ ~OwnedByUs(snap, r.host))
            => \A x \in snap : x.host = r.host => x.type \notin HostTypes]_vars

Owned == INSTANCE Ownership WITH
           HostRecords <- {r \in Records : r.type \in HostTypes},
           marked <- {h \in Hosts : OwnedByUs(zone, h)},
           ours   <- {r \in made : r.type \in HostTypes},
           others <- {r \in zone \ made : r.type \in HostTypes}

\* Cycles that act request by request on an old snapshot, and may be cut short
\* anywhere, keep what the markers promise: each step marks a host where nobody
\* has a record, writes under a marker what is ours, or gives up an empty host.
ImplementsOwnership == Owned!Spec

\* What the zone holds of h is what the options ask for.
InSync(h) ==
    /\ AIPs(zone, h) = {opts.ip4}
    /\ AAAAIPs(zone, h) = (IF opts.aaaa THEN {opts.ip6} ELSE {})
    /\ HTTPSSpecs(zone, h) = (IF opts.https THEN {opts.spec} ELSE {})

\* A cycle without errors has done its work: every wanted host that had an A
\* record when it began, and every one that had nothing, is as configured, and
\* of the hosts we own only wanted ones are left.  Where CreateHost repaired a
\* host without an A record, the other types wait for the next cycle.
SuccessMeansSynced ==
    (phase = "report" /\ errors = {}) =>
        /\ \A h \in desired \ skipped :
              \/ InSync(h)
              \/ AIPs(snap, h) = {} /\ OwnedByUs(snap, h)
                   /\ AIPs(zone, h) = {opts.ip4}
        /\ ~skipDeletes => \A h \in Hosts : OwnedByUs(zone, h) => h \in desired

\* A host loses its marker only in a cycle that polled at least half as many
\* hosts as the poll before it, however reads failed in between.
BreakerHolds ==
    [][\A h \in Hosts :
         (edits' = edits /\ OwnedByUs(zone, h) /\ ~OwnedByUs(zone', h))
            => 2 * Cardinality(desired) >= Cardinality(previous)]_vars

\* The hints an HTTPS record is identified by have not moved between the zone
\* read and the request that updates or deletes it: such requests go out before
\* the address requests that would make the server resolve the hints again.
HTTPSIdentityFresh ==
    (reqs # <<>> /\ Head(reqs).rec.type = "HTTPS"
       /\ Head(reqs).verb \in {"update", "delete"})
        => Found(zone, hints, Head(reqs))

\* The hints of (h, s) are the addresses its target has; or those and IPv6
\* addresses it no longer has.
Current(h, s) == hints[<<h, s>>] = Resolve(zone, h, s)

Surplus(h, s) ==
    /\ Resolve(zone, h, s) \subseteq hints[<<h, s>>]
    /\ hints[<<h, s>>] \ Resolve(zone, h, s) \subseteq IPv6s

\* A cycle without errors leaves the automatic hints of every HTTPS record
\* current whose target is a host it kept or removed, wherever addresses were
\* created, rewritten or deleted on the way, and also if somebody else deleted
\* addresses before and left the hints behind.  Not repaired is only what gives
\* the plugin nothing to do at the target: hints of AAAA records that were gone
\* when the cycle began, or of a host to remove that had no address left.
HintsCurrent ==
    (phase = "report" /\ errors = {}) =>
        \A h \in Hosts, s \in Specs :
           LET target == TargetOf(h, s)
           IN  HTTPSRecord(h, s) \in zone =>
                 /\ target \in desired \ skipped =>
                      \/ Current(h, s)
                      \/ Surplus(h, s) /\ AAAAIPs(snap, target) = AAAAIPs(zone, target)
                 /\ (target \notin desired /\ ~skipDeletes
                       /\ OwnedByUs(snap, target)) =>
                      \/ Current(h, s)
                      \/ Resolve(snap, h, s) = {}

\* Some rule that is not disabled names h, however it spells it.
Enabled(h) ==
    \E r \in rules : ~r.disabled /\ \E n \in {r.root} \cup r.aliases : n.host = h

\* The zone is as the rules and the configuration of this moment want it: the
\* hosts of the rules in sync unless they are foreign, and nothing of ours left
\* at any other host.
SyncedNow ==
    /\ \A h \in Hosts :
         IF Enabled(h)
           THEN \/ Foreign(zone, h)
                \/ /\ OwnedByUs(zone, h)
                   /\ AIPs(zone, h) = {config.ip4}
                   /\ AAAAIPs(zone, h) =
                        (IF config.aaaa THEN {config.ip6} ELSE {})
                   /\ HTTPSSpecs(zone, h) =
                        (IF config.https THEN {config.spec} ELSE {})
           ELSE ~OwnedByUs(zone, h)
    /\ \A r \in made : Enabled(r.host)

\* Once nobody interferes any more, the zone gets there and stays there, and the
\* status shows success: failed cycles, lost requests and a tripped breaker are
\* made up for by later cycles.
Converges == <>[](SyncedNow /\ lastSuccess)
=============================================================================
