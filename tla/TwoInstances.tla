---------------------------- MODULE TwoInstances ----------------------------
(***************************************************************************)
(* Two plugins, each beside a Zoraxy of its own, keep their hosts in the   *)
(* same zone: two Reconcilers, A and B, with instance IDs, rules, targets  *)
(* and memories of their own over one server.  A host is moved from one    *)
(* Zoraxy to the other by switching it off here before it is switched on   *)
(* there; nobody waits for a cycle in between.                             *)
(***************************************************************************)
EXTENDS Integers, Sequences, FiniteSets

CONSTANTS
    Hosts, IPv4s, IPv6s, Specs, Instances, Own, Blank,  \* see Reconciler
    ProxyHosts, MaxEdits, MaxFaults,                    \* see Reconciler
    IdA, IdB,            \* the two instance IDs
    ConfigsA, ConfigsB   \* the two users' configurations

ASSUME IdsAssumption == IdA # IdB /\ {IdA, IdB} \subseteq Instances

VARIABLES
    zone, hints, edits, faults,                       \* shared
    madeA, rulesA, configA, lastSuccessA, phaseA, optsA, desiredA, previousA,
    lastGoodA, skipDeletesA, snapA, snapHintsA, todoA, callsA, reqsA, errorsA,
    skippedA, expiredA,
    madeB, rulesB, configB, lastSuccessB, phaseB, optsB, desiredB, previousB,
    lastGoodB, skipDeletesB, snapB, snapHintsB, todoB, callsB, reqsB, errorsB,
    skippedB, expiredB

onlyA == <<rulesA, configA, lastSuccessA, phaseA, optsA, desiredA, previousA,
           lastGoodA, skipDeletesA, snapA, snapHintsA, todoA, callsA, reqsA,
           errorsA, skippedA, expiredA>>
onlyB == <<rulesB, configB, lastSuccessB, phaseB, optsB, desiredB, previousB,
           lastGoodB, skipDeletesB, snapB, snapHintsB, todoB, callsB, reqsB,
           errorsB, skippedB, expiredB>>
vars  == <<zone, hints, edits, faults, madeA, onlyA, madeB, onlyB>>

A == INSTANCE Reconciler WITH
       Self <- IdA, Configs <- ConfigsA, InitZones <- {{}}, AdminAdds <- {},
       AdminDeletes <- {}, AdminWhen <- "cycles", AdminAvoidsOwned <- TRUE,
       LateRequests <- "never", late <- {},
       made <- madeA, rules <- rulesA, config <- configA,
       lastSuccess <- lastSuccessA, phase <- phaseA, opts <- optsA,
       desired <- desiredA, previous <- previousA, lastGood <- lastGoodA,
       skipDeletes <- skipDeletesA, snap <- snapA, snapHints <- snapHintsA,
       todo <- todoA, calls <- callsA, reqs <- reqsA, errors <- errorsA,
       skipped <- skippedA, expired <- expiredA

B == INSTANCE Reconciler WITH
       Self <- IdB, Configs <- ConfigsB, InitZones <- {{}}, AdminAdds <- {},
       AdminDeletes <- {}, AdminWhen <- "cycles", AdminAvoidsOwned <- TRUE,
       LateRequests <- "never", late <- {},
       made <- madeB, rules <- rulesB, config <- configB,
       lastSuccess <- lastSuccessB, phase <- phaseB, opts <- optsB,
       desired <- desiredB, previous <- previousB, lastGood <- lastGoodB,
       skipDeletes <- skipDeletesB, snap <- snapB, snapHints <- snapHintsB,
       todo <- todoB, calls <- callsB, reqs <- reqsB, errors <- errorsB,
       skipped <- skippedB, expired <- expiredB

ASSUME PartiesAssumption ==
    /\ \A s \in Specs : s.target \in Hosts \cup {Own} /\ s.auto \in BOOLEAN
    /\ ProxyHosts \subseteq A!ProxyHost
    /\ ConfigsA \cup ConfigsB \subseteq A!ConfigType
    /\ \A c \in ConfigsA \cup ConfigsB : c.aaaa => c.ip6 # Blank
    /\ IsFiniteSet(Hosts)
    /\ Blank \notin A!Addresses \cup Specs
    /\ MaxEdits \in Nat /\ MaxFaults \in Nat

ListedByA == A!DeriveDesiredHostnames(rulesA)
ListedByB == B!DeriveDesiredHostnames(rulesB)

Init == A!Init /\ B!Init /\ ListedByA \cap ListedByB = {}

-----------------------------------------------------------------------------
(* A step of one plugin may take a record of the other away. *)

PluginA == A!Plugin /\ madeB' = madeB \cap zone' /\ UNCHANGED onlyB
PluginB == B!Plugin /\ madeA' = madeA \cap zone' /\ UNCHANGED onlyA

CrashA == A!Crash /\ madeB' = madeB \cap zone' /\ UNCHANGED onlyB
CrashB == B!Crash /\ madeA' = madeA \cap zone' /\ UNCHANGED onlyA

\* No host is switched on in one Zoraxy before it is switched off in the other.
Moved == ListedByA' \cap ListedByB' = {}

MoveA == A!EditRules /\ UNCHANGED <<madeB, onlyB>> /\ Moved
MoveB == B!EditRules /\ UNCHANGED <<madeA, onlyA>> /\ Moved

Next == PluginA \/ PluginB \/ CrashA \/ CrashB \/ MoveA \/ MoveB

Spec == Init /\ [][Next]_vars

\* Both loops go on, independently of each other.
FairSpec == Spec /\ WF_vars(PluginA) /\ WF_vars(PluginB)

-----------------------------------------------------------------------------
(* What must hold. *)

\* Whatever either plugin wrote stands under a marker of one of them, although
\* each of them deletes and rewrites whatever address it finds first at a host
\* that carries its own marker: nothing is left that nobody cleans up.
NothingOrphaned ==
    \A r \in madeA \cup madeB :
        r.type \in A!HostTypes
            => A!OwnedByUs(zone, r.host) \/ B!OwnedByUs(zone, r.host)

\* The plugin whose Zoraxy lists h has it, the other has nothing there.
Has(h, listedBy, mine, others, target) ==
    h \in listedBy => /\ mine /\ ~others
                      /\ A!AIPs(zone, h) = {target}

\* Once the moves, crashes and lost requests are over, every host ends up with
\* the plugin whose Zoraxy lists it, and hosts that nobody lists are cleaned up.
HandsOver ==
    <>[](\A h \in Hosts :
           LET a == A!OwnedByUs(zone, h)
               b == B!OwnedByUs(zone, h)
           IN  /\ Has(h, ListedByA, a, b, configA.ip4)
               /\ Has(h, ListedByB, b, a, configB.ip4)
               /\ h \notin ListedByA \cup ListedByB
                    => ~a /\ ~b /\ A!AIPs(zone, h) = {})

\* README: an instance "never touches DNS entries it didn't create itself".
\* Violated: a record that B writes at a host between A's zone read and A's own
\* CreateHost is adopted with the host, and A rewrites it in its next cycle.
OnlyItsOwn ==
    [][UNCHANGED onlyB
         => \A r \in zone \ (madeA \cup zone') : r.type \notin A!HostTypes]_vars
=============================================================================
