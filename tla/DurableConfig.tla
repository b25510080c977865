---------------------------- MODULE DurableConfig ---------------------------
(***************************************************************************)
(* What internal/config promises: one configuration that everybody reads,  *)
(* changed by one update at a time, each of which happens entirely or not  *)
(* at all, is on disk before anyone reads it, and is what the next start   *)
(* finds.  An update in progress when the plugin ends may turn out either  *)
(* way, as nobody was told.                                                *)
(***************************************************************************)
EXTENDS ConfigValues

VARIABLES
    live,     \* the Store's configuration, None while the plugin is not running
    stored,   \* what a start would find
    pending,  \* the configuration being saved: the Store's mutex is held
    lived     \* history: instance IDs the plugin has run with

storeVars == <<live, stored, pending, lived>>

StoreInit ==
    /\ live = None
    /\ stored \in InitFiles
    /\ pending = None
    /\ lived = {}

\* Load without a file: a configuration with an ID of its own is saved first.
FirstRun ==
    /\ live = None /\ pending = None
    /\ stored = Absent
    /\ \E i \in FreshIds(lived) : pending' = Default(i)
    /\ UNCHANGED <<live, stored, lived>>

\* Load with a file.
Reopen ==
    /\ live = None /\ pending = None
    /\ stored # Absent
    /\ \E i \in FreshIds(lived) : live' = Clamp(stored, i)
    /\ lived' = lived \cup {live'.id}
    /\ UNCHANGED <<stored, pending>>

\* Update: refused unless valid; then the save begins, under the lock.
Request(poll, rest) ==
    /\ live # None /\ pending = None
    /\ Valid(Edited(live, poll, rest))
    /\ pending' = Edited(live, poll, rest)
    /\ UNCHANGED <<live, stored, lived>>

\* The save is done: the configuration is on disk and visible.
Commit ==
    /\ pending # None
    /\ live' = pending /\ stored' = pending /\ pending' = None
    /\ lived' = lived \cup {pending.id}

\* The save failed: as if it had not been asked for.
Abort ==
    /\ pending # None
    /\ pending' = None
    /\ UNCHANGED <<live, stored, lived>>

\* The plugin ends, at any moment.
End ==
    /\ live # None \/ pending # None
    /\ live' = None /\ pending' = None
    /\ stored' \in {stored} \cup ({pending} \ {None})
    /\ UNCHANGED lived

StoreNext ==
    \/ FirstRun \/ Reopen \/ Commit \/ Abort \/ End
    \/ \E poll \in Polls, rest \in Rests : Request(poll, rest)

StoreSpec == StoreInit /\ [][StoreNext]_storeVars
=============================================================================
