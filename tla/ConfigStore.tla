----------------------------- MODULE ConfigStore ----------------------------
(***************************************************************************)
(* internal/config down to its system calls: Load, Store.Update and save,  *)
(* over a file system that may fail any call, with a process that may end  *)
(* between any two of them and a machine that may lose power.              *)
(*                                                                         *)
(* After a power loss the name config.json stands for any file it stood    *)
(* for since the directory was last written to disk, and a file that was   *)
(* not synced holds anything.  A failed parse or read at a start is an     *)
(* exit that changes nothing, so there is no action for it.                *)
(***************************************************************************)
EXTENDS ConfigValues

CONSTANTS
    Torn,     \* contents that are not a whole configuration
    Empty,    \* a file just created or truncated
    LazyDir   \* TRUE: a rename may stay off the disk after its save is over,
              \* as save ignores a failed directory sync

Contents == Config \cup {Absent, Torn}

ASSUME ContentsAssumption ==
    /\ Torn # Empty
    /\ {Torn, Empty} \cap (Config \cup {Absent, None}) = {}
    /\ LazyDir \in BOOLEAN

VARIABLES
    file,    \* contents of config.json
    kept,    \* contents it may have after a power loss
    tmp,     \* contents of config.json.tmp
    synced,  \* the temporary file's contents are on disk
    live,    \* Store.cfg, None while the plugin is not running
    draft,   \* next: the configuration being saved
    step,    \* how far save is; the mutex is free when "idle"
    stored,  \* history: what the last load, save or end left as the file
    lived    \* history: instance IDs the plugin has run with

diskVars == <<file, kept, tmp, synced>>
vars     == <<file, kept, tmp, synced, live, draft, step, stored, lived>>

Steps == {"idle", "open", "write", "sync", "close", "rename", "syncdir", "swap"}

Init ==
    /\ file \in InitFiles
    /\ kept = {file}
    /\ tmp = Absent /\ synced = FALSE
    /\ live = None /\ draft = None
    /\ step = "idle"
    /\ stored = file
    /\ lived = {}

Save(c) ==
    /\ step = "idle"
    /\ draft' = c
    /\ step' = "open"
    /\ UNCHANGED <<diskVars, live, stored, lived>>

\* Plausible bug: the first configuration is used without being saved.
LoadNothingUnsaved ==
    /\ live = None /\ step = "idle"
    /\ file = Absent
    /\ \E i \in FreshIds(lived) : live' = Default(i)
    /\ lived' = lived \cup {live'.id}
    /\ UNCHANGED <<diskVars, draft, step, stored>>

LoadNothing ==
    /\ live = None
    /\ file = Absent
    /\ \E i \in FreshIds(lived) : Save(Default(i))

LoadFile ==
    /\ live = None /\ step = "idle"
    /\ file \in Config
    /\ \E i \in FreshIds(lived) : live' = Clamp(file, i)
    /\ lived' = lived \cup {live'.id}
    /\ UNCHANGED <<diskVars, draft, step, stored>>

Update(poll, rest) ==
    /\ live # None
    /\ Valid(Edited(live, poll, rest))
    /\ Save(Edited(live, poll, rest))

\* O_CREATE and O_TRUNC: what an earlier save left there is gone.
OpenTmp ==
    /\ step = "open" /\ step' = "write"
    /\ tmp' = Empty /\ synced' = FALSE
    /\ UNCHANGED <<file, kept, live, draft, stored, lived>>

WriteTmp ==
    /\ step = "write" /\ step' = "sync"
    /\ tmp' = IF tmp = Empty THEN draft ELSE Torn
    /\ UNCHANGED <<file, kept, synced, live, draft, stored, lived>>

\* Plausible bug: no fsync.
SyncTmpSkipped ==
    /\ step = "sync" /\ step' = "close"
    /\ UNCHANGED <<diskVars, live, draft, stored, lived>>

SyncTmp ==
    /\ step = "sync" /\ step' = "close"
    /\ synced' = TRUE
    /\ UNCHANGED <<file, kept, tmp, live, draft, stored, lived>>

CloseTmp ==
    /\ step = "close" /\ step' = "rename"
    /\ UNCHANGED <<diskVars, live, draft, stored, lived>>

Rename ==
    /\ step = "rename" /\ step' = "syncdir"
    /\ file' = tmp /\ tmp' = Absent
    /\ kept' = kept \cup {tmp} \cup (IF synced THEN {} ELSE {Torn})
    /\ UNCHANGED <<synced, live, draft, stored, lived>>

\* What the directory on disk may hold once a save is over, or the process is:
\* unless LazyDir, a rename is taken to reach the disk before the next start even
\* if its save was cut short before the directory sync.
Settled == IF LazyDir THEN {kept, {file}} ELSE {{file}}

\* Errors of opening and of syncing the directory are ignored.
SyncDir ==
    /\ step = "syncdir" /\ step' = "swap"
    /\ kept' \in Settled
    /\ UNCHANGED <<file, tmp, synced, live, draft, stored, lived>>

\* The end of Update, and of a Load that had to save.
Swap ==
    /\ step = "swap" /\ step' = "idle"
    /\ live' = draft /\ stored' = draft /\ draft' = None
    /\ lived' = lived \cup {draft.id}
    /\ UNCHANGED diskVars

\* What a call of save that fails, or is cut short, leaves as temporary file.
Leftovers == {tmp} \cup (IF step = "write" THEN {Torn} ELSE {})

\* Plausible bug: a failed save does not give the mutex's draft up.
SaveFailsKeepsDraft ==
    /\ step \in {"open", "write", "sync", "close", "rename"}
    /\ step' = "idle"
    /\ tmp' \in Leftovers \cup (IF step = "open" THEN {} ELSE {Absent})
    /\ UNCHANGED <<file, kept, synced, live, draft, stored, lived>>

\* Plausible bug: a configuration visible although its save failed.
SaveFailsButShown ==
    /\ step \in {"open", "write", "sync", "close", "rename"}
    /\ step' = "idle" /\ draft' = None
    /\ live' = draft
    /\ tmp' \in Leftovers \cup (IF step = "open" THEN {} ELSE {Absent})
    /\ UNCHANGED <<file, kept, synced, stored, lived>>

\* A call fails: save removes the temporary file, if it can, and returns the
\* error.  Update keeps the old configuration; Load's caller exits.
SaveFails ==
    /\ step \in {"open", "write", "sync", "close", "rename"}
    /\ step' = "idle" /\ draft' = None
    /\ tmp' \in Leftovers \cup (IF step = "open" THEN {} ELSE {Absent})
    /\ UNCHANGED <<file, kept, synced, live, stored, lived>>

ProcessEnds ==
    /\ live # None \/ step # "idle"
    /\ live' = None /\ draft' = None /\ step' = "idle"
    /\ tmp' \in Leftovers
    /\ kept' \in Settled
    /\ stored' = file
    /\ UNCHANGED <<file, synced, lived>>

PowerLoss ==
    /\ live # None \/ step # "idle"
    /\ live' = None /\ draft' = None /\ step' = "idle"
    /\ file' \in kept
    /\ kept' = {file'}
    /\ tmp' \in Leftovers \cup {Absent, Torn}
    /\ stored' = file'
    /\ UNCHANGED <<synced, lived>>

Next ==
    \/ LoadNothing \/ LoadFile
    \/ \E poll \in Polls, rest \in Rests : Update(poll, rest)
    \/ OpenTmp \/ WriteTmp \/ SyncTmp \/ CloseTmp \/ Rename \/ SyncDir \/ Swap
    \/ SaveFails \/ ProcessEnds \/ PowerLoss

Spec == Init /\ [][Next]_vars
-----------------------------------------------------------------------------
\* The types of the variables, and no configuration is being saved while the
\* mutex is free.
TypeOK ==
    /\ file \in Contents
    /\ kept \in SUBSET Contents
    /\ tmp \in Contents \cup {Empty}
    /\ synced \in BOOLEAN
    /\ live \in Config \cup {None}
    /\ draft \in Config \cup {None}
    /\ step \in Steps
    /\ step = "idle" <=> draft = None
    /\ stored \in Contents
    /\ lived \subseteq Ids

\* save's comment: a crash mid-write cannot leave a corrupt config.json, which
\* would keep the plugin from ever starting again.  Now, and after losing
\* power, the file is whole, whatever earlier saves left behind.
NeverTorn == Torn \notin kept \cup {file}

\* The instance ID in the ownership markers is generated once: every life of
\* the plugin runs with the same one, or it would not know its own records.
InstanceStable == \A i, j \in lived : i = j

\* All the system calls of save together are one atomic, durable update.
Durable == INSTANCE DurableConfig WITH pending <- draft
ImplementsDurable == Durable!StoreSpec
=============================================================================
