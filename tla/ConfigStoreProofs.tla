-------------------------- MODULE ConfigStoreProofs -------------------------
(***************************************************************************)
(* Theorems about ConfigStore: the file is whole whatever fails, and all   *)
(* the steps of a save are one atomic update of DurableConfig.             *)
(***************************************************************************)
EXTENDS ConfigStore, TLAPS

Renamed == step \in {"syncdir", "swap"}

\* Inductive.  NeverTorn hangs on the last conjuncts: from the moment the
\* temporary file is written until it is renamed, it holds the draft, and by
\* then it is synced.
DiskInv ==
    /\ TypeOK
    /\ NeverTorn
    /\ live # None => live.id \in Ids
    /\ draft # None => draft.id \in Ids
    /\ step = "write" => tmp = Empty
    /\ step \in {"sync", "close", "rename"} => tmp = draft
    /\ step \in {"close", "rename"} => synced

\* What config.json holds, compared with what the Store promised.
HistoryInv ==
    /\ file = IF Renamed THEN draft ELSE stored
    /\ kept = CASE step = "syncdir" -> {stored, draft}
                [] step = "swap"    -> {draft}
                [] OTHER            -> {stored}
-----------------------------------------------------------------------------
\* Load and Update make configurations, with an instance ID.
LEMMA ValuesTyped ==
    /\ FreshIds(lived) \subseteq Ids
    /\ \A i \in Ids : Default(i) \in Config /\ Default(i).id \in Ids
    /\ \A c \in Config, i \in Ids :
          Clamp(c, i) \in Config /\ Clamp(c, i).id \in Ids
    /\ \A c \in Config, poll \in Polls, rest \in Rests :
          Edited(c, poll, rest) \in Config /\ Edited(c, poll, rest).id = c.id
<1>1. FreshIds(lived) \subseteq Ids
  BY DEF FreshIds
<1>2. \A i \in Ids : Default(i) \in Config /\ Default(i).id \in Ids
  BY PollAssumption, RestAssumption DEF Default, Config
<1>3. \A c \in Config, i \in Ids :
         Clamp(c, i) \in Config /\ Clamp(c, i).id \in Ids
  BY PollAssumption DEF Clamp, Config
<1>4. \A c \in Config, poll \in Polls, rest \in Rests :
         Edited(c, poll, rest) \in Config /\ Edited(c, poll, rest).id = c.id
  BY DEF Edited, Config
<1>5. QED
  BY <1>1, <1>2, <1>3, <1>4

LEMMA DiskInit == Init => DiskInv
BY FileAssumption, ContentsAssumption, SentinelAssumption
   DEF Init, DiskInv, TypeOK, NeverTorn, Contents, Steps

\* One step of Load, of Update or of save preserves the invariant, and so does
\* the end of the process or of the machine.
LEMMA DiskStep == DiskInv /\ [Next]_vars => DiskInv'
<1> SUFFICES ASSUME DiskInv, [Next]_vars
             PROVE  DiskInv'
  OBVIOUS
<1> USE ContentsAssumption, SentinelAssumption
    DEF DiskInv, TypeOK, NeverTorn, Contents, Steps, diskVars
<1>1. ASSUME NEW c \in Config, c.id \in Ids, Save(c)
      PROVE  DiskInv'
  BY <1>1 DEF Save
<1>2. CASE LoadNothing
  <2>1. PICK i \in FreshIds(lived) : Save(Default(i))
    BY <1>2 DEF LoadNothing
  <2>2. QED
    BY <2>1, <1>1, ValuesTyped
<1>3. CASE LoadFile
  <2>1. PICK i \in FreshIds(lived) : live' = Clamp(file, i)
    BY <1>3 DEF LoadFile
  <2>2. live' \in Config /\ live'.id \in Ids
    BY <1>3, <2>1, ValuesTyped DEF LoadFile
  <2>3. QED
    BY <1>3, <2>2 DEF LoadFile
<1>4. ASSUME NEW poll \in Polls, NEW rest \in Rests, Update(poll, rest)
      PROVE  DiskInv'
  <2>1. Edited(live, poll, rest) \in Config /\ Edited(live, poll, rest).id \in Ids
    BY <1>4, ValuesTyped DEF Update
  <2>2. QED
    BY <1>4, <1>1, <2>1 DEF Update
<1>5. CASE OpenTmp
  BY <1>5 DEF OpenTmp
<1>6. CASE WriteTmp
  BY <1>6 DEF WriteTmp
<1>7. CASE SyncTmp
  BY <1>7 DEF SyncTmp
<1>8. CASE CloseTmp
  BY <1>8 DEF CloseTmp
<1>9. CASE Rename
  <2>1. tmp \in Config /\ synced
    BY <1>9 DEF Rename
  <2>2. QED
    BY <1>9, <2>1 DEF Rename
<1>10. CASE SyncDir
  BY <1>10 DEF SyncDir, Settled
<1>11. CASE Swap
  BY <1>11 DEF Swap
<1>12. CASE SaveFails
  BY <1>12 DEF SaveFails, Leftovers
<1>13. CASE ProcessEnds
  BY <1>13 DEF ProcessEnds, Leftovers, Settled
<1>14. CASE PowerLoss
  BY <1>14 DEF PowerLoss, Leftovers
<1>15. CASE UNCHANGED vars
  BY <1>15 DEF vars
<1>16. QED
  BY <1>2, <1>3, <1>4, <1>5, <1>6, <1>7, <1>8, <1>9, <1>10, <1>11, <1>12,
     <1>13, <1>14, <1>15 DEF Next

LEMMA DiskAlways == Spec => []DiskInv
BY DiskInit, DiskStep, PTL DEF Spec

\* Types, whatever the constants are.
THEOREM StoreTypeCorrect == Spec => []TypeOK
<1>1. DiskInv => TypeOK
  BY DEF DiskInv
<1>2. QED
  BY <1>1, DiskAlways, PTL

\* save: however calls fail and wherever the process or the machine stops,
\* also if the file system is slow to write a rename, config.json is whole.
THEOREM FileNeverTorn == Spec => []NeverTorn
<1>1. DiskInv => NeverTorn
  BY DEF DiskInv
<1>2. QED
  BY <1>1, DiskAlways, PTL
-----------------------------------------------------------------------------
LEMMA HistoryInit == Init => HistoryInv
BY DEF Init, HistoryInv, Renamed

\* A rename that is on disk when its save is over keeps the file and the
\* Store in step.
LEMMA HistoryStep ==
    ASSUME LazyDir = FALSE
    PROVE  DiskInv /\ HistoryInv /\ [Next]_vars => HistoryInv'
<1> SUFFICES ASSUME DiskInv, HistoryInv, [Next]_vars
             PROVE  HistoryInv'
  OBVIOUS
<1> USE DEF HistoryInv, Renamed, diskVars
<1>1. ASSUME NEW c, Save(c)
      PROVE  HistoryInv'
  BY <1>1 DEF Save
<1>2. CASE LoadNothing
  BY <1>2, <1>1 DEF LoadNothing
<1>3. CASE LoadFile
  BY <1>3 DEF LoadFile
<1>4. ASSUME NEW poll \in Polls, NEW rest \in Rests, Update(poll, rest)
      PROVE  HistoryInv'
  BY <1>4, <1>1 DEF Update
<1>5. CASE OpenTmp \/ WriteTmp \/ SyncTmp \/ CloseTmp
  BY <1>5 DEF OpenTmp, WriteTmp, SyncTmp, CloseTmp
<1>6. CASE Rename
  <2>1. tmp = draft /\ synced
    BY <1>6 DEF Rename, DiskInv
  <2>2. QED
    BY <1>6, <2>1 DEF Rename
<1>7. CASE SyncDir
  BY <1>7 DEF SyncDir, Settled
<1>8. CASE Swap
  BY <1>8 DEF Swap
<1>9. CASE SaveFails
  BY <1>9 DEF SaveFails
<1>10. CASE ProcessEnds
  BY <1>10 DEF ProcessEnds, Settled
<1>11. CASE PowerLoss
  BY <1>11 DEF PowerLoss
<1>12. CASE UNCHANGED vars
  BY <1>12 DEF vars
<1>13. QED
  BY <1>2, <1>3, <1>4, <1>5, <1>6, <1>7, <1>8, <1>9, <1>10, <1>11, <1>12
     DEF Next

\* Each step of ConfigStore is one of DurableConfig, or changes nothing there:
\* the save takes effect when the Store's pointer is swapped, or when the
\* plugin ends after the rename.
LEMMA StepImplements ==
    ASSUME LazyDir = FALSE
    PROVE  DiskInv /\ HistoryInv /\ [Next]_vars
              => [Durable!StoreNext]_(Durable!storeVars)
<1> SUFFICES ASSUME DiskInv, HistoryInv, [Next]_vars
             PROVE  [Durable!StoreNext]_(Durable!storeVars)
  OBVIOUS
<1> USE DEF Durable!StoreNext, Durable!storeVars
<1>1. step = "idle" => draft = None /\ file = stored
  BY DEF DiskInv, TypeOK, HistoryInv, Renamed
<1>2. step # "idle" => draft # None
  BY DEF DiskInv, TypeOK
<1>3. CASE LoadNothing
  <2>1. PICK i \in FreshIds(lived) : Save(Default(i))
    BY <1>3 DEF LoadNothing
  <2>2. Durable!FirstRun
    BY <1>1, <1>3, <2>1
       DEF LoadNothing, Save, FreshIds, Default,
           Durable!FirstRun, Durable!FreshIds, Durable!Default
  <2>3. QED
    BY <2>2
<1>4. CASE LoadFile
  <2>1. file # Absent
    BY <1>4, SentinelAssumption DEF LoadFile
  <2>2. Durable!Reopen
    BY <1>1, <1>4, <2>1
       DEF LoadFile, FreshIds, Clamp,
           Durable!Reopen, Durable!FreshIds, Durable!Clamp
  <2>3. QED
    BY <2>2
<1>5. ASSUME NEW poll \in Polls, NEW rest \in Rests, Update(poll, rest)
      PROVE  Durable!Request(poll, rest)
  BY <1>1, <1>5
     DEF Update, Save, Valid, Edited,
         Durable!Request, Durable!Valid, Durable!Edited
<1>6. CASE OpenTmp \/ WriteTmp \/ SyncTmp \/ CloseTmp \/ Rename \/ SyncDir
  BY <1>6 DEF OpenTmp, WriteTmp, SyncTmp, CloseTmp, Rename, SyncDir, diskVars
<1>7. CASE Swap
  <2>1. Durable!Commit
    BY <1>2, <1>7 DEF Swap, Durable!Commit
  <2>2. QED
    BY <2>1
<1>8. CASE SaveFails
  <2>1. Durable!Abort
    BY <1>2, <1>8 DEF SaveFails, Durable!Abort
  <2>2. QED
    BY <2>1
<1>9. CASE ProcessEnds
  <2>1. file \in {stored} \cup ({draft} \ {None})
    BY <1>2 DEF HistoryInv, Renamed
  <2>2. Durable!End
    BY <1>2, <1>9, <2>1 DEF ProcessEnds, Durable!End
  <2>3. QED
    BY <2>2
<1>10. CASE PowerLoss
  <2>1. kept \subseteq {stored} \cup ({draft} \ {None})
    BY <1>2 DEF HistoryInv, Renamed
  <2>2. Durable!End
    BY <1>2, <1>10, <2>1 DEF PowerLoss, Durable!End
  <2>3. QED
    BY <2>2
<1>11. CASE UNCHANGED vars
  BY <1>11 DEF vars
<1>12. QED
  BY <1>3, <1>4, <1>5, <1>6, <1>7, <1>8, <1>9, <1>10, <1>11 DEF Next

\* Load, Update and save implement an atomic, durable register: nothing is
\* visible that is not on disk, nothing visible is lost, and a failed update
\* leaves no trace, if a rename is on disk when the save that made it is over.
THEOREM StoreImplementsDurable ==
    ASSUME LazyDir = FALSE
    PROVE  Spec => ImplementsDurable
<1>1. Init => Durable!StoreInit
  BY DEF Init, Durable!StoreInit
<1>2. Spec => []HistoryInv
  BY HistoryInit, HistoryStep, DiskAlways, PTL DEF Spec
<1>3. DiskInv /\ HistoryInv /\ [Next]_vars
         => [Durable!StoreNext]_(Durable!storeVars)
  BY StepImplements
<1>4. QED
  BY <1>1, <1>2, <1>3, DiskAlways, PTL
     DEF Spec, ImplementsDurable, Durable!StoreSpec
-----------------------------------------------------------------------------
\* Once a first configuration is on disk, its instance ID is the only one.
IdInv ==
    /\ stored \in Config \cup {Absent}
    /\ stored = Absent => live = None /\ lived = {}
    /\ stored # Absent =>
         /\ stored.id \in Ids
         /\ lived \subseteq {stored.id}
         /\ live # None => live.id = stored.id
         /\ draft # None => draft.id = stored.id

LEMMA IdStep ==
    ASSUME LazyDir = FALSE
    PROVE  DiskInv /\ HistoryInv /\ IdInv /\ [Next]_vars => IdInv'
<1> SUFFICES ASSUME DiskInv, HistoryInv, IdInv, [Next]_vars
             PROVE  IdInv'
  OBVIOUS
<1> USE SentinelAssumption DEF IdInv
<1>1. step = "idle" => draft = None /\ file = stored
  BY DEF DiskInv, TypeOK, HistoryInv, Renamed
<1>2. step # "idle" => draft \in Config /\ draft.id \in Ids
  BY DEF DiskInv, TypeOK
<1>3. live \in Config \cup {None}
  BY DEF DiskInv, TypeOK
<1>4. CASE LoadNothing
  <2>1. stored = Absent
    BY <1>1, <1>4 DEF LoadNothing, Save
  <2>2. UNCHANGED <<live, stored, lived>>
    BY <1>4 DEF LoadNothing, Save
  <2>3. QED
    BY <2>1, <2>2
<1>5. CASE LoadFile
  <2>1. PICK i \in FreshIds(lived) : live' = Clamp(file, i)
    BY <1>5 DEF LoadFile
  <2>2. stored # Absent /\ file = stored /\ stored \in Config
    BY <1>1, <1>5 DEF LoadFile
  <2>3. live'.id = stored.id
    BY <2>1, <2>2 DEF Clamp, Config
  <2>4. QED
    BY <1>1, <1>5, <2>2, <2>3 DEF LoadFile
<1>6. ASSUME NEW poll \in Polls, NEW rest \in Rests, Update(poll, rest)
      PROVE  IdInv'
  <2>1. draft' = Edited(live, poll, rest) /\ live # None
    BY <1>6 DEF Update, Save
  <2>2. draft'.id = live.id
    BY <1>3, <2>1, ValuesTyped
  <2>3. UNCHANGED <<live, stored, lived>>
    BY <1>6 DEF Update, Save
  <2>4. QED
    BY <2>1, <2>2, <2>3
<1>7. CASE OpenTmp \/ WriteTmp \/ SyncTmp \/ CloseTmp \/ Rename \/ SyncDir
  BY <1>7 DEF OpenTmp, WriteTmp, SyncTmp, CloseTmp, Rename, SyncDir, diskVars
<1>8. CASE Swap
  <2>1. draft \in Config /\ draft.id \in Ids
    BY <1>2, <1>8 DEF Swap
  <2>2. lived \subseteq {draft.id}
    BY <2>1
  <2>3. QED
    BY <1>8, <2>1, <2>2 DEF Swap
<1>9. CASE SaveFails
  BY <1>9 DEF SaveFails
<1>10. CASE ProcessEnds \/ PowerLoss
  <2>1. stored' \in {stored} \cup ({draft} \ {None})
    <3>1. file \in {stored} \cup ({draft} \ {None})
      BY <1>2 DEF HistoryInv, Renamed
    <3>2. kept \subseteq {stored} \cup ({draft} \ {None})
      BY <1>2 DEF HistoryInv, Renamed
    <3>3. QED
      BY <1>10, <3>1, <3>2 DEF ProcessEnds, PowerLoss
  <2>2. live' = None /\ draft' = None /\ lived' = lived
    BY <1>10 DEF ProcessEnds, PowerLoss
  <2>3. CASE stored' = stored
    BY <2>2, <2>3
  <2>4. CASE stored' = draft /\ draft # None
    BY <1>1, <1>2, <2>2, <2>4
  <2>5. QED
    BY <2>1, <2>3, <2>4
<1>11. CASE UNCHANGED vars
  BY <1>11 DEF vars
<1>12. QED
  BY <1>4, <1>5, <1>6, <1>7, <1>8, <1>9, <1>10, <1>11 DEF Next

\* The instance ID survives restarts, crashes and power losses at any point of
\* any save, the very first included, if config.json never lacks one and a
\* rename is on disk when the save that made it is over.
THEOREM InstanceIdStable ==
    ASSUME LazyDir = FALSE,
           \A c \in InitFiles : c = Absent \/ c.id # Blank
    PROVE  Spec => []InstanceStable
<1>1. Init => IdInv
  BY FileAssumption, SentinelAssumption DEF Init, IdInv, Config
<1>2. Spec => []HistoryInv
  BY HistoryInit, HistoryStep, DiskAlways, PTL DEF Spec
<1>3. IdInv => InstanceStable
  BY DEF IdInv, InstanceStable
<1>4. DiskInv /\ HistoryInv /\ IdInv /\ [Next]_vars => IdInv'
  BY IdStep
<1>5. QED
  BY <1>1, <1>2, <1>3, <1>4, DiskAlways, PTL DEF Spec
=============================================================================
