-------------------------- MODULE PluginLoopProofs --------------------------
(***************************************************************************)
(* Theorems about PluginLoop: no saved configuration waits for the ticker. *)
(***************************************************************************)
EXTENDS PluginLoop, TLAPS

\* TypeOK, and instance IDs that are never blank in a running plugin.
Typed ==
    /\ TypeOK
    /\ live # None => live.id \in Ids
    /\ pending # None => pending.id \in Ids

LEMMA StoreValuesTyped ==
    /\ FreshIds(lived) \subseteq Ids
    /\ \A i \in Ids : Default(i) \in Config /\ Default(i).id \in Ids
    /\ \A c \in Config, i \in Ids :
          Clamp(c, i) \in Config /\ Clamp(c, i).id \in Ids
    /\ \A c \in Config, poll \in Polls, rest \in Rests :
          Edited(c, poll, rest) \in Config /\ Edited(c, poll, rest).id = c.id
<1>1. FreshIds(lived) \subseteq Ids
  BY DEF FreshIds
<1>2. \A i \in Ids : Default(i) \in Config /\ Default(i).id \in Ids
  BY PollAssumption, RestAssumption DEF Default, Config
<1>3. \A c \in Config, i \in Ids :
         Clamp(c, i) \in Config /\ Clamp(c, i).id \in Ids
  BY PollAssumption DEF Clamp, Config
<1>4. \A c \in Config, poll \in Polls, rest \in Rests :
         Edited(c, poll, rest) \in Config /\ Edited(c, poll, rest).id = c.id
  BY DEF Edited, Config
<1>5. QED
  BY <1>1, <1>2, <1>3, <1>4

LEMMA DurationTyped == \A n \in Int : Duration(n) \in Int
BY LoopAssumption DEF Duration

LEMMA TypedInit == Init => Typed
<1> SUFFICES ASSUME Init
             PROVE  Typed
  OBVIOUS
<1>1. stored \in Config \cup {Absent}
  BY FileAssumption DEF Init, StoreInit
<1>2. /\ post \in [Handlers -> {"idle", "saving", "saved"}]
      /\ \A h \in Handlers : post[h] = "idle"
  BY DEF Init
<1>3. ends \in 0..MaxEnds
  BY LoopAssumption DEF Init
<1>4. /\ live = None /\ pending = None /\ lived = {}
      /\ loop = "off" /\ used = None /\ interval = 0
  BY DEF Init, StoreInit
<1>5. tick \in BOOLEAN /\ trigger \in BOOLEAN
  BY DEF Init
<1>6. QED
  BY <1>1, <1>2, <1>3, <1>4, <1>5 DEF Typed, TypeOK, Places

\* What the Store's actions leave, whoever takes them.
LEMMA StoreStep ==
    ASSUME Typed
    PROVE  /\ FirstRun => pending' \in Config /\ pending'.id \in Ids
           /\ Reopen => live' \in Config /\ live'.id \in Ids /\ lived' \subseteq Ids
           /\ Commit => live' \in Config /\ live'.id \in Ids /\ lived' \subseteq Ids
           /\ \A poll \in Polls, rest \in Rests : Request(poll, rest) =>
                pending' \in Config /\ pending'.id \in Ids
<1> USE SentinelAssumption, StoreValuesTyped DEF Typed, TypeOK
<1>1. FirstRun => pending' \in Config /\ pending'.id \in Ids
  BY DEF FirstRun
<1>2. ASSUME Reopen
      PROVE  live' \in Config /\ live'.id \in Ids /\ lived' \subseteq Ids
  <2>1. PICK i \in FreshIds(lived) : live' = Clamp(stored, i)
    BY <1>2 DEF Reopen
  <2>2. stored \in Config
    BY <1>2 DEF Reopen
  <2>3. QED
    BY <1>2, <2>1, <2>2 DEF Reopen
<1>3. Commit => live' \in Config /\ live'.id \in Ids /\ lived' \subseteq Ids
  BY DEF Commit
<1>4. ASSUME NEW poll \in Polls, NEW rest \in Rests, Request(poll, rest)
      PROVE  pending' \in Config /\ pending'.id \in Ids
  BY <1>4 DEF Request
<1>5. QED
  BY <1>1, <1>2, <1>3, <1>4

LEMMA TypedStep == Typed /\ [Next]_vars => Typed'
<1> SUFFICES ASSUME Typed, [Next]_vars
             PROVE  Typed'
  OBVIOUS
<1> USE SentinelAssumption, LoopAssumption
    DEF Typed, TypeOK, Places, storeVars, loopVars
<1>1. CASE Start
  <2>1. CASE Reopen
    <3>1. live' \in Config /\ live'.id \in Ids /\ lived' \subseteq Ids
      BY <2>1, StoreStep
    <3>2. loop' = "ready" /\ pending' = None /\ stored' = stored
      BY <1>1, <2>1, <3>1 DEF Start, Reopen
    <3>3. UNCHANGED <<used, interval, tick, trigger, post, ends>>
      BY <1>1 DEF Start
    <3>4. \A h \in Handlers : post[h] = "idle"
      BY <2>1 DEF Reopen
    <3>5. QED
      BY <3>1, <3>2, <3>3, <3>4
  <2>2. CASE FirstRun
    <3>1. pending' \in Config /\ pending'.id \in Ids
      BY <2>2, StoreStep
    <3>2. live = None /\ loop' = "off" /\ UNCHANGED <<live, stored, lived>>
      BY <1>1, <2>2 DEF Start, FirstRun
    <3>3. UNCHANGED <<used, interval, tick, trigger, post, ends>>
      BY <1>1 DEF Start
    <3>4. QED
      BY <3>1, <3>2, <3>3
  <2>3. QED
    BY <1>1, <2>1, <2>2 DEF Start
<1>2. CASE FirstSaveDone
  <2>1. /\ live = None /\ \A h \in Handlers : post[h] = "idle"
        /\ UNCHANGED <<used, interval, tick, trigger, post, ends>>
    BY <1>2 DEF FirstSaveDone
  <2>2. CASE Commit /\ loop' = "ready"
    <3>1. live' \in Config /\ live'.id \in Ids /\ lived' \subseteq Ids
      BY <2>2, StoreStep
    <3>2. stored' \in Config /\ pending' = None
      BY <2>2 DEF Commit
    <3>3. QED
      BY <2>1, <2>2, <3>1, <3>2
  <2>3. CASE Abort /\ loop' = loop
    <3>1. pending' = None /\ UNCHANGED <<live, stored, lived>>
      BY <2>3 DEF Abort
    <3>2. QED
      BY <2>1, <2>3, <3>1
  <2>4. QED
    BY <1>2, <2>2, <2>3 DEF FirstSaveDone
<1>3. ASSUME NEW h \in Handlers, PostBegin(h)
      PROVE  Typed'
  <2>1. PICK poll \in Polls, rest \in Rests : Request(poll, rest)
    BY <1>3 DEF PostBegin
  <2>2. \A g \in Handlers : post[g] # "saving"
    BY <2>1 DEF Request
  <2>3. post' = [post EXCEPT ![h] = "saving"]
    BY <1>3 DEF PostBegin
  <2>4. QED
    BY <1>3, <2>1, <2>2, <2>3, StoreStep DEF PostBegin, Request
<1>4. ASSUME NEW h \in Handlers, PostSaved(h)
      PROVE  Typed'
  BY <1>4, StoreStep DEF PostSaved, Commit
<1>5. ASSUME NEW h \in Handlers, PostFails(h)
      PROVE  Typed'
  BY <1>5 DEF PostFails, Abort
<1>6. ASSUME NEW h \in Handlers, Signal(h)
      PROVE  Typed'
  BY <1>6 DEF Signal
<1>7. CASE BeginCycle
  BY <1>7 DEF BeginCycle
<1>8. CASE EndCycle
  BY <1>8 DEF EndCycle
<1>9. CASE Reread
  <2>1. live \in Config
    BY <1>9 DEF Reread
  <2>2. Duration(live.poll) \in Int
    BY <2>1, PollAssumption, DurationTyped DEF Config
  <2>3. QED
    BY <1>9, <2>2 DEF Reread
<1>10. CASE TickerFires
  BY <1>10 DEF TickerFires
<1>11. CASE TakeTick
  BY <1>11 DEF TakeTick
<1>12. CASE TakeTrigger
  BY <1>12 DEF TakeTrigger
<1>13. CASE ProcessEnds
  <2>1. stored' \in Config \cup {Absent}
    BY <1>13 DEF ProcessEnds, End
  <2>2. /\ post' \in [Handlers -> {"idle", "saving", "saved"}]
        /\ \A h \in Handlers : post'[h] = "idle"
    BY <1>13 DEF ProcessEnds
  <2>3. ends' \in 0..MaxEnds
    BY <1>13 DEF ProcessEnds
  <2>4. /\ live' = None /\ pending' = None /\ lived' = lived
        /\ loop' = "off" /\ used' = None /\ interval' = 0
    BY <1>13 DEF ProcessEnds, End
  <2>5. tick' \in BOOLEAN /\ trigger' \in BOOLEAN
    BY <1>13 DEF ProcessEnds
  <2>6. QED
    BY <2>1, <2>2, <2>3, <2>4, <2>5
<1>14. CASE UNCHANGED vars
  BY <1>14 DEF vars
<1>15. QED
  BY <1>1, <1>2, <1>3, <1>4, <1>5, <1>6, <1>7, <1>8, <1>9, <1>10, <1>11,
     <1>12, <1>13, <1>14 DEF Next, Loop, Handle

LEMMA TypedAlways == Spec => []Typed
BY TypedInit, TypedStep, PTL DEF Spec

\* Types, whatever the constants are; the mutex is held by one handler.
THEOREM LoopTypeCorrect == Spec => []TypeOK
<1>1. Typed => TypeOK
  BY DEF Typed
<1>2. QED
  BY <1>1, TypedAlways, PTL
-----------------------------------------------------------------------------
\* Every new configuration comes with a handler that will signal; a signal is
\* consumed only by a loop that goes on to a cycle, and by that time the
\* configuration is visible.
LEMMA SignalStep ==
    Typed /\ SavesAreSignalled /\ [Next]_vars => SavesAreSignalled'
<1> SUFFICES ASSUME Typed, SavesAreSignalled, [Next]_vars
             PROVE  SavesAreSignalled'
  OBVIOUS
<1> USE DEF SavesAreSignalled, SignalDue, Typed, TypeOK, storeVars, loopVars
<1>1. CASE Start
  BY <1>1 DEF Start, Reopen, FirstRun
<1>2. CASE FirstSaveDone
  BY <1>2 DEF FirstSaveDone, Commit, Abort
<1>3. ASSUME NEW h \in Handlers, PostBegin(h)
      PROVE  SavesAreSignalled'
  <2>1. UNCHANGED <<live, used, loop, trigger>>
    BY <1>3 DEF PostBegin, Request
  <2>2. \A g \in Handlers : post[g] = "saved" => post'[g] = "saved"
    BY <1>3 DEF PostBegin
  <2>3. QED
    BY <2>1, <2>2
<1>4. ASSUME NEW h \in Handlers, PostSaved(h)
      PROVE  SavesAreSignalled'
  BY <1>4 DEF PostSaved
<1>5. ASSUME NEW h \in Handlers, PostFails(h)
      PROVE  SavesAreSignalled'
  <2>1. UNCHANGED <<live, used, loop, trigger>>
    BY <1>5 DEF PostFails, Abort
  <2>2. \A g \in Handlers : post[g] = "saved" => post'[g] = "saved"
    BY <1>5 DEF PostFails
  <2>3. QED
    BY <2>1, <2>2
<1>6. ASSUME NEW h \in Handlers, Signal(h)
      PROVE  SavesAreSignalled'
  BY <1>6 DEF Signal
<1>7. CASE Loop
  BY <1>7 DEF Loop, BeginCycle, EndCycle, Reread, TakeTick, TakeTrigger
<1>8. CASE TickerFires
  BY <1>8 DEF TickerFires
<1>9. CASE ProcessEnds
  BY <1>9 DEF ProcessEnds, End
<1>10. CASE UNCHANGED vars
  BY <1>10 DEF vars
<1>11. QED
  BY <1>1, <1>2, <1>3, <1>4, <1>5, <1>6, <1>7, <1>8, <1>9, <1>10
     DEF Next, Handle

\* No wake-up is lost, with any number of handlers and any configurations.
THEOREM NoLostWakeup == Spec => []SavesAreSignalled
<1>1. Init => SavesAreSignalled
  BY DEF Init, StoreInit, SavesAreSignalled
<1>2. QED
  BY <1>1, SignalStep, TypedAlways, PTL DEF Spec

LEMMA IntervalStep ==
    Typed /\ IntervalFresh /\ [Next]_vars => IntervalFresh'
<1> SUFFICES ASSUME Typed, IntervalFresh, [Next]_vars
             PROVE  IntervalFresh'
  OBVIOUS
<1> USE DEF IntervalFresh, SignalDue, Typed, TypeOK, storeVars, loopVars
<1>1. CASE Start
  BY <1>1 DEF Start, Reopen, FirstRun
<1>2. CASE FirstSaveDone
  BY <1>2 DEF FirstSaveDone, Commit, Abort
<1>3. ASSUME NEW h \in Handlers, PostBegin(h)
      PROVE  IntervalFresh'
  <2>1. UNCHANGED <<live, interval, loop, trigger>>
    BY <1>3 DEF PostBegin, Request
  <2>2. \A g \in Handlers : post[g] = "saved" => post'[g] = "saved"
    BY <1>3 DEF PostBegin
  <2>3. QED
    BY <2>1, <2>2
<1>4. ASSUME NEW h \in Handlers, PostSaved(h)
      PROVE  IntervalFresh'
  BY <1>4 DEF PostSaved
<1>5. ASSUME NEW h \in Handlers, PostFails(h)
      PROVE  IntervalFresh'
  <2>1. UNCHANGED <<live, interval, loop, trigger>>
    BY <1>5 DEF PostFails, Abort
  <2>2. \A g \in Handlers : post[g] = "saved" => post'[g] = "saved"
    BY <1>5 DEF PostFails
  <2>3. QED
    BY <2>1, <2>2
<1>6. ASSUME NEW h \in Handlers, Signal(h)
      PROVE  IntervalFresh'
  BY <1>6 DEF Signal
<1>7. CASE Reread
  <2>1. interval' = Duration(live.poll) /\ live' = live
    BY <1>7 DEF Reread
  <2>2. Duration(live.poll)' = Duration(live'.poll)
    BY DEF Duration
  <2>3. QED
    BY <2>1, <2>2
<1>8. CASE BeginCycle \/ EndCycle \/ TakeTick \/ TakeTrigger
  BY <1>8 DEF BeginCycle, EndCycle, TakeTick, TakeTrigger
<1>9. CASE TickerFires
  BY <1>9 DEF TickerFires
<1>10. CASE ProcessEnds
  BY <1>10 DEF ProcessEnds, End
<1>11. CASE UNCHANGED vars
  BY <1>11 DEF vars
<1>12. QED
  BY <1>1, <1>2, <1>3, <1>4, <1>5, <1>6, <1>7, <1>8, <1>9, <1>10, <1>11
     DEF Next, Loop, Handle

\* A waiting loop waits for the configured time or is about to be woken.
THEOREM IntervalAlwaysFresh == Spec => []IntervalFresh
<1>1. Init => IntervalFresh
  BY DEF Init, StoreInit, IntervalFresh
<1>2. QED
  BY <1>1, IntervalStep, TypedAlways, PTL DEF Spec
-----------------------------------------------------------------------------
\* Validate and clampDefaults let no interval below MinPoll into a running
\* plugin; that none is too long is an assumption, which finding_panic breaks.
NoOverflow == MinPoll > 0 /\ \A n \in Polls : n * Second <= MaxInt

Bounded ==
    /\ live # None => live.poll >= MinPoll
    /\ pending # None => pending.poll >= MinPoll
    /\ loop # "panicked"

LEMMA SmallRemainder ==
    ASSUME NEW a \in Nat, NEW b \in Nat, a < b
    PROVE  a % b = a
OBVIOUS

LEMMA DurationExact ==
    ASSUME NoOverflow, NEW n \in Polls, n >= MinPoll
    PROVE  Duration(n) > 0
<1> DEFINE m == n * Second
<1>1. n \in Int /\ n > 0 /\ Second \in Int /\ Second > 0
  BY PollAssumption, LoopAssumption DEF NoOverflow
<1>2. m \in Nat /\ m > 0
  BY <1>1
<1>3. m <= MaxInt
  BY DEF NoOverflow
<1> HIDE DEF m
<1>4. /\ m + MaxInt + 1 \in Nat /\ 2 * (MaxInt + 1) \in Nat
      /\ m + MaxInt + 1 < 2 * (MaxInt + 1)
  BY <1>2, <1>3, LoopAssumption
<1>5. (m + MaxInt + 1) % (2 * (MaxInt + 1)) = m + MaxInt + 1
  BY <1>4, SmallRemainder
<1>6. Duration(n) = ((m + MaxInt + 1) % (2 * (MaxInt + 1))) - (MaxInt + 1)
  BY DEF Duration, m
<1>7. QED
  BY <1>2, <1>5, <1>6, LoopAssumption

LEMMA BoundedStep ==
    ASSUME NoOverflow, Typed, Bounded, [Next]_vars
    PROVE  Bounded'
<1> USE DEF Bounded, Typed, TypeOK, storeVars, loopVars
<1>1. ASSUME FirstRun
      PROVE  pending'.poll >= MinPoll
  BY <1>1, PollAssumption DEF FirstRun, Default
<1>2. ASSUME Reopen
      PROVE  live'.poll >= MinPoll
  <2>1. stored \in Config /\ \E i : live' = Clamp(stored, i)
    BY <1>2 DEF Reopen
  <2>2. QED
    BY <2>1, PollAssumption DEF Clamp, Config
<1>3. CASE Start
  BY <1>1, <1>2, <1>3 DEF Start, Reopen, FirstRun
<1>4. CASE FirstSaveDone
  BY <1>4 DEF FirstSaveDone, Commit, Abort
<1>5. ASSUME NEW h \in Handlers, PostBegin(h)
      PROVE  Bounded'
  BY <1>5 DEF PostBegin, Request, Valid
<1>6. ASSUME NEW h \in Handlers, Handle(h)
      PROVE  Bounded'
  BY <1>6 DEF Handle, PostSaved, PostFails, Signal, Commit, Abort
<1>7. CASE Reread
  <2>1. live \in Config /\ live.poll >= MinPoll
    BY <1>7 DEF Reread
  <2>2. Duration(live.poll) > 0
    BY <2>1, DurationExact DEF Config
  <2>3. QED
    BY <1>7, <2>2 DEF Reread
<1>8. CASE BeginCycle \/ EndCycle \/ TakeTick \/ TakeTrigger
  BY <1>8 DEF BeginCycle, EndCycle, TakeTick, TakeTrigger
<1>9. CASE TickerFires
  BY <1>9 DEF TickerFires
<1>10. CASE ProcessEnds
  BY <1>10 DEF ProcessEnds, End
<1>11. CASE UNCHANGED vars
  BY <1>11 DEF vars
<1>12. QED
  BY <1>3, <1>4, <1>5, <1>6, <1>7, <1>8, <1>9, <1>10, <1>11 DEF Next, Loop

\* runReconcileLoop: the ticker is never given an interval it panics at, whatever
\* a file held and whatever was posted, if every interval fits 64 bits.
THEOREM TickerNeverPanics ==
    ASSUME NoOverflow
    PROVE  Spec => []NeverPanics
<1>1. Init => Bounded
  BY DEF Init, StoreInit, Bounded
<1>2. Typed /\ Bounded /\ [Next]_vars => Bounded'
  BY BoundedStep
<1>3. Bounded => NeverPanics
  BY DEF Bounded, NeverPanics
<1>4. QED
  BY <1>1, <1>2, <1>3, TypedAlways, PTL DEF Spec
=============================================================================
