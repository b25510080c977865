----------------------------- MODULE PluginLoop -----------------------------
(***************************************************************************)
(* main.go's runReconcileLoop beside the POST handlers of internal/uiapi:  *)
(* several goroutines that share the config store (DurableConfig, which    *)
(* ConfigStore implements), the ticker and the trigger channel.            *)
(*                                                                         *)
(* What a cycle does is Reconciler's subject; here it only takes time.     *)
(* Left out: GET requests, and POSTs that are refused before or by         *)
(* Validate, as they change nothing.                                       *)
(***************************************************************************)
EXTENDS DurableConfig

CONSTANTS
    Handlers,  \* POST requests that may be served at the same time
    Second,    \* time.Second
    MaxInt,    \* the largest int64
    MaxEnds    \* bound on the ends of the process

ASSUME LoopAssumption ==
    /\ Second \in Nat \ {0}
    /\ MaxInt \in Nat
    /\ MaxEnds \in Nat

VARIABLES
    loop,      \* where the loop's goroutine is
    used,      \* the configuration of its last cycle
    interval,  \* the ticker's interval; 0 while there is no ticker
    tick,      \* the ticker's channel holds a tick
    trigger,   \* the trigger channel, of capacity 1, holds a value
    post,      \* where each handler is
    ends       \* how much of MaxEnds is used up

loopVars == <<loop, used, interval, tick>>
vars == <<storeVars, loopVars, trigger, post, ends>>

\* "panicked": NewTicker or Reset was given an interval that is not positive.
Places == {"off", "ready", "cycle", "reread", "select", "panicked"}

\* time.Duration(seconds) * time.Second, in 64-bit arithmetic.
Duration(seconds) ==
    ((seconds * Second + MaxInt + 1) % (2 * (MaxInt + 1))) - (MaxInt + 1)

Init ==
    /\ StoreInit
    /\ loop = "off" /\ used = None /\ interval = 0 /\ tick = FALSE
    /\ trigger = FALSE
    /\ post = [h \in Handlers |-> "idle"]
    /\ ends = 0

\* Load, up to a configuration that it returns or begins to save.
Start ==
    /\ Reopen \/ FirstRun
    /\ loop' = IF live' = None THEN "off" ELSE "ready"
    /\ UNCHANGED <<used, interval, tick, trigger, post, ends>>

\* Load's save of the first configuration succeeds, or fails and main exits.
FirstSaveDone ==
    /\ live = None
    /\ \/ Commit /\ loop' = "ready"
       \/ Abort /\ loop' = loop
    /\ UNCHANGED <<used, interval, tick, trigger, post, ends>>

PostBegin(h) ==
    /\ post[h] = "idle"
    /\ \E poll \in Polls, rest \in Rests : Request(poll, rest)
    /\ post' = [post EXCEPT ![h] = "saving"]
    /\ UNCHANGED <<loopVars, trigger, ends>>

PostSaved(h) ==
    /\ post[h] = "saving"
    /\ Commit
    /\ post' = [post EXCEPT ![h] = "saved"]
    /\ UNCHANGED <<loopVars, trigger, ends>>

\* Plausible bug: a handler that goes on as if its save had not failed.
PostFailsHolding(h) ==
    /\ post[h] = "saving"
    /\ Abort
    /\ UNCHANGED <<loopVars, trigger, post, ends>>

PostFails(h) ==
    /\ post[h] = "saving"
    /\ Abort
    /\ post' = [post EXCEPT ![h] = "idle"]
    /\ UNCHANGED <<loopVars, trigger, ends>>

\* Plausible bug: a trigger channel without a buffer.
SignalUnbuffered(h) ==
    /\ post[h] = "saved"
    /\ trigger' = (trigger \/ loop = "select")
    /\ post' = [post EXCEPT ![h] = "idle"]
    /\ UNCHANGED <<storeVars, loopVars, ends>>

\* A send that does nothing when the channel is full.
Signal(h) ==
    /\ post[h] = "saved"
    /\ trigger' = TRUE
    /\ post' = [post EXCEPT ![h] = "idle"]
    /\ UNCHANGED <<storeVars, loopVars, ends>>

\* runOnce takes a snapshot, which waits for a save in progress.
BeginCycle ==
    /\ loop = "ready" /\ pending = None
    /\ loop' = "cycle"
    /\ used' = live
    /\ UNCHANGED <<storeVars, interval, tick, trigger, post, ends>>

\* Plausible bug: the trigger is drained after a cycle.
EndCycleDrains ==
    /\ loop = "cycle"
    /\ loop' = "reread"
    /\ trigger' = FALSE
    /\ UNCHANGED <<storeVars, used, interval, tick, post, ends>>

EndCycle ==
    /\ loop = "cycle"
    /\ loop' = "reread"
    /\ UNCHANGED <<storeVars, used, interval, tick, trigger, post, ends>>

\* Plausible bug: the interval is only ever shortened.
RereadShortens ==
    /\ loop = "reread" /\ pending = None
    /\ interval' = IF interval = 0 \/ Duration(live.poll) < interval
                   THEN Duration(live.poll) ELSE interval
    /\ loop' = IF interval' > 0 THEN "select" ELSE "panicked"
    /\ UNCHANGED <<storeVars, used, tick, trigger, post, ends>>

\* NewTicker after the first cycle, Reset after the others.
Reread ==
    /\ loop = "reread" /\ pending = None
    /\ interval' = Duration(live.poll)
    /\ loop' = IF interval' > 0 THEN "select" ELSE "panicked"
    /\ UNCHANGED <<storeVars, used, tick, trigger, post, ends>>

TickerFires ==
    /\ live # None
    /\ interval > 0 /\ ~tick
    /\ tick' = TRUE
    /\ UNCHANGED <<storeVars, loop, used, interval, trigger, post, ends>>

TakeTick ==
    /\ loop = "select" /\ tick
    /\ loop' = "ready"
    /\ tick' = FALSE
    /\ UNCHANGED <<storeVars, used, interval, trigger, post, ends>>

TakeTrigger ==
    /\ loop = "select" /\ trigger
    /\ loop' = "ready"
    /\ trigger' = FALSE
    /\ UNCHANGED <<storeVars, used, interval, tick, post, ends>>

\* SIGTERM, a crash or a panic; Start is the next life.
ProcessEnds ==
    /\ ends < MaxEnds
    /\ End
    /\ loop' = "off" /\ used' = None /\ interval' = 0 /\ tick' = FALSE
    /\ trigger' = FALSE
    /\ post' = [h \in Handlers |-> "idle"]
    /\ ends' = ends + 1

Handle(h) == PostSaved(h) \/ PostFails(h) \/ Signal(h)
Loop == BeginCycle \/ EndCycle \/ Reread \/ TakeTick \/ TakeTrigger

Next ==
    \/ Start \/ FirstSaveDone \/ Loop \/ TickerFires \/ ProcessEnds
    \/ \E h \in Handlers : PostBegin(h) \/ Handle(h)

Spec == Init /\ [][Next]_vars

\* A goroutine that can go on does.  The loop's reads of the configuration wait
\* for the Store's sync.RWMutex, whose Unlock admits the readers that wait, so
\* a stream of updates cannot starve them: hence strong fairness.  Nothing is
\* assumed of the ticker, of the users, or of a start after the process's end.
FairSpec ==
    /\ Spec
    /\ SF_vars(Loop)
    /\ \A h \in Handlers : WF_vars(Handle(h))
-----------------------------------------------------------------------------
\* The types of the variables.  Exactly one handler is saving while a save of
\* a running plugin is in progress, and none while the plugin is not running.
TypeOK ==
    /\ live \in Config \cup {None}
    /\ stored \in Config \cup {Absent}
    /\ pending \in Config \cup {None}
    /\ lived \subseteq Ids
    /\ loop \in Places
    /\ loop = "off" <=> live = None
    /\ used \in Config \cup {None}
    /\ interval \in Int
    /\ tick \in BOOLEAN /\ trigger \in BOOLEAN
    /\ post \in [Handlers -> {"idle", "saving", "saved"}]
    /\ \A h, g \in Handlers : post[h] = "saving" /\ post[g] = "saving" => h = g
    /\ live # None => (pending # None <=> \E h \in Handlers : post[h] = "saving")
    /\ live = None => \A h \in Handlers : post[h] = "idle"
    /\ ends \in 0..MaxEnds

SignalDue == trigger \/ \E h \in Handlers : post[h] = "saved"

\* handleConfig and runReconcileLoop: no wake-up is lost.  If the last cycle
\* did not use the configuration everybody reads, the loop is about to begin
\* one or will be woken without waiting for the ticker.
SavesAreSignalled ==
    live # None /\ used # live => loop = "ready" \/ SignalDue

\* runReconcileLoop: a loop that waits does so with the configured interval,
\* or is about to be woken.
IntervalFresh ==
    loop = "select" => interval = Duration(live.poll) \/ SignalDue

\* runReconcileLoop: NewTicker and Reset panic, and take the whole plugin down,
\* if the interval is not positive.
NeverPanics == loop # "panicked"

\* A saved configuration is used by a cycle, without help of the ticker,
\* unless it is replaced or the plugin ends first.
EverySaveUsed == \A c \in Config : live = c ~> used = c \/ live # c
=============================================================================
