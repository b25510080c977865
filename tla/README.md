# zoraxy-technitium-sync: TLA+ models and proofs

The plugin keeps DNS records in a Technitium zone in sync with the enabled
proxy host rules of a Zoraxy reverse proxy. It is one process that polls, acts
through an HTTP API one request at a time, keeps almost no state of its own and
shares the zone with people and programs that edit it too. Hence what is hard
about it: a cycle acts on a snapshot that may be stale, any request may be lost
or carried out without an answer, the process may end between two requests, and
ownership is only a TXT record in the same zone.

This directory holds the models of that behaviour, the TLC runs that check
them on small instances and the TLAPS proofs of what holds on every instance.

## Inventory

| part | source | state it keeps | operations | interacts with |
|---|---|---|---|---|
| reconciler | `internal/reconciler/reconciler.go` | `lastGoodHostCount`; per cycle: options, desired hosts, zone snapshot, result | `Reconcile` | zoraxy client, technitium client |
| technitium client | `internal/technitium/client.go` | none between calls | `GetZoneState`, `CreateHost`, `CreateHTTPS`, `UpdateHTTPS`, `DeleteHTTPSOnly`, `UpdateA`, `CreateAAAA`, `UpdateAAAA`, `DeleteAAAAOnly`, `DeleteHost`, each one to five HTTP requests | Technitium |
| zoraxy client | `internal/zoraxyclient/client.go` | none | `ListDesiredHosts`: the rules, and the hostnames derived from them | Zoraxy |
| main loop | `main.go` | the ticker, the capacity-1 `trigger` channel, the only `Reconciler` | `runReconcileLoop`, `runOnce`, the signal handler | config and status stores, reconciler |
| config store | `internal/config/config.go` | the live config, `config.json`, its temporary file | `Load`, `Snapshot`, `Update` (validate, save, swap) | UI API, main loop, disk |
| status store | `internal/status/status.go` | the last cycle's result | `Set`, `Get` | main loop, UI API |
| UI API | `internal/uiapi/uiapi.go` | none | `handleConfig`, `handleStatus` | stores, `trigger` |
| svcparam | `internal/svcparam/svcparam.go` | none | canonical form, validation, encoding of HTTPS params | reconciler, client, config |
| IPv6 detection | `internal/config/detect_ipv6_*.go` | none | pick a stable address of the box | config |
| web panel, licence, version | `www/index.html`, `license.go`, `version.go` | none | presentation | UI API |
| Technitium, Zoraxy | external | the zone; the rules | HTTP APIs | the two clients |

What makes each of them correct:

* **reconciler and client**: never write at a host outside our marker, never
  adopt or change what somebody else made, never orphan what we made, however a
  cycle is cut short; delete only in cycles the circuit breaker allows; find
  every HTTPS record by the params it has now; report success only when the
  work is done; and reach the wanted state once nobody interferes.
* **main loop**: a saved configuration is used by a cycle that starts after
  the save (no lost wake-up), one cycle at a time, one reconciler for life.
* **config store**: what a reader sees is valid and on disk; a crash at any
  point of a save leaves the old or the new file; the instance ID never changes.
* **svcparam**: a record is rewritten when what it means changes, and only then.
* **IPv6 detection**: the address written to the first configuration is one that
  the host keeps; it is never detected again.

## Modules

| module | models | of |
|---|---|---|
| `DnsZone` | external: the zone as a set of records, what a request does to it, Automatic Hints | Technitium, as `client.go` uses it |
| `TechnitiumClient` | each method as the sequence of its requests; what the snapshot groups under a host | `client.go` |
| `Ownership` | abstract: hosts are claimed, written at and given up, one request at a time | what the markers of `client.go` promise |
| `Reconciler` | the cycle: `runOnce`, `Reconcile`, each request and its outcomes; the administrator, Zoraxy's rules, saved configurations, crashes | `reconciler.go`, `main.go`, `client.go` |
| `TwoInstances` | two `Reconciler`s, with hosts that move between them | two plugins in one zone |
| `SvcParam` | normalization, validation, comparison and encoding of HTTPS params, as operators | `svcparam.go`, `config.go`, `reconciler.go` |
| `HttpsRecord` | one HTTPS record between user, plugin and server, by the text of its params | `svcparam.go`, `client.go`, `reconciler.go` |
| `StableIPv6` | the choice of the IPv6 target, and a kernel that adds and drops privacy addresses | `detect_ipv6_linux.go` |
| `MCReconciler`, `MCTwoInstances`, `MCHttpsRecord`, `MCInputs` | instances for TLC | |
| `ReconcilerProofs`, `OwnershipProofs`, `SyncProofs` | theorems about `Reconciler`, each module on top of the one before | |
| `TwoInstancesProofs` | the theorem about `TwoInstances` | |
| `StableIPv6Proofs` | theorems about `StableIPv6` | |
| `HttpsRecordProofs` | theorems about `HttpsRecord`, and lemmas about `SvcParam` | |
| `ConfigValues` | configurations: what is valid, the first one, what a load repairs | `config.go`, `uiapi.go` |
| `DurableConfig` | abstract: the config store as one atomic, durable value | what `config.go` promises |
| `ConfigStore` | `Load`, `Update` and `save`, one action per system call, over a file system with failures, crashes and power losses | `config.go` |
| `PluginLoop` | the loop, its ticker and trigger, beside concurrent POST handlers | `main.go`, `uiapi.go` |
| `MCConfigStore`, `MCPluginLoop` | instances for TLC | |
| `ConfigStoreProofs`, `PluginLoopProofs` | theorems and proofs | |

`Reconciler` EXTENDS `TechnitiumClient`, which EXTENDS `DnsZone`. The two lower
modules have no variables: they say what the requests are and do, and every
step of the system is an action of `Reconciler`. `Reconciler` implements `Ownership`
(`Owned`, checked and proved): the refinement mapping forgets cycles, snapshots, plans and
failures, and keeps the marked hosts, the plugin's records and everybody else's.

`TwoInstances` instantiates `Reconciler` twice, with a zone, its hints and the
bounds shared and everything else apart. `HttpsRecord` EXTENDS `SvcParam`; it
opens up what the other two take to be one value, the spec of an HTTPS record.
`MCInputs` runs it beside `StableIPv6`: the two share nothing, each behaviour
is one of either, and the state space is the sum of both.

`DurableConfig` joins the config store and the loop: `ConfigStore` implements it (an INSTANCE
with `pending <- draft`, checked and proved), and `PluginLoop` EXTENDS it, so
that its handlers and its loop share a store without the details of a save.
`PluginLoop` in turn treats a cycle as time passing, and `Reconciler` takes a
saved configuration to be one step: each leaves the other's subject alone.

### How state and actions correspond to the code

* `zone`, `hints` are the server's: records as `[host, type, data]`, and the
  hint params of each HTTPS record, which are part of what identifies it when it
  is updated or deleted. A marker is a `TXT` record of the host whose text is an
  instance (`Self` is ours); its name `_ztsync.<host>` is left implicit.
* `rules` are Zoraxy's proxy host rules, with their names perhaps misspelled;
  `DeriveDesiredHostnames` is what a poll makes of them. `config` is what
  the store holds; `opts` is the copy `runOnce` makes of it.
* `phase` says where `Reconcile` is: `list`, `read`, `ensure` (the loop over
  desired hosts), `remove` (the loop over owned hosts), `report` (back in
  `runOnce`). `todo` holds the hosts the loop has not visited, in no order, as
  Go's map iteration has none.
* `calls` are the `DNSStore` calls left for the current host. They are planned
  when the host is begun: the code decides all of them from the snapshot alone,
  and goes on to the next call when one fails. `reqs` are the HTTP requests
  left of the current call; a failed one ends the call.
* A request ends as `Answered` (the server carries it out), `Refused` (no marker
  of ours: `ErrNotOwned`; or no such record), `Lost` (an error, carried out or
  not, possibly because the cycle's 25 s context ended) or, after that, `NotSent`.
* `late` holds requests without an answer that the server has yet to carry out:
  `CarriedOutLate` does so, among the requests of this cycle or of a later one.
* `Crash` ends the process anywhere, perhaps with a request on its way, and
  starts it again; everything in memory is gone, `lastGoodHostCount` included.
* Which record of an RRset comes first is the server's choice: `EnsureHost` and
  `RemoveHost` take any. Each list's first element is used at one place only.
* `made`, `previous` are history variables: which records in the zone the
  plugin wrote, and which hosts the previous good poll of this life returned.
  `desired` is kept after the cycle for the same reason.

For the config store and the loop:

* `live` is `Store.cfg`; `pending` (`draft` in `ConfigStore`) is the
  configuration being saved and stands for the held mutex: an update and a
  snapshot both wait until there is none. Refused and GET requests change
  nothing and are not actions.
* `step` says which system call of `save` is next. `SaveFails` is any of them
  returning an error, with what is left of the temporary file. `Swap` is the end
  of `Update`, and of a first `Load`.
* `kept` is what the name `config.json` may stand for after a power loss: every
  file it was renamed to since the directory reached the disk, and garbage if
  that file was not synced. `stored` and `lived` are history variables.
* A configuration has three fields: the instance ID, the poll interval, and the
  `rest` of the settings, which is valid or not. A blank token in a payload keeps
  the stored one, which is one of the values `rest` may turn to.
* `loop` is where `runReconcileLoop` stands; `used` is the configuration of its
  last cycle. `trigger` and `tick` are the two channels, each with room for one
  value. `post` is where each handler stands: between `saved` and `idle` it
  sends its signal. `panicked` is the panic of `NewTicker` or `Reset`.
* `Duration` is the product in 64 bits: `MaxInt` and `Second` are constants, small
  ones in the runs.

For HTTPS params and the IPv6 target:

* Text is abstracted to what normalization tells apart: a key, a target or an
  entry of a value is the thing it stands for and whether it is spelled plainly.
  A value is the sequence of what its commas separate, blank entries included.
* `saved` is the HTTPS part of the configuration, `record` what the server
  holds, with each param's meaning; `fresh` and `wrote` are history. A cycle is
  one step here, as the record is one request per cycle. `Parsed` is what
  the client makes of the server's answer, in whatever spelling it is given.
* `file` is `/proc/net/if_inet6`, `lan` the target in the configuration. Whether
  an address is a privacy address is known to the model only: the code must not
  look at it, and the kernel may leave the flag away, as the source observed.

External assumptions about the server, in `DnsZone` and `HttpsRecord`: an update or delete of a record that is
not there is refused; adding a record that is there is the error the client
calls benign (a server that refuses an addition for another reason is a request that
was lost and not carried out); a blank HTTPS target stands for the record's own name (repository
`README.md:99`; the comment at `config.go:55` says zone root); hints are resolved
again when the record is written, or an address of its target name is mutated
with `updateSvcbHints=true`, which each of the six address requests sets for itself
(`UpdateSvcbHints`); automatic hints replace what was sent for
their keys, in service mode only (repository `README.md:98,107-110`); a list of params is stored by meaning (ALPN and addresses keep their
order, `mandatory` has none, `dohpath` is verbatim) and reported under the
canonical key names.

## Runs

Every instance is small because the hazards are about order, not about size:
two hosts show every interaction between hosts, two addresses an update, one lost request or crash every place a cycle
can be cut and two a cut repair; three edits suffice to list a host, change the
configuration and unlist it, or to interfere once and change twice. `Init`
ranges over all rule sets and configurations. What depends on numbers, such as
the breaker's half, is also proved for any number of hosts.

| run | instance | shows |
|---|---|---|
| `ownership` | two hosts, all record types, an administrator between cycles, 3 edits, 2 faults | `OwnRecordsMarked`, `ForeignUntouched`, `NeverAdopts`, `SuccessMeansSynced`, `BreakerHolds`, `ImplementsOwnership`, `TypeOK` |
| `races` | one host; zone empty, foreign or ours; an administrator between calls who also removes our marker | `WriteUnderMarker` (by the client's own check), `ForeignHostLeftAlone` |
| `https` | two hosts, two specs with automatic hints, records of an earlier life, addresses deleted behind our back, also without hints being resolved, 3 edits, 1 fault | `HTTPSIdentityFresh`, `HintsCurrent` |
| `converge` | two hosts, rules with aliases, misspelled and switched off, all record types, one fault, late requests, fairness | `Converges` |
| `two` | two plugins, one host that moves between them (three switches off or on), different targets, one fault, fairness | `NothingOrphaned`, `HandsOver` |
| `inputs` | params of every key in several spellings, valid and not, with automatic hints on and off; up to four lines of `/proc/net/if_inet6`, stable, tentative, unparsable and private, in any order | `Arrives`, `Settles`, `TargetLasts`, `RotationHarmless`, `PicksTheBest` |
| `store` | three IDs, three intervals, valid and invalid settings; no file, a whole one, one out of range | `NeverTorn`, `InstanceStable`, `ImplementsDurable`, `TypeOK` |
| `loop` | two POSTs at a time, one end of the process, intervals in and out of range, fairness | `SavesAreSignalled`, `IntervalFresh`, `NeverPanics`, `EverySaveUsed`, `TypeOK` |

The bounds `MaxEdits` and `MaxFaults` limit what the environment does over a
whole behaviour; the plugin's own steps are not bounded. In the config runs
crashes and updates are not bounded either; only `MaxEnds` bounds the lives in
`loop`, whose start and first cycle are the same in each. Two handlers are
enough there: they meet only at the mutex and at a channel that holds one value.
Three instance IDs are one more than a violation of `InstanceStable` needs.

**Fairness.** `FairSpec` adds weak fairness of the plugin's steps taken together.
The loop's goroutine has no exit, its ticker fires again after every cycle, and
every request ends by an answer or by the 15 s client or 25 s cycle timeout, so
some step always follows. Nothing is assumed of the environment, and no single
outcome is favoured: requests stop being lost because `MaxFaults` is finite.
`TwoInstances` has that fairness for each plugin, as they are two processes.

In `PluginLoop`, weak fairness of each handler is the Go scheduler's; the loop has
strong fairness because its snapshots wait for a `sync.RWMutex`, whose `Unlock`
admits waiting readers before the next writer. The ticker is not fair: that
saves are used does not depend on it. Nor must users ever stop saving.

**Where the properties need assumptions.** `ownership`'s administrator acts
between cycles and adds nothing at hosts we marked; `races`' acts between two calls
and leaves the two requests of one call alone. The code looks before it
writes, in another request. `finding_two` shows what becomes of a record added between
the zone read and `CreateHost`, when another plugin adds it; with `AdminWhen = "always"`
TLC finds the same for a person's record (`ForeignUntouched`) and, if our
markers are among `AdminDeletes`, a write whose marker went after `checkOwnership`
(`WriteUnderMarker`, against repository `README.md:32-34`). Technitium has no conditional
write, so all are limits of the design. One IPv6 target is used in `ownership`;
`finding_orphan` shows two.
No request comes late except in `converge`, and there ("steady") it comes while it is
still what the rules and the configuration ask for. With `LateRequests = "any"`, TLC
finds an A record that is added late, after its host was deleted and the marker with it
(against `OwnRecordsMarked`); nothing in the protocol could tell it from a new one.
`BreakerHolds` compares with the last good poll, as the code does, also when that
cycle's zone read failed; the tests want the breaker to clear after two polls, and
nothing says whether such a poll counts.
`two` switches a host off in one Zoraxy before it is on in the other, without
waiting for a cycle; each plugin has one A-only configuration. With `aaaa`
in both and an `ip6` each, three switches and no fault, TLC finds an orphan, against
`NothingOrphaned` and repository `README.md:16-17`: both create the host at the same
time; one makes a single A record of the two; the other is told to leave and takes
it, the first AAAA record and its own marker; now the one that stays sees no A record, and
`CreateHost` (`reconciler.go:228-240`) adds its AAAA record beside the one that is
left; when it has to leave, too, it deletes only one of the two. That is
`finding_orphan` without a failure or a new target.
HTTPS specs target their own name in `https`; `finding_hints` shows another host.
So `deleteA`, which comes after the host's own HTTPS record is gone, matters to
`HintsCurrent` in the theorem only, where specs may target any host; TLC finds any of the
other five that forgets the parameter. `HintsCurrent` asks a cycle for no more than it can see:
hints of addresses that somebody deleted stay if the plugin finds nothing to do at the
target, as no comparison looks at them (`reconciler.go:151-160`).
`store` takes a rename to be on disk when its save is over, however it ended, by
the end of the process between the rename and the directory sync too
(`LazyDir = FALSE`): `save` ignores a directory sync that fails, and then a power
loss may undo what was acknowledged, a first instance ID included (that the file
is whole is proved for `LazyDir = TRUE` too). No file there lacks an ID: `Load`
repairs that in memory only, so with such a file in `InitFiles` TLC finds
two starts with two IDs, against the comment at `config.go:43-45`. Intervals in `loop` fit
64 bits; `finding_panic` shows one that does not.

### Disagreements between text and code

Each run below checks one property that a document or comment states, and TLC
finds it violated; `PROJECT.json` quotes the lines.

| run | what happens |
|---|---|
| `finding_orphan` | interrupted delete, new IPv6 target, host back: two AAAA records; the next delete orphans one |
| `finding_hints` | another host's address update moves the hints that identify this host's HTTPS record |
| `finding_two` | a host moves while both plugins are between zone read and `CreateHost`: both claim it, and one rewrites the other's record, without any failure |
| `finding_panic` | a valid poll interval overflows and the ticker panics, at every start from then on |

Met while modelling, without a run of their own, as each would only restate the
line it is about:

* `reconciler_test.go:187-188` says that zero hosts always skip deletes. They do
  only with a baseline (`reconciler.go:202`): the first poll after a start, or the
  second empty one in a row, deletes every host of ours.
* `client.go:38-40` calls `ErrNotOwned` "a silent skip, not a failure"; it is listed
  with the errors and makes the cycle a failed one (`reconciler.go:254-304, 327-329`,
  `main.go:165-168`).
* `svcparam.go:174-175` says that equal canonical values are equal on the wire.
  Spaces around a `dohpath` are sent verbatim but not compared, so a change of
  them alone is not made; `ValidTexts` and the specs of `inputs` have none. Nor
  do they have texts with `;` or `=`, by which two signatures could coincide.
* A known key given by number (`1` for `alpn`) is kept as a number. Should the
  server report it by name, the record would be rewritten in each cycle; the
  codes of `inputs` are those of unknown keys.
* `detect_ipv6_linux.go:228-231` prefers a ULA so that the choice does not depend on the
  order of lines; with two ULAs it still does. `PicksTheBest` asks for any best one.

## Proofs

`ReconcilerProofs` holds, for every value of the constants (assumptions:
`Hosts` is finite, `Blank` is no address or spec, an enabled AAAA has an
address, as `Validate` demands, and the types of the rest):

* `TypeCorrect`: `Spec => []TypeOK`. One lemma per client method says that it is
  a sequence of requests about records that exist, whichever optional parts it
  has; `TypeNext` has one step per action.
* `WritesUnderMarker`: `Spec => []WriteUnderMarker`, provided `MarkersHeld`:
  no request of ours comes late, and nobody else ever removes our markers, or
  not in the middle of a call. `WriteUnderMarker` speaks of the next request only and is not
  inductive. `MarkerInv` is: every planned call has the shape `Guarded` (it opens
  by finding or planting the marker, stays at one host, and only its last
  request may take the marker away), what is left of the current call is
  `Orderly`, and either it has not opened yet or the marker stands. The lemmas
  `CreateHostGuarded`, `DeleteHostGuarded` and `RepairGuarded` show the shape of
  every method by building it up from its parts.

* `ForeignersLeftAlone`: `Spec => ForeignHostLeftAlone`, and `BreakerProtects`:
  `Spec => BreakerHolds`, if no request comes late (`LateRequests = "never"`),
  with administrators at any time and any number of hosts. Both speak of what a step does to the zone, which depends on requests
  planned long before; `CycleInv` says that every request still pending is
  `Proper`: it stays at one host, that host is not foreign in the snapshot, and it
  takes a marker only in the delete loop, which is entered only with `Enough`
  hosts; and that `lastGood` counts `desired`, which ties the breaker's
  comparison to the two polls.
* Sequences of requests as sets: what each method may send at its host
  (`CreateRequests`, `EnsureRequests`, `RemoveRequests` and their lemmas), hence
  what can be pending, is what the modules after it reason with.

`OwnershipProofs`, if `OthersKeepOff`: no request comes late, and others edit
between cycles, add nothing at a host we marked and plant no marker of ours.
(The section on assumptions says what happens otherwise.)

* `ForeignersUntouched`: `Spec => ForeignUntouched`, and `NeverAdopting`:
  `Spec => NeverAdopts`, for any number of hosts, edits and failures. Neither is
  local: a request deletes what the snapshot showed. `AdoptInv` links
  the history `made` to the zone: what stands under our marker is ours (`Clear`),
  and within a cycle so is all that stands at a host that was not foreign in the
  snapshot, whether or not its marker is there by now.

`SyncProofs`, on top of these. `ViewInv` says where a snapshot is still the
zone: at the hosts a loop has yet to visit, and in the first loop at those that
are not desired.

* `OwnRecordsStayMarked`: `Spec => []OwnRecordsMarked`, if `TidyWorld`:
  `OthersKeepOff`, nobody deletes our markers, all configurations with AAAA agree
  on the address, and what an earlier life left is tidy. `OwnRecordsMarked` is not
  inductive: a `DeleteHost` removes the marker last, so it needs that by then all
  the host had is gone, which it planned from the snapshot. `TidyInv` says that there is at most
  one record of a type at a host (`Tidy`), that no pending add would make a second
  one (`Alone`), and that whenever a marker is about to go, a pending delete
  covers each record under it (`Covered`). `finding_orphan` has two IPv6
  addresses and is the counterexample to the third hypothesis left out.
* `KeepsOwnership`: `Spec => ImplementsOwnership`, from the same hypotheses. What a
  request does was planned from a snapshot, and `Ownership` knows none: that it claims a
  host only if nobody else has a record there needs `AdoptInv`, that it writes only
  under the marker `MarkerInv`, and that it gives a host up only when it is empty
  `TidyInv`. Each kind of request is then one action, each edit a step of the others.
* `SuccessIsSync`: `Spec => []SuccessMeansSynced`, from the same hypotheses.
  `SyncInv`: as long as nothing failed, each desired host already visited is as
  configured, type by type, or a request that makes it so is `Due`; and in the
  second loop each host of ours is desired, still to be visited, or about to lose its marker.
* `IdentityFresh`: `Spec => []HTTPSIdentityFresh`, if `HintsWorld`: no request
  comes late, others edit between cycles, and specs target their own name;
  `finding_hints` is the counterexample without the last. `FreshInv` says that
  requests which name an HTTPS record come first in their host's plan, after the
  check of the marker only, and that hints are those of the snapshot at every
  host yet to be visited.

* `HintsStayCurrent`: `Spec => []HintsCurrent`, if `TidyWorld`; specs may target any
  host. That all six requests ask for it is not enough: hints may be stale
  when a cycle begins, as others deleted addresses, and then the cycle must happen to
  change an address of the target. `HintInv` says that hints whose target we marked are
  `Told`: current, or with IPv6 addresses too many, or their target has no A record and
  will get one; and that within a cycle hints that are not current belong to a
  target the cycle has not touched yet. What is left at its end is what
  `HintsCurrent` names.

`TwoInstancesProofs`, from lemmas at the end of `OwnershipProofs` about one plugin
beside another:

* `NothingLeftBehind`: `Spec => []NothingOrphaned`, if `PlainUsers` (both users
  want A records only; the section on assumptions has the counterexample
  without it), for any number of hosts. At a host that both
  marked, each may delete or rewrite the other's record, so none of the
  invariants above holds of either of them alone. `Shared` counts: no marker answers
  for more than one address (`Fits`). A plugin `Holds` a place for an address
  where its marker stands, unless it is `Light` there: its cycle saw no address at
  the host, and it is about to add one, about to take its marker away, or has yet
  to come to the host. Adding an address fills such a place, a deletion frees
  one, and what takes a marker away had none. `PlanInv` says that a plan is one
  call whose last request alone changes the number of places.
  The lemmas are about one `Reconciler` and are instantiated for each of the two;
  `Watches` is what a step of the other one may do to it.

Before they were proved, TLC checked these invariants on the instances of
`ownership`, `https` and `two`, which satisfy the hypotheses.

`StableIPv6Proofs`, for any file, MAC addresses and identifiers, if privacy
addresses have other identifiers than those derived from the MAC:

* `DetectedTargetLasts` (`TargetLasts`), `PickUnmoved` (`RotationHarmless`) and
  `BestIsPicked` (`PicksTheBest`). The lines that can be picked are the same
  before and after a step, in the same order (`Rotated`): `SamePick` shows that
  such files pick the same address, from the minimum of each tier.
  `DetectInv` adds that the target stands in a line that can be picked.

`HttpsRecordProofs`, for any set of specs, params of any key, number and
spelling, service or alias mode, any hints, however the server spells them, if no
`dohpath` has spaces around it (`PlainPaths`; the note on `svcparam.go:174-175` says
what happens otherwise):

* `SavedArrives`: `Spec => []Arrives`, and `RecordSettles`: `Spec => Settles`.
  `HttpsInv` says that the record, if there is one, is `RecordOf` some spec that
  `Validate` lets through, with hints the server had. For such a record
  `ParsedIdentifies` shows that what is read back encodes to the params in the zone,
  so no change is refused for want of its record; `SameMeans`, that a spec that
  compares equal to it asks for what it means; and `WrittenMeans` and
  `ReadBack`, that the spec that was written compares equal from then on.
* All rests on what `ReportedMeans` and `SignedTidy` say of one value: splitting,
  normalizing and joining it, by the server or by the plugin, keeps its meaning.
  That filters and sorted lists lose nothing would be an induction over their
  length; `Counted` replaces it by counting: `n` of the positions kept are at or
  before the `n`-th. `Kept` states the filter of `splitTrim` by those positions.

`ConfigStoreProofs`:

* `StoreTypeCorrect` and `FileNeverTorn` follow from `DiskInv`: from the write of
  the temporary file to its rename it holds exactly the draft, and by the rename
  it is synced. `NeverTorn` alone says nothing of the temporary file.
* `StoreImplementsDurable`: `Spec => ImplementsDurable` if `LazyDir = FALSE`.
  `HistoryInv` compares the file with what was promised: the draft once it is
  renamed, else the last committed content; and likewise for what a power loss
  may bring back. With it each action is a `DurableConfig` action or a stutter.
* `InstanceIdStable` has the same assumption, and that no initial file lacks an ID;
  `IdInv` says that the file's ID is that of every life, of the running
  configuration and of the one being saved.

`PluginLoopProofs`: `LoopTypeCorrect` (with it, that one handler at a time
holds the mutex), `NoLostWakeup` (`Spec => []SavesAreSignalled`),
`IntervalAlwaysFresh`, and `TickerNeverPanics`, which assumes that every interval
fits int64 nanoseconds (`NoOverflow`; `finding_panic` is what happens otherwise)
and follows from the bound that `Validate` and `clampDefaults` keep. The first two invariants are inductive together with the types;
the work is that the mutex ties each pending configuration to one handler.

## Only model-checked

Liveness (`Converges`, `HandsOver`, `EverySaveUsed`), which is out of the
prover's reach. Every safety invariant and action property that a passing run
checks has a theorem.

## Not modelled

* TTLs: they are sent with every record and never read back, so a changed TTL
  does not reach records that exist.
* JSON and URL syntax of requests and answers.
* The result's host lists and counts, and the status fields made of them
  (`LastSuccess` is modelled): shown to the user only.
* A change of zone or server, which leaves the old zone's records behind; nothing
  says what should become of them.
* GET handlers and refused POSTs, which change nothing.
* The detection of the LAN IPv4 address, and of the IPv6 one elsewhere than on
  Linux: what a UDP socket is bound to is the operating system's choice.
* A `config.json` edited by hand: `Load` does not validate it. A param key
  that is none then makes `EncodeParams` send no params at all, in every cycle.
* The web panel, licence and version code, which have no behaviour of this kind.

## Plan

Done: the cycle, alone and beside another instance, with late requests; the
config store and its abstract specification; the loop; HTTPS params; the IPv6
target; the abstract specification of ownership; twenty-five theorems, among them
every safety property that a passing run checks.

Left: `NothingOrphaned` where one of two users wants AAAA records or either wants
HTTPS records, which takes one count for each type.
