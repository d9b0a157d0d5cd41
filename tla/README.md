# Serverdesk: TLA+ specifications

Serverdesk is a read-only monitoring console. One Go binary polls fault-tolerant
clusters and edge devices (NAS, PLC, printers, hypervisors, servers), keeps the
latest snapshot in memory, serves it to a browser console, lets operators manage
the device list and the notification settings, and delivers critical alarms to a
webhook. It persists what it must not lose in a handful of small files, each
written by a temporary file, fsync and rename.

This directory holds TLA+ modules of the parts that are hard to get right, the
TLC configurations that check them on small instances, and TLAPS proofs of the
most important results for all values of the constants. `PROJECT.json` maps every
definition to its source lines and lists runs, mutants, hazards and theorems.

## 1. Inventory

### How the parts interact

```
 clusters --avcli/SSH/SNMP--> pollers --> cluster state --> fleet cache --+--> device view --> console
 edge devices --polls--> edge workers --> edge manager --------------------+--> event watcher --> event log
                                                                          +--> notification source --> alerting engine --> webhook
 console --HTTP--> admin API --> config store (file, .bak, credentials)
                       |-> edge manager, thresholds, alerting engine   (live copies)
                       |-> event log                                   (audit trail)
 console <--HTTP--> shared state files (ack, maintenance, notes) ------> alerting engine (silence)

 in the browser:
 poll loop --patch--> store --setState--> derived model (memo) --> screen in view (patched DOM)
 operator --clicks--> store, dialogs --> requests (devices, settings, control) --late answers--> store
 address bar <--> store --> screen modules, loaded on demand
 store <--> synchroniser (outbox, shared state of other consoles)
```

Everything runs in one process. The pollers, the edge worker, the event watcher
and the alerting engine are goroutines with their own tickers; HTTP handlers run
concurrently with them and with each other. Browsers are independent clients; in
each, one page runs asynchronous code that interleaves at every `await`, timer and
event.

### Components

| Component | State | Operations | Hard behaviour | Correct when |
|---|---|---|---|---|
| Alerting engine (`internal/alerting/engine.go`) | conditions, delivery queue, state file, health flags, settings | `ScanOnce` every 10 s, up to 8 senders, `UpdateConfig`, `Status`, start and stop | the file is rewritten by the scan and by every sender; writes fail before or after the rename; crashes between claim and result; recurrences that reuse a start time; retention | no request the file does not account for; retries bounded; alarm, escalation, recovery in this order; nothing sent twice; health is true; alarms get out |
| Event history (`internal/poller/events.go`) | ring, bounded jsonl file, dirty and blocked flags | `Add` (append), `RecordAudit` (durable rewrite), load and repair | torn lines, failed appends and rewrites, an unreadable file at start, power loss | a confirmed audit record survives; health means saved; order is kept; a refused record stays out |
| Event watcher (`events.go`, second half) | last device views, baseline flag | one diff every 10 s | partial snapshots, boot grace | no invented "removed" or "new" events |
| Config store (`internal/config/persist.go`, `secretrefs.go`) | config file, `.bak`, credential directory | `rmw`: seal secrets, back up, replace, prune | five disk operations that can each fail, crash or be undone by a power loss | no document refers to a missing credential; none is left behind |
| Admin API (`internal/httpapi`) | live copies of devices, thresholds and settings; two mutexes | add, edit, delete device; thresholds; notifications; import | import holds no device mutex; audit-commit failures are rolled back while others write | audit brackets every destructive change; accepted changes stay; file and runtime agree; everyone is answered |
| Edge manager and worker (`poller/edgemgr.go`, `edge/worker.go`) | device list, workers, retained snapshot | add, remove, edit, stop; rounds | replaced workers are still in a round; aborted polls look like outages | readers see the current list, without gaps, and never take an old or aborted round for an observation |
| Shared console state (`webfront/state.go`) | three maps in three files | read, merge a delta | concurrent operators, failed writes | deltas of others are kept, size is bounded |
| Console synchroniser (`web/js/util/shared_sync.js`, `data.js`, `app.js`) | queue per kind in localStorage, one drain, one read | edit, drain, read, retry, reload | late answers, lost PUTs, refused storage, reloads, several tabs | no saved edit is lost; no screen forgets its own edits; screens converge |
| Console poll loop (`app.js` startPull, `data.js` pullPatch) | timer, generation, failures, saved edits laid over answers | poll, back off, hide and show, retry, log in | overlapping requests, late and failed answers, older values after an edit | one chain that never dies; the badge tells the truth; a saved edit does not flicker |
| Console navigation (`app.js`) | address, history, view, screens loading and mounted | links, Back, load, fail, retry | two screens loading, failures at import, init or render | address and screen agree, the screen asked for last arrives |
| Derived model (`model/compute/kpi.js`, `alert.js`, `cluster.js`, `node.js`) | memo with fingerprint, onset times of alerts | rebuilt on a changed fingerprint | a field missing in the fingerprint, alerts without a time, counters made in separate passes | screens show the store; counters agree; an acknowledgement holds |
| Nodes and incidents screens (`screens/nodes.js`, `incidents.js`) | DOM kept between renders with signatures | render, tabs, folding, export | parts patched, rebuilt or out of view; a model that cannot be built | what is shown is what a new screen would show |
| Topology (`model/compute/topo.js`, `screens/topology.js`) | folded groups, focus | place every box in two passes | heights planned in one pass and used in another | no device lost, doubled or covered |
| Device page (`model/compute/detail.js`, `screens/detail.js`) | cards with a signature, control dialog, busy flag, note | patch, open, confirm, answer | page, dialog and answer of different devices | requests go to the device confirmed; nothing green in vain |
| Device management (`screens/manage.js`) | one form, requests | add, edit, delete, test | answers after the form was replaced | an answer touches its own form only |
| Settings (`screens/settings.js`) | one visit's state | load, save, test, import | answers after leaving and returning | the page never locks |
| Shell operations (`app.js` handleAction) | dialog, toast with undo | acknowledge one, several, all; windows | changes of others while the dialog is open | undo restores; the dialog does what it says |
| Notification source (`cmd/serverdesk/main.go`, `alerting/devices.go`) | none (reads three sources) | snapshot of signals and readiness per host | sources are read one after another | no false recovery, no alarm storm at start |
| Cluster state and pollers (`poller/state.go`, `worker.go`) | per-node metrics, failure counters, trap ring | fast, slow, static tiers; SSH and SNMP workers | two sources of one entry at different rates | no stale value shown as current |
| Fleet cache (`poller/cache.go`) | published snapshot | rebuild | one cluster's view fails | the others go on, the old one is marked stale |
| Availability (`poller/avail.go`) | seconds observed and down per day | sample, flush, prune | clock steps, gaps, restarts | 0 <= down <= observed, gaps add nothing |
| Sessions (`webauth`) | session table, failure counters | log in, check, log out, reload credentials | limits, expiry, reload during a log-in | tables stay bounded, expiry is respected |
| Trap store (`snmp/store.go`, `receiver.go`) | ring and file | load, add | failed writes | ring and file agree |
| Topology, device view, poller views | none | build, propagate status | graph shapes | status of a node is the worst of what it depends on |
| SNMP codec, SSH metrics, avcli, edge collectors | counters of the last sample | parse | wraps, reboots, malformed answers | deltas are never negative |
| Deployment scripts | files, service state | install, update, roll back | failure half way | old or new version runs |

The event watcher and the rows from the notification source on are not modelled;
`PROJECT.json` gives the reason for each.

## 2. Modules

| Module | Models | One action is |
|---|---|---|
| `AlertEngine` | the alerting engine | one critical section of `Engine.mu` |
| `AlertEngineProofs` | its theorems | |
| `EventLog` | the event history | one call under `EventLog.mu` |
| `EventLogProofs` | its theorems | |
| `ConfigStore` | `Store.rmw` with managed credentials | one disk operation of the call |
| `ConfigStoreProofs` | its theorems | |
| `AdminApi` | the mutating handlers, with the store and the audit trail as they see them | the code of a handler between two points where another request can intervene |
| `AdminApiProofs` | its theorems | |
| `EdgeManager` | manager and workers | one call under the manager's mutex, or one end of a round |
| `EdgeManagerProofs` | its theorems | |
| `SharedSync` | state file, coordinator, outbox, transport | a server request, or a tab's code from one `await` to the next |
| `SharedSyncProofs` | its theorems | |
| `PollLoop` | what the console's poll loop promises (abstract) | asking, settling, closing, opening |
| `ConsoleStatus` | badge and banner | |
| `ConsolePoll` | the poll loop of the console, with `PollLoop` instantiated | code from one `await`, timer or event to the next |
| `ConsoleNav` | addresses, history, lazily loaded screens | a click, a load that ends, an answer |
| `ConsoleFleet` | devices, alerts and acknowledgement keys (operators) | |
| `ConsoleModel` | `buildModel` and its fingerprint (operators) | |
| `ConsoleDesk` | the store and the memoised model | an answer, a failure, a tick, a mark, a click, a reload |
| `ConsoleScreens` | the nodes and incidents screens on top of `ConsoleDesk` | the same, with the render that follows |
| `ConsoleTopo` | the topology layout | an answer, a fold, a focus |
| `ConsoleDetail` | `buildDetail` (operators) | |
| `ConsoleControl` | the device page at work | a render, a click, an answer |
| `ConsoleForms` | device management | a click, a request, an answer |
| `ConsoleSettings` | the settings page | a click, a request, an answer |
| `ConsoleOps` | dialog, toast and undo of the shell | a click, a change from another console |
| `ConsoleActsProofs` | theorems of `ConsoleDesk`, `ConsoleOps`, `ConsoleSettings` and `ConsoleForms` | |
| `ConsolePageProofs` | theorems of `ConsolePoll`, `ConsoleNav` and `ConsoleControl` | |
| `MC_*` | instances for TLC | |

How state and actions correspond to the code, and what is abstracted:

**AlertEngine.** `conditions`, `deliveries`, `cfg`, `lastError`, `persistFault` are
the engine's fields; `disk` is the state file; `scan`, `due` and `sending` are the
local state of `ScanOnce` and its senders. `Scan` is the three ways the first half
of `ScanOnce` can go, `TakeNext` the loop that claims due items, `Finish` a
sender's result, `ScanEnd` the end of the loop. A write is `ok`, `fail` or
`failAfterRename` (the directory sync failed, the new file is there). A delivery ID
is the triple its hash is taken of. Time is a number; the retry, retention and
escalation delays are constants. The webhook is an environment that accepts,
refuses or times out. Signals, readiness and silence are inputs (`Collect`,
`Silence`) until the notification source is modelled.

**EventLog.** An event is its number. `file` is what a read returns, `remains` the
contents a power loss may leave: an append is not synced, a rewrite is. A torn line
is a line of its own kind; `fileBytes` counts lines of the largest size. `Parsed` is what
the lines of a file are read as; a restart shows the last of them. `confirmed` and
`refused` remember, over restarts too, what `RecordAudit` promised and refused; `unsynced`
are refused records that were renamed into place before the directory sync failed and that
no later write has removed: a process that ends then gives them back to the next start.

**ConfigStore.** A document is the set of secret names it refers to. `configMay` and
`bakMay` are the documents a power loss may bring back: a rename is durable only
after the directory sync. The directory of the credentials is never synced
(`secretrefs_unix.go:71`), so a power loss may undo their creation and removal; the names it
takes are `excused`. `handlers` are those that saved and may still write back what
they had read before (`Rollback`: `admin.go:223`, `admin.go:651`, `backup.go:397`, 416), with
other saves in between; a reference written back after its credential was pruned is `excused`
too (section 6). *Assumption*: a directory sync that the file system does not support
counts as done, as in the code.

**AdminApi.** A document is devices, thresholds and webhook. `file` and `live` are the
stored and the running configuration, `saved` and `trail` the audit records in the
file and in memory. Each handler is a small program counter; `deviceMu` and
`notifyMu` are real. The store's inner steps are `ConfigStore`'s, and its outcomes
(failed, saved, saved but unsynced) are the ones that module shows.
`Seal` stands for the replacement of plain credentials by references. `owner` says which
request an item of the file is due to; `touched` which items others saved since a request
replaced the file, and `taken` which of those its rollback took away again.

**EdgeManager.** A device is its incarnation (how often its key was added) and its
metadata; an entry of a snapshot records which worker made it and whether its
context was cancelled meanwhile (`cut`). `lastGood` with `age` is the retained
snapshot. `rootDone` is the cancellation of the root context by the shutdown.

**SharedSync.** The three maps are alike and independent, so there is one. A tab is the
coordinator's slot (`queue`, `drain`, `read`, `blocked`, the version check as
`superseded`) and the map on its screen. `late` holds PUTs whose client gave up and
that may still be handled. `OtherConsole` is the PUT of any other machine.

**ConsolePoll.** A request is a slot with the state it read before it asked; only equality
with the current generation matters, so it carries `cur`. Ages and timers are relative
ticks. One field of one device stands for the fleet. `held` is a history variable: the
last edit saved while no request was in flight and not yet shown by the server.

**ConsoleNav.** The address is what `hashOf` makes of the store; every action that sets state
writes it and asks for the screen, as `render` does. A load ends well, or fails at import, at
init or at render. `DeviceDeleted` is what an answered deletion does to the selection, possibly
after the operator has come back to the page of the device.

**ConsoleFleet, ConsoleModel, ConsoleDesk, ConsoleScreens.** `con.st` is the store,
`con.memo` the memo of `buildModel`. Devices are numbers in the order their names sort;
an alert is known by its kind and text; ages, labels and icons are left out. The
model is the whole of `buildModel`: counters, tables, alert lists, log with folded
flapping, licences, storage, capacity, tree, search, statistics. The screens keep in
`scr.dom` what the code keeps in its DOM, with the code's signatures.

**ConsoleTopo.** Positions and sizes are the source's pixels, vertical ones doubled so
that a centre is an integer. The ratio test is the source's logarithm, squared out.

**ConsoleDetail, ConsoleControl.** A row of a card is its kind and its tone: every sign of
trouble `buildDetail` derives is there, wording is not. `sent` records each request with the
dialog it was confirmed in and the page then shown; `orders` the orders of the nodes drawn since
the cards were built. `endu` says that a device reports itself as an endurance device, which no
answer of this server does (`deviceview/devices.go:959-994`). Status and redundancy of a
fault-tolerant device are the server's: `Derived` and `Judged` are what `DeriveStatus`,
`DeriveSync` and `nodeNormal` of `internal/poller` can report of its nodes.

**ConsoleForms, ConsoleSettings, ConsoleOps.** One form, one visit, one dialog, with the
requests under way; an answer is applied to whatever is there when it comes, as in the
code. In `ConsoleOps` an entry of the shared maps is who wrote it.

Interactions between modules are by their interfaces: `AdminApi` uses the outcomes of
`ConfigStore` and `EventLog`, `EdgeManager`'s `SourceReady` is an input of
`AlertEngine`'s `Collect`, `SharedSync`'s map is an input of its `Silence`. In the
browser, `ConsoleScreens` extends `ConsoleDesk`, which extends `ConsoleModel` and
`ConsoleFleet`; `ConsoleControl` extends `ConsoleDetail`; `ConsolePoll` implements
`PollLoop`. Parts of the page that share nothing but the store's fields of others are
checked side by side in one run (`desk` says which one moves).

## 3. Runs

| Run | Checks | Distinct states |
|---|---|---|
| `alert_safety` | `ClaimCoversRequests`, `HealthyIsDurable`, `AlarmOrder`, `NoStrayDelivery` (no alarm after its recovery, nothing sent twice, retries bounded) | 958 k |
| `alert_live` | `AlarmGetsOut`, `RecoveryGetsOut` | 117 k |
| `event_log` | `AuditIsTrue` (confirmed records survive, refused ones stay out, with one exception named below), `HistoryIsSound` (health means saved, order kept, file bounded), `HistoryIsKept` | 453 k |
| `config_store` | `ConfigResolves`, `BackupResolves`, `RollbackResolves` (what a rollback writes back has its credentials, while nobody else has saved) | 5.8 M |
| `admin` | `AuditBrackets` (prepared before the change, recorded before ok), `AnswersHold` (file and runtime agree, accepted changes stay), `EveryRequestAnswered` | 260 k |
| `edge` | `ChangesStick`, `ShownIsObserved` (readiness, aborted rounds, one live worker), `NoFlicker`, `WorkersEnd`, `DevicePolled` | 194 k |
| `shared_sync` | `NoEditLost`, `ReadYourWrites`, `Converges` | 439 k |
| `console_poll` | `OneChain`, `EditHeld`, `RefinesLoop` (implements `PollLoop`), `KeepsPolling`, `BadgeFollowsServer` | 352 k |
| `console_desk` | `ModelFresh`, `SurfacesAgree`, `AckHolds`, `ScreenFresh`, `PageNeverLocks`, `UndoRestores`, `AnswersStayHome` | 235 k |
| `console_ui` | `AddressHolds`, `LayoutSound`, `ActsOnShown`, `DetailIsTrue`, `ScreenArrives` | 90 k |
| `sync_stuck`, `console_dialog` | one statement of the repository each, refuted (section 6) | |

Every property has a mutant: a changed definition, as a plausible bug would change
the code, under which TLC finds the property violated.

Five places name what they leave out, because the code lets it happen:
`AuditIsTrue` a refused record whose directory sync alone failed, when the process ends before
another write; `ConfigResolves` and its companions the `excused` names; `AddressHolds` the page of
a device deleted while it is shown; `ScreenFresh` the severity of a log row that changes in
nothing else, and `DetailIsTrue` the target of a node's button once the nodes were reordered under
one signature. Each of these states is reached in its run, and section 6 describes it.

### Bounds, and why they are enough

- `alert_safety`: one condition. Conditions only share the file and the sender slots; the
  theorems of section 4 cover any number of both. Three changes of the sources allow appearance,
  absence and recurrence; the clock runs past the retention so that records are pruned; two
  write faults and a crash meet every step. The bounds multiply, so the run starts from five
  scenarios (`Spent`): three source changes with a fault, two with the faults and the crash, or
  with a silence change, or with two updates, and one with a silence change and an update.
  `retryMax` of 2 and 1 reaches retry and dead letter.
- `alert_live`: the same condition, with three scenarios (`LiveScenarios`): the crash with two
  silence changes, the write fault with one, the fault with the crash. The fault can
  meet every write, before or after the rename.
- `event_log`: a ring of three and a file limit of four lines, eight events: the
  ring overflows and the file is compacted more than once; legacy files include a
  torn last line and an over-long file; two faults and two restarts.
- `config_store`: three managed names and one external, two secrets in one
  mutation, so that two generations overlap; one handler that may take its save back while others
  save; two faults, of which one may be a crash or power loss. The proofs cover all other values.
- `admin`: seven mixes of two to four requests, chosen so that every pair that can
  touch the same item meets; in one of them two edits bring the file back to what an
  import wrote before the import rolls back; three faults so that a rollback of a
  rollback can fail.
- `edge`: one device that can be polled and one that cannot, two list changes (three
  workers), one panic, a retained snapshot that lives for two ticks.
- `shared_sync`: three edits, by this console or by others; a queue of two, so that
  it fills; a state file for one mark, so that marks are evicted; two network
  faults (a PUT and its retry), one refused save, one reload.

- `console_poll`: the current chain and one request it superseded, one edit, waits of
  one and two ticks, so that an answer, a timeout and a tab switch meet in every order.
- `console_desk`: reports with an alert without a time, a state alert whose time moves
  with every answer, a device in trouble without an alert, the fixture, a flapping
  device, licences, storage and virtual machines; two answers and two acts of the
  operator until the third tick, which sweeps a window and acknowledges automatically;
  five renders of a screen, as cards and as table; two forms and two
  requests in flight; four reports for the screens, one of which changes a severity and nothing
  else; three operations on the settings page and in the shell.
- `console_ui`: two screens, one of which fails to load, and the device page, with
  three loads; fleets with every kind of row of the layout, two folds; two
  installations of answers for the device page, which between them hold every type of
  device in order, in trouble and down; in one answer the nodes of a device change places and
  nothing else, in another the server stops supporting an action.

### Fairness, and why the code justifies it

Safety runs assume none. For liveness: the engine's ticker keeps calling `ScanOnce`, a webhook
request ends within its 5 s timeout (`webfront/notify.go:33`), time passes and a stopped service
is started again; a handler goroutine that can run does; an edge round ends because polls have
timeouts, and the worker's timer fires; the server answers or the client's 2.5 s timeout does,
and an open, visible console calls `retryAll` every 15 s (`app.js:1657`); a poll of the console
ends because its abort timer fires, and timers fire; an `import()` of a screen ends, well or
badly. Faults are finitely many by their bounds. Nothing is assumed of operators, collectors,
the network and other consoles, and a late request may never arrive.

## 4. Proofs

`AlertEngineProofs` (all keys, hosts, settings, delays, slots and bounds):

- `TypeCorrect`: `Spec => []TypeOK`. `TypeOK` is not inductive: that the slots are
  respected and that senders work on queued items needs that outside a scan nothing
  is due and between scans nothing is sent (`ScanDiscipline`, the effect of `scanMu`).
- `HealthDurable`: `Spec => []HealthyIsDurable`, from `HealthInv`: memory and file agree
  or the fault flag is set, and the flag is set exactly when the error shown is the
  persistence error, so that clearing a delivery error never hides it.
- `AlarmsInOrder`: `Spec => []AlarmOrder`, from `OrderInv`: in memory and
  on disk, a delivered mark is only on what the receiver accepted, and an escalation or
  a recovery is only queued once its alarm was accepted. The disk has to be
  in the invariant because a restart loads it.
- `ClaimsAreDurable`: `Spec => []ClaimCoversRequests`, from `ClaimInv`: the
  attempts in memory and in the file are at least the requests made, and an item being
  sent is in the file.

- `NothingStrays`: `Spec => []NoStrayDelivery`, from `BoundInv`, `MemoryInv` and `Sends`.
  `MemoryInv` holds of memory and disk alike: a record ages from the end of its condition and
  a recovery is queued only then (`Orderly`), and a saved acceptance, or the request of a
  recovery, is remembered until the engine lets go of the activation (`Remembers`,
  `Vanished`). `BoundInv` gives the true bound of the attempts: `retryMax` and one for
  each process lost between a claim and its result.

`ConfigStoreProofs` (all sets of names and bounds): `ConfigAlwaysResolves`,
`BackupAlwaysResolves`, `RollbackAlwaysResolves`. The invariant `IInv` adds to the three
properties where names come from (`NamesExist`), that the names of an unpublished
operation occur in no document that is or may come back on disk and in none a handler may write
back (`Unpublished`), that `.bak` holds what the operation read (`BackedUp`), and that pruning
only starts when nothing but the new document can come back and no handler but the one
whose save it ends counts on the document before it (`Committed`).

`AdminApiProofs` (any number and mix of requests, any documents, faults and restarts):

- `AuditAlwaysBrackets`: `Spec => []AuditBrackets`, from `AuditInv`. Each request has
  reached a step of its own operation and the records of the steps behind it are in the file
  (`Stages`, `Bracketed`); a record is in memory and in the file or was never
  confirmed, which a restart needs because it takes the trail from the file.
- `AnswersAlwaysHold`: `Spec => []AnswersHold`, from `AnswersInv`, the largest invariant here.
  `HookInv` and `DeviceInv` say what the running configuration is while requests are half way:
  that of the file, with the one difference that the holder of the mutex is about to remove.
  `DelInv` says what a deletion read; `OwnerInv` that an item of the file is what the request it
  is due to wanted. Because a rollback replaces the whole document, the invariant has to say for
  every request that may still roll back that the running devices fit the file as it is and the
  file as it would then be (`Fits`).

`EventLogProofs` (any limits, any number of events, rotations, torn lines, failures and crashes):

- `EventLogTypes` (`TypeOK`), `HistoryAlwaysKept` (`HistoryIsKept`, an action property),
  `AuditAlwaysTrue` (`AuditIsTrue`) and `HistoryAlwaysSound` (`HistoryIsSound`), from `LogInv`:
  the ring is in order and holds no refused audit (`RingInv`), a refused audit is in a file only
  while it is `unsynced`, every file a power loss may leave is in order, with at most one torn
  line at its end (`DiskInv`), a file on which no write failed reads as the ring (`CleanInv`),
  what happens while the file cannot be read is newer than what is in it (`BlockedInv`), and
  what was promised is in the ring and in every file that may come back (`KeptInv`). What
  `Parsed` gives of a longer or shorter file is proved by induction on its lines, from the least
  number of a set (`LeastNat`, `SetInduction`): the library's own induction theorems take an
  operator, which this prover cannot supply.

`EdgeManagerProofs` (any devices, any number of rounds, panics and changes): `EditsNeverUndone`,
`ShownWasObserved`, `DevicesDoNotFlicker` and `EdgeTypes`, from `EdgeInv`: a worker's
snapshot is its own list, all observed or all aborted (`Publishes`); only the newest worker is live
(`OneLiveWorker`) and it has the configured list (`Serves`); the retained snapshot
speaks of configured devices only (`Remembers`) and holds what was shown until it is too
old (`Keeps`). `Publishes` is needed of replaced workers too: they still publish.

`SharedSyncProofs` (any number of tabs, marks, edits and lost or late requests):
`SavedEditsSurvive` (`Spec => []NoEditLost`) and `AnswersIncludeEdits` (`Spec =>
ReadYourWrites`), from `SyncInv`: a saved edit is merged by the server or in the saved outbox,
what the outbox holds is merged or in the queue in memory, and a read that no edit has overtaken
was sent and answered while that queue was empty (`KeepsAll`). Both assume `OneTabPerBrowser`:
two tabs of a browser share one outbox and overwrite it (section 6), so neither holds without
it. Tabs of different browsers are as many as one likes, and the run has that form.

`ConsoleActsProofs` (any devices, marks, requests and other consoles):

- `UndoBringsBack` (`UndoRestores`), which is inductive once the shape of dialogs, toasts
  and undo records is known (`OpsInv`).
- `SettingsNeverLock` (`PageNeverLocks`), from `SetsInv`: a busy button belongs to a
  request of this visit (`Unlocks`), a loading page to its load (`Loads`).
- `LateAnswersStayHome` (`AnswersStayHome`, an action property), from `FormsInv`.
- `ModelAlwaysFresh` (`ModelFresh`), from `DeskInv`: the memoised model is what a new
  build would give now and at every later time at which no window has ended unswept, with
  the fingerprint of the stored state next to it; later times are in the invariant because
  the clock moves while nothing is rebuilt. The fingerprint holds the keys of the
  acknowledgements and not their times; the proof shows that no step changes the
  times alone.

`ConsolePageProofs`, navigation and device page (any screens, addresses, devices and answers):

- `AddressAlwaysHolds` (`AddressHolds`), from `NavInv`: besides address and state, which differ
  only on the page of a deleted device, it needs that the screen of the state is mounted or asked
  for (`Asked`) and that what is mounted is alone (`Alone`).
- `ActsOnWhatIsShown` (`ActsOnShown`), from `PageInv`: badge and note field belong to the
  device rendered last, each note and each request to its own device.
- `DetailAlwaysTrue` (`DetailIsTrue`), from `DrawnInv`: what is on the page is what a new page
  of the device rendered last would show, and a page that is seen was rendered from the last
  answer. `SignatureIsEnough` is its core: two devices with the same signature have the same
  cards and the same enabled buttons, so patching needs no card built again. What patching does
  lose, whom the buttons of reordered nodes name, is the exception of the property: `DrawnInv`
  knows the target of a row only as that of one of the orders drawn. That the page is never
  green in vain (`NeverGreenInVain`) follows from what the server derives of the nodes.

`ConsolePageProofs`, poll loop (any number of overlapping requests, any timing, any
number of edits):

- `OneChainAlways`: `Spec => []OneChain`; `LoopNeverIdle`: `Spec => []Loop!NeverIdle`;
  `PollImplementsLoop`: `Spec => RefinesLoop`. All three rest on `ChainInv`: the shape
  of the state, at most one current request and none next to a timer (`Single`), and a
  chain whenever the console is on the screen, none on the login page (`Alive`).
  `OneChain` is not inductive without `Alive`: logging in starts a chain and must find
  no timer. For the refinement every action is shown to be one step of `PollLoop` or to
  leave its two variables alone.
- `EditStays`: `Spec => []EditHeld`, from `EditInv`: the edit is on the device as an override
  that every request in flight had read before it asked, or the server runs on its sample fleet,
  which then shows in every answer. The requests have to be in the invariant because an answer
  is merged with what was read before it was asked for.

The proofs assume `ConstantsAssumption` of `AlertEngine`, `EdgeManager` and `SharedSync`,
`BoundsAssumption` and `NamesAssumption` of `ConfigStore` (an external name is not a managed
one), `TimingAssumption` and `StaleAssumption` of `ConsolePoll` and `ConsoleStatus`,
`PlansAssumption`, `DocAssumption` and `BoundsAssumption` of `AdminApi` (a stored device is
stored as it is, and the first document is one the store wrote), `KeepAssumption`,
`LimitAssumption`, `FilesAssumption` and `BoundsAssumption` of `EventLog` (limits are positive,
and a line of the files a first start may find is numbered by its place or does not parse),
`LimitsAssumption`, `ReportsAssumption` and `ClicksAssumption` of `ConsoleDesk` (reports and
clicks are of the form the screens read), `SitesAssumption` of `ConsoleControl` (what is
reported of a fault-tolerant device was derived by the server from its nodes), and
`NavAssumption` of `ConsoleNav` (the names of the screens that the code treats apart); TLC
evaluates these in every run. In `AlertEngine` a scan is only taken when the next activation
time fits under `MaxStamp` (`ActivationsFit`), a bound of the model.

Two attempts failed for a good reason and changed the models:

- `AnswersHold` was not true of every mix. An import writes the file, two edits of a device
  follow, the second puts back what the import wrote, the committed record fails: the rollback
  finds the document it wrote and takes the accepted edit away. TLC confirms it in the mix that
  was added; the property now names the case (`taken`), and section 6 lists it.
- `NoStrayDelivery` is about a history of requests and saved acceptances. The proof
  needed the model to say exactly when an ID leaves it: not when its record is gone, as
  after a pruning whose write failed, but when the engine has let go of the activation.

Only model-checked:

- all liveness (`AlarmGetsOut`, `RecoveryGetsOut`, `EveryRequestAnswered`, `WorkersEnd`,
  `DevicePolled`, `Converges`, `KeepsPolling`, `BadgeFollowsServer`, `ScreenArrives`):
  liveness under fairness and `ENABLED` are beyond this prover;
- `SurfacesAgree`, `ScreenFresh` and `AckHolds`: they compare tables and lists that are
  filtered and sorted in different ways, and the prover knows nothing of `SelectSeq` and
  `SortSeq`. `AckHolds` besides rests on what devices report: one that reported an undated
  alert next to a dated one of the same name would break it;
- `LayoutSound`: positions are sums over rows, folds of data;
- the typing of `AdminApi` (`TypeOK`), as far as `Docs` and `AuditInv` do not contain it.

## 5. Plan

Done so far: the server's persistent parts, the synchroniser, and the console from the
poll to the screen. Next, each with its mutants, and each theorem after TLC agrees:

1. Theorems: `AckHolds`, as far as its keys are computed without a sort; that
   `ConfigStore` and `EventLog` implement abstract stores (point 4).
2. `AlertSource`: the notification source composed with `EdgeManager`; no false
   recovery and no alarm at start, checked as an implementation of the input
   assumptions of `AlertEngine`.
3. `EventWatcher`, feeding `EventLog`; `ClusterState` and `FleetCache`;
   `Availability`, `Sessions`, `TrapStore`.
4. Abstract specifications: a durable set of audit records that `EventLog`
   implements; an atomic document store that `ConfigStore` implements.

## 6. Where the repository disagrees with itself

Shown by a run:

- `sync_stuck`: if the outbox cannot be saved when a drain starts, `runDrain` returns
  before the code that resets `drainPromise`, and nothing is sent until a reload.
- `console_dialog`: `ackAlert` words its dialog before it opens and toggles what it
  finds when it is approved: "This alert will be marked acknowledged" (`app.js:1364`)
  removes the acknowledgement of another operator that arrived in between
  (`app.js:1372`).

Met while modelling, not kept as runs. In the server and the synchroniser:

- `putThresholds` saves the file and sets the running values under no common lock
  (`admin.go:159`); of two requests the file can keep one and the poller the other
  until a restart, both answered ok.
- The rollback of an import or a deletion compares the file with what it wrote
  (`backup.go:397`, 416; `admin.go:651`), not with whose write it is: if accepted edits
  have brought the file back to that value, the last of them is undone in the file and
  stays at run time until a restart.
- The same rollbacks, and that of the notification settings (`admin.go:223-242`), write back
  references without asking whether their credentials are still there: a save of another section
  in between makes the section they restore the generation before last, and prunes it
  (`persist.go:244`). The config file then refers to a credential that is gone, against
  `admin.go:218-222` and `secretrefs.go:188-191`, and the next start cannot read it.
- A "committed" audit record whose write failed only in the directory sync is in the
  file (`events.go:477`, against its comment at 37-39); if the "rolled_back" record
  fails as well and the process restarts, the trail lists a rolled-back deletion as
  committed.
- Two tabs of one browser overwrite each other's outbox (`shared_sync.js:137`, against
  `app.js:1764-1766`); an edit that was saved but not sent is gone after a reload.

- `docs/NOTIFICATIONS.md:90` "Attempts stop at `retry_max`": each crash between claim
  and result adds one attempt (`RetryBounded` states the true bound).
- `docs/NOTIFICATIONS.md:61-62` says recovery is paused while any source is
  uncertain; a host with its own permission recovers.
- `docs/NOTIFICATIONS.md:84-85` says a recurrence gets a new activation; once the
  records are pruned, one with an unchanged start time gets the old one again.
- `secretrefs.go:188-191` says cleanup keeps the `.bak` generation resolvable; after
  a failed write of `.bak` the older `.bak` is not (`BackupResolves` leaves this out).
- `app.js:866` says the queue keeps set and delete in order; a PUT that its client
  gave up on can be handled after its successor and bring a removed mark back.
- A failed save during a drain leaves the kind blocked with an empty queue: reads are
  skipped from then on (`Converges` leaves such a tab out, as it does `sync_stuck`).

In the console:

- Model: the fingerprint (`kpi.js:52-104`) holds neither the display metadata of a device
  nor the thresholds, so a saved edit of them is shown with the next good poll. A state
  alert without a start time has a fixed key: acknowledging one outage mutes the next.
  The first tick may store an empty sound baseline before the first poll
  (`app.js:1611-1618`). A failed first poll counts as data for deep links (231-236).
- Navigation: a deletion answered after the operator came back to the page of the device clears
  the selection and leaves the view (`manage.js:1656`): the address becomes `#/detail`, which is read
  as the overview (`app.js:198-200`), so a reload or Back leads elsewhere.
- Polling: an edit saved while a poll is in flight is overwritten by its answer
  (`data.js:417-419`; `EditHeld` leaves it out). An older overlapping poll that fails writes back the
  sample flag it read (`data.js:489`, against the comment at 492).
- Topology: a device hosted by a hosted device is in no group; the tallies ignore
  acknowledgements. A licence date in ISO form is unknown on the device page and dated
  in the overview.
- Device page: an answer that comes after leaving and reopening resets `busy` and closes
  a newer dialog (`detail.js:2275-2288`); the consequence text of an open dialog is not
  renewed (2152-2164); a device that left keeps its last page (2497-2503); the buttons
  of a node keep their target when the nodes are reordered (809-810, 1043-1057); an unfocused draft
  of a note is overwritten; the pair card calls nodes duplex and protected while none is red, one in
  maintenance included (`pairState`, 557-566), where the server reports simplex.
- Device management: an answer that arrives while the screen is unmounted leaves the form
  busy (`manage.js:275-298`, 1305-1309, 1569-1571); deleting a device while another
  dialog about it is open brings its marks back (1641-1643).
- Settings: a failed load shows the defaults as loaded, so the next policy click saves
  "disabled" (`settings.js:641-643`, 713-715, 1097); a load that answers late overwrites what
  was saved; a save that timed out but was applied is rolled back on the page
  (against 689); answers after leaving use a page that is gone (import, thresholds).
- Incidents: without a model the chips keep their old counts (`incidents.js:419-446`); the
  signature of the log omits severity and label (731-732), so a row of which only these change
  keeps the old ones; Pause changes labels only
  (698-722); the grouped acknowledgement (190-228) has no guard for the sample fleet,
  which `handleAction` has (`app.js:1248`).

## 7. Not modelled

On the server: byte formats, parsers and device protocols; TLS, headers and passwords;
the legacy escalation claims of `state.go`, which the console no longer uses, and its
replacement of a whole map; an outbox that cannot be read back at load; the demo data;
the deployment scripts; and the planned parts of section 5.

In the browser: drawing itself (charts, SVG, pan and zoom, the 3D view of the topology,
icons, styles), wording in two languages, keyboard shortcuts, sound and desktop
notifications, display preferences, and the overview, clusters and capacity screens, which draw the
model without deciding anything. They make up most of the remaining lines of
`topology.js`, `detail.js` (screen), `overview.js`, `clusters.js` and `capacity.js`.

Within modelled parts: logging, and validation of requests that changes nothing.
