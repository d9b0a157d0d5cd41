----------------------------- MODULE EdgeManager -----------------------------
(***************************************************************************)
(* The manager of the edge collectors (internal/poller/edgemgr.go) and its *)
(* workers (internal/edge/worker.go).                                      *)
(*                                                                         *)
(* A worker polls a fixed list of devices in rounds; a change of the list  *)
(* cancels it and starts another.  Until the new one has finished a round, *)
(* readers are shown the last good snapshot, for a limited time, and a     *)
(* status that says no round was finished.  A cancelled worker goes on     *)
(* with the round it is in, whose polls then fail.                         *)
(*                                                                         *)
(* Every method of the manager runs under its mutex and is one action.     *)
(***************************************************************************)
EXTENDS Integers, FiniteSets, Sequences

CONSTANTS
    Keys,           \* device keys
    Supported,      \* those whose kind and address NewWorker accepts
    Metas,          \* display metadata
    None,
    FirstDevices,   \* the configured devices at start
    FallbackLimit,  \* the 130 s of LatestWithStatus, in ticks
    MaxOps,         \* bound on Add, Remove and PatchMeta
    MaxPanics       \* bound on rounds that panic

\* A configured device; inc tells a device from an earlier one with the same key.
Device == [inc : Nat, meta : Metas]

\* What a worker publishes of a device: by which worker, and whether its context may
\* have been cancelled before the device was polled.
Entry == [inc : Nat, meta : Metas, by : Nat, cut : BOOLEAN]

Snapshot == [Keys -> Entry \union {None}]

Nothing == [k \in Keys |-> None]

ASSUME ConstantsAssumption ==
    /\ IsFiniteSet(Keys) /\ Supported \subseteq Keys
    /\ FirstDevices \in [Keys -> Device \union {None}]
    /\ \A k \in Keys : FirstDevices[k] # None => FirstDevices[k].inc = 0
    /\ FallbackLimit \in Nat /\ MaxOps \in Nat /\ MaxPanics \in Nat
    /\ None \notin Entry \union Device

VARIABLES
    devices,    \* EdgeManager.devices
    worker,     \* EdgeManager.worker: its number, 0 for nil
    workers,    \* every worker there was: its list, context, loop and last round
    lastGood,   \* EdgeManager.lastGood
    age,        \* the ticks since EdgeManager.lastGoodAt, up to FallbackLimit
    rootDone,   \* the process is shutting down: the context of every worker's context
    stopping,   \* EdgeManager.stopping
    seen,       \* ghost: ticks since a reader was shown a device from a round
    ops, panics

vars == <<devices, worker, workers, lastGood, age, rootDone, stopping, seen, ops, panics>>

Worker == [devices : [Keys -> Device \union {None}], cancelled : BOOLEAN,
           pc : {"round", "sleep", "ended"}, latest : Snapshot,
           done : BOOLEAN, error : BOOLEAN]

\* NewWorker and the first call of safeRound by Start: an empty snapshot, no round.
\* The worker's context is a child of the root context.
NewWorker(devs) ==
    [devices |-> [k \in Keys |-> IF k \in Supported THEN devs[k] ELSE None],
     cancelled |-> rootDone, pc |-> "round", latest |-> Nothing,
     done |-> FALSE, error |-> FALSE]

HasDevices(devs) == \E k \in Keys : devs[k] # None

Init ==
    /\ devices = FirstDevices
    /\ rootDone = FALSE
    /\ workers = IF HasDevices(devices) THEN <<NewWorker(devices)>> ELSE <<>>
    /\ worker = IF HasDevices(devices) THEN 1 ELSE 0
    /\ lastGood = Nothing
    /\ age = FallbackLimit
    /\ stopping = FALSE
    /\ seen = [k \in Keys |-> FallbackLimit]
    /\ ops = 0
    /\ panics = 0

-----------------------------------------------------------------------------
(* Reading. *)

\* Worker.Snapshot of the current worker.
Current == IF worker = 0 THEN Nothing ELSE workers[worker].latest

\* LatestWithStatus: the current round, or for a while the last good one.
Listed ==
    IF Current # Nothing THEN Current ELSE IF age < FallbackLimit THEN lastGood ELSE Nothing

\* Its list holds configured devices only.
Shown == [k \in Keys |-> IF devices[k] = None THEN None ELSE Listed[k]]

Mut_StatusOfFallback ==
    [configured |-> Cardinality({k \in Keys : devices[k] # None}),
     done |-> Listed # Nothing,
     error |-> worker # 0 /\ workers[worker].error]

\* And its status is that of the current worker.
Status ==
    [configured |-> Cardinality({k \in Keys : devices[k] # None}),
     done |-> worker # 0 /\ workers[worker].done,
     error |-> worker # 0 /\ workers[worker].error]

\* edgeNotificationSourceReady: recoveries may be concluded from what is shown.
SourceReady == Status.configured = 0 \/ (Status.done /\ ~Status.error)

\* Latest and LatestWithStatus remember what they show.
Latest ==
    /\ IF Current = Nothing
       THEN UNCHANGED <<lastGood, age, seen>>
       ELSE /\ lastGood' = Current
            /\ age' = 0
            /\ seen' = [k \in Keys |-> IF Shown[k] # None THEN 0 ELSE seen[k]]
    /\ UNCHANGED <<devices, worker, workers, rootDone, stopping, ops, panics>>

-----------------------------------------------------------------------------
(* Changing the list. *)

Cancel(w) == IF w = 0 THEN workers ELSE [workers EXCEPT ![w].cancelled = TRUE]

\* respawnLocked and spawnLocked: the current worker is cancelled and, unless the list
\* is empty or the manager is stopping, another one started.
respawn(devs) ==
    IF HasDevices(devs) /\ ~stopping
    THEN workers' = Append(Cancel(worker), NewWorker(devs)) /\ worker' = Len(workers) + 1
    ELSE workers' = Cancel(worker) /\ worker' = 0

Mut_AddClears(k, m) ==
    /\ ops < MaxOps /\ ops' = ops + 1
    /\ devices[k] = None
    /\ devices' = [devices EXCEPT ![k] = [inc |-> ops', meta |-> m]]
    /\ respawn(devices')
    /\ lastGood' = Nothing
    /\ UNCHANGED <<age, rootDone, stopping, seen, panics>>

Mut_AddUnpolled(k, m) ==
    /\ ops < MaxOps /\ ops' = ops + 1
    /\ devices[k] = None
    /\ devices' = [devices EXCEPT ![k] = [inc |-> ops', meta |-> m]]
    /\ IF worker = 0 THEN respawn(devices') ELSE UNCHANGED <<workers, worker>>
    /\ UNCHANGED <<lastGood, age, rootDone, stopping, seen, panics>>

\* Add; addDevice has refused a key that exists.
Add(k, m) ==
    /\ ops < MaxOps /\ ops' = ops + 1
    /\ devices[k] = None
    /\ devices' = [devices EXCEPT ![k] = [inc |-> ops', meta |-> m]]
    /\ respawn(devices')
    /\ UNCHANGED <<lastGood, age, rootDone, stopping, seen, panics>>

Mut_RemoveKeepsSnapshot(k) ==
    /\ ops < MaxOps /\ ops' = ops + 1
    /\ devices[k] # None
    /\ devices' = [devices EXCEPT ![k] = None]
    /\ respawn(devices')
    /\ seen' = [seen EXCEPT ![k] = FallbackLimit]
    /\ UNCHANGED <<lastGood, age, rootDone, stopping, panics>>

\* Remove also drops the device from the last good snapshot.
Remove(k) ==
    /\ ops < MaxOps /\ ops' = ops + 1
    /\ devices[k] # None
    /\ devices' = [devices EXCEPT ![k] = None]
    /\ lastGood' = [lastGood EXCEPT ![k] = None]
    /\ respawn(devices')
    /\ seen' = [seen EXCEPT ![k] = FallbackLimit]
    /\ UNCHANGED <<age, rootDone, stopping, panics>>

\* PatchMeta: an edit that changes nothing returns early; another one goes to the list
\* and to a copy of the last good snapshot, which is the current round if there is one.
PatchMeta(k, m) ==
    LET good == IF Current # Nothing THEN Current ELSE lastGood
    IN  /\ ops < MaxOps /\ ops' = ops + 1
        /\ devices[k] # None /\ devices[k].meta # m
        /\ devices' = [devices EXCEPT ![k].meta = m]
        /\ lastGood' = IF good[k] = None THEN good ELSE [good EXCEPT ![k].meta = m]
        /\ age' = IF Current # Nothing THEN 0 ELSE age
        /\ respawn(devices')
        /\ UNCHANGED <<rootDone, stopping, seen, panics>>

\* Shutdown first cancels the root context; readers and handlers may still run.
RootCancelled ==
    /\ ~rootDone
    /\ rootDone' = TRUE
    /\ workers' = Cancel(worker)
    /\ UNCHANGED <<devices, worker, lastGood, age, stopping, seen, ops, panics>>

\* Stop: Wait calls it first, once shutdown has seen the notifier and pollers end.  The
\* cancelled worker stays the current one.
Stop ==
    /\ rootDone /\ ~stopping
    /\ stopping' = TRUE
    /\ workers' = Cancel(worker)
    /\ UNCHANGED <<devices, worker, lastGood, age, rootDone, seen, ops, panics>>

-----------------------------------------------------------------------------
(* The loop of a worker, Start. *)

Mut_AfterRoundSleeps(w) == "sleep"

\* The select after a round: a context that is done ends the loop, the timer is not due.
AfterRound(w) == IF workers[w].cancelled THEN "ended" ELSE "sleep"

\* pollRound ends: every device of the list has an entry, at worst a "down" one.
RoundEnds(w) ==
    LET self == workers[w]
        poll(d) == IF d = None THEN None
                   ELSE [inc |-> d.inc, meta |-> d.meta, by |-> w, cut |-> self.cancelled]
    IN  /\ self.pc = "round"
        /\ workers' = [workers EXCEPT ![w].latest = [k \in Keys |-> poll(self.devices[k])],
                                      ![w].done = TRUE,
                                      ![w].error = FALSE,
                                      ![w].pc = AfterRound(w)]
        /\ UNCHANGED <<devices, worker, lastGood, age, rootDone, stopping, seen, ops, panics>>

\* safeRound recovers a panic of the round: the earlier snapshot stays.
RoundPanics(w) ==
    /\ workers[w].pc = "round"
    /\ panics < MaxPanics /\ panics' = panics + 1
    /\ workers' = [workers EXCEPT ![w].error = TRUE, ![w].pc = AfterRound(w)]
    /\ UNCHANGED <<devices, worker, lastGood, age, rootDone, stopping, seen, ops>>

\* The next round; select may still prefer the timer when the context is cancelled.
NextRound(w) ==
    /\ workers[w].pc = "sleep"
    /\ workers' = [workers EXCEPT ![w].pc = "round"]
    /\ UNCHANGED <<devices, worker, lastGood, age, rootDone, stopping, seen, ops, panics>>

Ends(w) ==
    /\ workers[w].pc = "sleep" /\ workers[w].cancelled
    /\ workers' = [workers EXCEPT ![w].pc = "ended"]
    /\ UNCHANGED <<devices, worker, lastGood, age, rootDone, stopping, seen, ops, panics>>

Tick ==
    /\ age < FallbackLimit \/ \E k \in Keys : seen[k] < FallbackLimit
    /\ age' = IF age < FallbackLimit THEN age + 1 ELSE age
    /\ seen' = [k \in Keys |-> IF seen[k] < FallbackLimit THEN seen[k] + 1 ELSE seen[k]]
    /\ UNCHANGED <<devices, worker, workers, lastGood, rootDone, stopping, ops, panics>>

WorkerStep(w) == RoundEnds(w) \/ RoundPanics(w) \/ NextRound(w) \/ Ends(w)

Next ==
    \/ Latest
    \/ \E k \in Keys, m \in Metas : Add(k, m) \/ PatchMeta(k, m)
    \/ \E k \in Keys : Remove(k)
    \/ RootCancelled
    \/ Stop
    \/ \E w \in DOMAIN workers : WorkerStep(w)
    \/ Tick

Spec == Init /\ [][Next]_vars

\* A worker's goroutine runs, its polls have timeouts, and its timer fires.
FairSpec ==
    /\ Spec
    /\ \A w \in 1..(MaxOps + 1) :
          /\ WF_vars(w \in DOMAIN workers /\ (RoundEnds(w) \/ RoundPanics(w)))
          /\ WF_vars(w \in DOMAIN workers /\ (NextRound(w) \/ Ends(w)))

-----------------------------------------------------------------------------
(* Properties. *)

\* The variables keep their types, and the current worker is the newest one.
TypeOK ==
    /\ devices \in [Keys -> Device \union {None}]
    /\ workers \in Seq(Worker)
    /\ worker \in {0, Len(workers)}
    /\ lastGood \in Snapshot
    /\ age \in 0..FallbackLimit
    /\ seen \in [Keys -> 0..FallbackLimit]
    /\ rootDone \in BOOLEAN /\ stopping \in BOOLEAN
    /\ ops \in 0..MaxOps /\ panics \in 0..MaxPanics

\* Readers never see a device that was removed or replaced by one with the same key, nor
\* metadata from before the last edit, whichever worker or snapshot it comes from.
ChangesStick ==
    \A k \in Keys : Shown[k] # None => /\ Shown[k].inc = devices[k].inc
                                       /\ Shown[k].meta = devices[k].meta

\* When the edge source counts as ready, every device that can be polled is shown, as
\* the current worker's own round found it: old values never borrow the readiness of a
\* new worker.
ReadyMeansObserved ==
    SourceReady => \A k \in Supported : devices[k] # None => /\ Shown[k] # None
                                                             /\ Shown[k].by = worker

\* A device that a reader was shown from a round less than the limit ago does not
\* disappear while the list around it changes.
NoFlicker ==
    \A k \in Keys : seen[k] < FallbackLimit /\ devices[k] # None => Shown[k] # None

\* Before the shutdown, no reader is shown what a round polled with a cancelled context.
NoAbortedRoundShown ==
    ~rootDone => \A k \in Keys : Shown[k] # None => ~Shown[k].cut

\* Only the current worker goes on polling, and once the shutdown has begun none does.
OneLiveWorker ==
    \A w \in DOMAIN workers : workers[w].cancelled \/ (w = worker /\ ~rootDone)

\* What readers see was observed: by the current worker when the source counts as
\* ready, never by a cancelled round, and no replaced worker goes on polling.
ShownIsObserved == ReadyMeansObserved /\ NoAbortedRoundShown /\ OneLiveWorker

\* Wait returns: at shutdown every worker ever started ends, those that a last change
\* still started too.
WorkersEnd == rootDone ~> \A w \in DOMAIN workers : workers[w].pc = "ended"

\* A configured device is shown from a round of its own list, again and again, until it
\* is removed or the process shuts down.
DevicePolled ==
    \A k \in Supported :
        (devices[k] # None) ~> (devices[k] = None \/ rootDone \/ Current[k] # None)

=============================================================================
