----------------------------- MODULE AlertEngine -----------------------------
(***************************************************************************)
(* The server-resident notification engine (internal/alerting/engine.go).  *)
(*                                                                         *)
(* ScanOnce reads a policy (critical signals, source readiness, operator   *)
(* silence), reconciles it with the remembered conditions, queues webhook  *)
(* deliveries, persists the queue and then sends what is due: up to        *)
(* Concurrency requests at a time, each claimed on disk before it starts.  *)
(* UpdateConfig and ScanOnce exclude each other (scanMu); the goroutines   *)
(* that send do not, they only share the mutex mu, so every action below   *)
(* is one critical section of mu.                                          *)
(*                                                                         *)
(* Time is a natural number; 0 is Go's zero time.  A delivery ID is a hash *)
(* of (condition key, kind, activation time); the model uses the triple.   *)
(***************************************************************************)
EXTENDS Integers, FiniteSets

CONSTANTS
    Keys,            \* condition keys
    Hosts,           \* device ids
    HostOf,          \* the host a key belongs to (a key is built from its host)
    NoEscalation,    \* collector-health keys: Signal.SuppressEscalation
    Configs,         \* notification settings an operator may save
    InitialConfig,   \* the settings of the configuration file at first start
    Retention,       \* how long resolved records are kept (30 days)
    RetryBase,       \* RetryBaseSeconds
    RetryCap,        \* backoff ceiling (one hour)
    Batch,           \* maxDeliveryBatch
    Concurrency,     \* maxDeliveryConcurrency
    StartTimes,      \* start times a collector may report; 0 is "none"
    \* Bounds of the exploration
    Horizon,         \* the clock stops here
    MaxStamp,        \* largest activation time explored
    MaxCollects,     \* how often the sources may change
    MaxSilences,     \* how often acknowledgements and maintenance may change
    MaxFaults,       \* how many writes of the state file may fail
    MaxCrashes,      \* how often the process may stop and restart
    MaxUpdates,      \* how often an operator saves settings
    Spent            \* what each scenario has used up of these bounds when it starts

Counters == [collects : Nat, silences : Nat, faults : Nat, crashes : Nat, updates : Nat]

Kinds == {"critical", "escalation", "recovery"}
Alarms == {"critical", "escalation"}
Outcomes == {"ok", "fail", "failAfterRename"}
Signals == {"absent", "unready", "ready"}

\* Settings that the configuration loader accepts.  escalateAfter = 0 is "off".
Config == [enabled : BOOLEAN, url : Nat, escalateAfter : Nat, retryMax : Nat \ {0}]

ASSUME ConstantsAssumption ==
    /\ HostOf \in [Keys -> Hosts]
    /\ NoEscalation \subseteq Keys
    /\ Configs \subseteq Config
    /\ InitialConfig \in Configs
    /\ Retention \in Nat /\ RetryBase \in Nat \ {0} /\ RetryCap \in Nat \ {0}
    /\ Batch \in Nat \ {0} /\ Concurrency \in Nat \ {0}
    /\ StartTimes \subseteq Nat
    /\ Horizon \in Nat \ {0} /\ MaxStamp \in Nat
    /\ MaxCollects \in Nat /\ MaxSilences \in Nat /\ MaxFaults \in Nat /\ MaxCrashes \in Nat /\ MaxUpdates \in Nat
    /\ Spent \subseteq Counters

\* deliveryID: equal exactly when key, kind and activation are equal.
deliveryID(k, kind, t) == [key |-> k, kind |-> kind, at |-> t]

ID == [key : Keys, kind : Kinds, at : Nat]

Condition == [known : BOOLEAN, firstSeen : Nat, lastSeen : Nat, active : BOOLEAN]

\* A key that has no entry in the conditions map.
Forgotten == [known |-> FALSE, firstSeen |-> 0, lastSeen |-> 0, active |-> FALSE]

Delivery == [createdAt : Nat, nextAttempt : Nat, attempts : Nat, deliveredAt : Nat,
             inactiveAt : Nat, deadLetter : BOOLEAN, lastError : BOOLEAN]

VARIABLES
    \* memory of the engine
    conditions,      \* state.Conditions
    deliveries,      \* state.Deliveries, a function whose domain is the set of IDs
    cfg,             \* the settings in force
    sourceReady,     \* runtime health of the sources
    persistFault,    \* the last write of the state file failed
    silenceFault,    \* the last read of the silence state failed
    lastError,       \* state.LastError: "none", "delivery" or "persist"
    scan,            \* "idle", "deliver" (ScanOnce holds scanMu) or "cancelled"
    due,             \* deliveries this scan still has to claim
    sending,         \* deliveries whose request is under way
    \* the state file
    disk,
    \* what the engine reads through its callbacks
    signals,         \* key -> the signal of the current snapshot
    startedAt,       \* key -> its reported start time
    recoveryReady,   \* hosts whose absence of signals is authoritative
    allReady,        \* every configured source is ready
    acked,           \* keys whose alarm row is acknowledged
    maintenance,     \* hosts in maintenance
    silenceErr,      \* the silence state cannot be read
    clock,
    \* history: what the outside world has seen
    accepted,        \* IDs the webhook receiver took in
    requests,        \* ID -> requests since it was queued or requeued
    recorded,        \* IDs whose acceptance has reached the state file
    \* counters of the exploration
    collects, silences, faults, crashes, updates

memory == <<conditions, deliveries, lastError, persistFault>>
world  == <<signals, startedAt, recoveryReady, allReady, acked, maintenance, silenceErr>>
history == <<accepted, requests, recorded>>
vars == <<conditions, deliveries, cfg, sourceReady, persistFault, silenceFault, lastError,
          scan, due, sending, disk, signals, startedAt, recoveryReady, allReady, acked,
          maintenance, silenceErr, clock, accepted, requests, recorded,
          collects, silences, faults, crashes, updates>>
-----------------------------------------------------------------------------
NoDeliveries == [id \in {} |-> 0]

Init ==
    /\ conditions = [k \in Keys |-> Forgotten]
    /\ deliveries = NoDeliveries
    /\ cfg = InitialConfig
    /\ sourceReady = FALSE /\ persistFault = FALSE /\ silenceFault = FALSE
    /\ lastError = "none"
    /\ scan = "idle" /\ due = {} /\ sending = {}
    /\ disk = [conditions |-> conditions, deliveries |-> deliveries]
    /\ signals = [k \in Keys |-> "absent"]
    /\ startedAt = [k \in Keys |-> 0]
    /\ recoveryReady = {} /\ allReady = FALSE
    /\ acked = {} /\ maintenance = {} /\ silenceErr = FALSE
    /\ clock = 1
    /\ accepted = {} /\ requests = NoDeliveries /\ recorded = {}
    /\ \E s \in Spent : /\ collects = s.collects /\ silences = s.silences
                       /\ faults = s.faults /\ crashes = s.crashes /\ updates = s.updates
-----------------------------------------------------------------------------
(* Errors and persistence *)

Undelivered(d, id) == d[id].deliveredAt = 0

\* latestDeliveryErrorLocked
latestDeliveryError(d) ==
    IF \E id \in DOMAIN d : Undelivered(d, id) /\ d[id].lastError THEN "delivery" ELSE "none"

\* refreshDeliveryErrorLocked: no effect while a persistence fault is shown.
refreshDeliveryError(d) == IF persistFault THEN lastError ELSE latestDeliveryError(d)

\* Deliveries of a state file that are marked as delivered.
Recorded(f) == {id \in DOMAIN f.deliveries : ~Undelivered(f.deliveries, id)}

\* The engine has let go of this activation: its retention is over.
Vanished(id) ==
    /\ \A kind \in Kinds : deliveryID(id.key, kind, id.at) \notin DOMAIN deliveries'
    /\ ~(conditions'[id.key].known /\ conditions'[id.key].firstSeen = id.at)

\* writeStateLocked replaces the file atomically; an error after the rename
\* (the directory sync) is reported although the file has changed.
writeState(out, c, d) ==
    disk' = IF out = "fail" THEN disk ELSE [conditions |-> c, deliveries |-> d]

\* Mutant of persist: a failed directory sync is taken for a success.
Mut_persistIgnoresSync(out, c, d, refreshed) ==
    /\ faults' = IF out = "ok" THEN faults ELSE faults + 1
    /\ faults' <= MaxFaults
    /\ writeState(out, c, d)
    /\ persistFault' = (out = "fail")
    /\ lastError' = IF out = "fail" THEN "persist" ELSE latestDeliveryError(d)
    /\ recorded' = recorded

\* persistLocked and, on an error, markPersistFailureLocked.  c and d are what
\* is written, refreshed is state.LastError before the write.
persist(out, c, d, refreshed) ==
    /\ faults' = IF out = "ok" THEN faults ELSE faults + 1
    /\ faults' <= MaxFaults
    /\ writeState(out, c, d)
    /\ persistFault' = (out # "ok")
    /\ lastError' = IF out # "ok" THEN "persist"
                    ELSE IF persistFault THEN latestDeliveryError(d) ELSE refreshed
    /\ recorded' = {id \in recorded \cup (IF out = "fail" THEN {} ELSE Recorded(disk')) : ~Vanished(id)}
-----------------------------------------------------------------------------
(* Policy *)

Absent(k) == signals[k] = "absent" /\ (allReady \/ HostOf[k] \in recoveryReady)

CurrentActivation(c, id) == c[id.key].known /\ c[id.key].firstSeen = id.at

\* deliveryAllowedLocked
deliveryAllowed(c, id) ==
    \/ id.kind = "recovery"
    \/ /\ CurrentActivation(c, id) /\ c[id.key].active
       /\ signals[id.key] # "unready"
       /\ ~Absent(id.key)
       /\ HostOf[id.key] \notin maintenance
       /\ id.kind = "escalation" => id.key \notin NoEscalation \cup acked
-----------------------------------------------------------------------------
(* Reconciliation: the first critical section of ScanOnce *)

Observed(k) == signals[k] = "ready"
Starts(k) == Observed(k) /\ ~conditions[k].active

\* The activation time before retained IDs are avoided.
ProposedStart(k) ==
    LET c == conditions[k]
        s == IF startedAt[k] = 0 \/ startedAt[k] > clock THEN clock ELSE startedAt[k]
    IN  IF ~(c.known /\ s <= c.lastSeen) THEN s
        ELSE IF clock > c.firstSeen THEN clock ELSE c.firstSeen + 1

Collides(k, t) == \E id \in DOMAIN deliveries : id.key = k /\ id.at = t

\* The times the collision loop tries, in their order: the proposed one, then
\* now (if that is later) and its successors.
Tried(k, t) == t = ProposedStart(k) \/ (t > ProposedStart(k) /\ t >= clock)

IsActivation(k, t) ==
    /\ Tried(k, t) /\ ~Collides(k, t)
    /\ \A u \in 0..(t - 1) : Tried(k, u) => Collides(k, u)

\* Bound: every activation time that is needed is at most MaxStamp.
ActivationsFit == \A k \in Keys : Starts(k) => \E t \in 0..MaxStamp : IsActivation(k, t)

Activation(k) == CHOOSE t \in 0..MaxStamp : IsActivation(k, t)

Recovers(k) == conditions[k].active /\ Absent(k)

\* Mutant of ReconciledCondition: a recovery leaves the condition active.
Mut_RecoveryKeepsActive(k) ==
    LET c == conditions[k] IN
    IF Starts(k) THEN [known |-> TRUE, firstSeen |-> Activation(k), lastSeen |-> clock, active |-> TRUE]
    ELSE IF Observed(k) \/ Recovers(k) THEN [c EXCEPT !.lastSeen = clock]
    ELSE c

\* Conditions after ingestion, recovery and retention.
ReconciledCondition(k) ==
    LET c == conditions[k] IN
    IF Starts(k) THEN [known |-> TRUE, firstSeen |-> Activation(k), lastSeen |-> clock, active |-> TRUE]
    ELSE IF Observed(k) THEN [c EXCEPT !.lastSeen = clock]
    ELSE IF Recovers(k) THEN [c EXCEPT !.active = FALSE, !.lastSeen = clock]
    ELSE IF ~c.active /\ clock - c.lastSeen > Retention THEN Forgotten
    ELSE c

\* Mutant of CriticalDelivered: a queued alarm counts as a delivered one.
Mut_CriticalQueued(k, t) == deliveryID(k, "critical", t) \in DOMAIN deliveries

CriticalDelivered(k, t) ==
    /\ deliveryID(k, "critical", t) \in DOMAIN deliveries
    /\ ~Undelivered(deliveries, deliveryID(k, "critical", t))

MayEscalate(k, t) ==
    /\ k \notin NoEscalation \cup acked
    /\ cfg.escalateAfter > 0
    /\ CriticalDelivered(k, t)
    /\ clock - t >= cfg.escalateAfter

\* Mutant of MayAlarm: the alarm is queued at its first sighting only.
Mut_FirstSightingOnly(k) == Starts(k) /\ HostOf[k] \notin maintenance

MayAlarm(k) == Observed(k) /\ HostOf[k] \notin maintenance

\* Mutant of Wanted: maintenance holds back the recovery as it holds back the alarms.
Mut_RecoveryNotInMaintenance(c) ==
    {deliveryID(k, "critical", c[k].firstSeen) :
        k \in {x \in Keys : MayAlarm(x)}}
    \cup
    {deliveryID(k, "escalation", c[k].firstSeen) :
        k \in {x \in Keys : MayAlarm(x) /\ MayEscalate(x, c[x].firstSeen)}}
    \cup
    {deliveryID(k, "recovery", c[k].firstSeen) :
        k \in {x \in Keys : Recovers(x) /\ HostOf[x] \notin maintenance
                           /\ CriticalDelivered(x, c[x].firstSeen)}}

\* The IDs enqueueLocked is called for; c are the reconciled conditions.
Wanted(c) ==
    {deliveryID(k, "critical", c[k].firstSeen) :
        k \in {x \in Keys : MayAlarm(x)}}
    \cup
    {deliveryID(k, "escalation", c[k].firstSeen) :
        k \in {x \in Keys : MayAlarm(x) /\ MayEscalate(x, c[x].firstSeen)}}
    \cup
    {deliveryID(k, "recovery", c[k].firstSeen) :
        k \in {x \in Keys : Recovers(x) /\ CriticalDelivered(x, c[x].firstSeen)}}

NewDelivery ==
    [createdAt |-> clock, nextAttempt |-> clock, attempts |-> 0, deliveredAt |-> 0,
     inactiveAt |-> 0, deadLetter |-> FALSE, lastError |-> FALSE]

\* enqueueLocked: an ID that is already there is left alone.
Enqueued(c) ==
    [id \in DOMAIN deliveries \cup Wanted(c) |->
        IF id \in DOMAIN deliveries THEN deliveries[id] ELSE NewDelivery]

\* Records of the active activation are pinned whatever their age.
Pinned(c, id) == CurrentActivation(c, id) /\ c[id.key].active

\* A record that is not pinned starts ageing at its resolution.
Aged(c, q, id) ==
    IF Pinned(c, id) \/ q[id].inactiveAt # 0 THEN q[id]
    ELSE [q[id] EXCEPT !.inactiveAt = IF CurrentActivation(c, id) THEN c[id.key].lastSeen ELSE clock]

Obsolete(c, q, id) == id.kind # "recovery" /\ Undelivered(q, id) /\ ~Pinned(c, id)

Expired(c, q, id) ==
    LET a == Aged(c, q, id) IN
    ~Pinned(c, id) /\ clock - a.inactiveAt > Retention /\ clock - a.deliveredAt > Retention

ReconciledDeliveries(c) ==
    LET q == Enqueued(c) IN
    [id \in {x \in DOMAIN q : ~Obsolete(c, q, x) /\ ~Expired(c, q, x)} |-> Aged(c, q, id)]

\* What may be sent at this time under the policy just read.
Due(c, d) ==
    {id \in DOMAIN d : /\ Undelivered(d, id) /\ ~d[id].deadLetter
                       /\ d[id].nextAttempt <= clock
                       /\ deliveryAllowed(c, id)}

\* A batch: the oldest Batch due items; ties are broken arbitrarily.
IsBatch(b, all, d) ==
    /\ b \subseteq all
    /\ Cardinality(b) = IF Cardinality(all) <= Batch THEN Cardinality(all) ELSE Batch
    /\ \A x \in b, y \in all \ b : d[x].createdAt <= d[y].createdAt

\* Notifications are switched off: ScanOnce returns at once.
ScanDisabled == scan = "idle" /\ ~cfg.enabled /\ UNCHANGED vars

\* The silence state cannot be read: nothing is reconciled or sent.
ScanSilenceUnavailable ==
    /\ scan = "idle" /\ cfg.enabled /\ silenceErr
    /\ sourceReady' = allReady
    /\ silenceFault' = TRUE
    /\ UNCHANGED <<memory, world, history, cfg, scan, due, sending, disk, clock,
                   collects, silences, faults, crashes, updates>>

ScanReconcile(out) ==
    LET c == [k \in Keys |-> ReconciledCondition(k)]
        d == ReconciledDeliveries(c)
    IN
    /\ scan = "idle" /\ cfg.enabled /\ ~silenceErr
    /\ ActivationsFit
    /\ silenceFault' = FALSE
    /\ sourceReady' = allReady
    /\ conditions' = c
    /\ deliveries' = d
    /\ persist(out, c, d, refreshDeliveryError(d))
    /\ IF out # "ok"
       THEN UNCHANGED <<scan, due>>
       ELSE /\ \E b \in SUBSET Due(c, d) : IsBatch(b, Due(c, d), d) /\ due' = b
            /\ scan' = IF due' = {} THEN "idle" ELSE "deliver"
    /\ requests' = [id \in {x \in DOMAIN requests :
                                /\ ~Vanished(x)
                                /\ x \in DOMAIN d => x \in DOMAIN deliveries} |-> requests[id]]
    /\ UNCHANGED <<world, cfg, sending, clock, accepted, collects, silences, crashes, updates>>
-----------------------------------------------------------------------------
(* Sending *)

\* The next item of the batch, in order of creation, once a slot is free.
\* (The item is still in the queue: nothing removes one while scanMu is held.)
NextDue(id) ==
    /\ scan = "deliver" /\ Cardinality(sending) < Concurrency
    /\ id \in due
    /\ \A x \in due : deliveries[id].createdAt <= deliveries[x].createdAt

\* The refreshed policy cannot be read: the rest of the batch is given up.
ClaimSilenceUnavailable(id) ==
    /\ NextDue(id) /\ silenceErr
    /\ silenceFault' = TRUE
    /\ due' = {}
    /\ UNCHANGED <<memory, world, history, cfg, sourceReady, scan, sending, disk, clock,
                   collects, silences, faults, crashes, updates>>

\* The refreshed policy forbids the item: no attempt is spent on it.
ClaimSkip(id) ==
    /\ NextDue(id) /\ ~silenceErr
    /\ ~deliveryAllowed(conditions, id)
    /\ due' = due \ {id}
    /\ UNCHANGED <<memory, world, history, cfg, sourceReady, silenceFault, scan, sending,
                   disk, clock, collects, silences, faults, crashes, updates>>

\* Mutant of Claim: the request starts before its attempt is written.
Mut_ClaimNotWritten(id, out) ==
    /\ NextDue(id) /\ ~silenceErr /\ deliveryAllowed(conditions, id)
    /\ conditions' = conditions
    /\ deliveries' = [deliveries EXCEPT ![id].attempts = @ + 1]
    /\ persist(out, conditions, deliveries, lastError)
    /\ due' = due \ {id} /\ sending' = sending \cup {id}
    /\ requests' = [x \in DOMAIN requests \cup {id} |->
                      (IF x \in DOMAIN requests THEN requests[x] ELSE 0) + (IF x = id THEN 1 ELSE 0)]
    /\ UNCHANGED <<world, cfg, sourceReady, silenceFault, scan, clock, accepted,
                   collects, silences, crashes, updates>>

\* The attempt is counted on disk before the request starts.  If that write
\* fails the count is taken back in memory and the scan gives up.
Claim(id, out) ==
    LET claimed == [deliveries EXCEPT ![id].attempts = @ + 1] IN
    /\ NextDue(id) /\ ~silenceErr
    /\ deliveryAllowed(conditions, id)
    /\ conditions' = conditions
    /\ deliveries' = IF out = "ok" THEN claimed ELSE deliveries
    /\ persist(out, conditions, claimed, lastError)
    /\ IF out = "ok"
       THEN /\ due' = due \ {id}
            /\ sending' = sending \cup {id}
            /\ requests' = [x \in DOMAIN requests \cup {id} |->
                              (IF x \in DOMAIN requests THEN requests[x] ELSE 0)
                              + (IF x = id THEN 1 ELSE 0)]
       ELSE /\ due' = {}
            /\ UNCHANGED <<sending, requests>>
    /\ UNCHANGED <<world, cfg, sourceReady, silenceFault, scan, clock, accepted,
                   collects, silences, crashes, updates>>

\* Exponential backoff with a ceiling.
Backoff(n) ==
    LET delay == RetryBase * 2^(n - 1) IN IF delay \in 0..RetryCap THEN delay ELSE RetryCap

Sent(item) == [item EXCEPT !.deliveredAt = clock, !.lastError = FALSE]

Failed(item, permanent) ==
    IF permanent \/ item.attempts >= cfg.retryMax
    THEN [item EXCEPT !.lastError = TRUE, !.deadLetter = TRUE]
    ELSE [item EXCEPT !.lastError = TRUE, !.nextAttempt = clock + Backoff(item.attempts)]

\* A request ends: accepted (2xx), refused for good (4xx but 408 and 429), or
\* failed for now.  After a time-out the receiver may have taken the message.
Answers == {"accepted", "refused", "failed", "acceptedUnheard"}

Finish(id, answer, out) ==
    LET item == IF answer = "accepted" THEN Sent(deliveries[id])
                ELSE Failed(deliveries[id], answer = "refused")
        d == [deliveries EXCEPT ![id] = item]
    IN
    /\ id \in sending
    /\ sending' = sending \ {id}
    /\ accepted' = IF answer \in {"accepted", "acceptedUnheard"} THEN accepted \cup {id} ELSE accepted
    /\ id \in DOMAIN deliveries /\ Undelivered(deliveries, id)
    \* Bound: a retry that would lie beyond the horizon is not explored.
    /\ item.nextAttempt <= Horizon
    /\ conditions' = conditions
    /\ deliveries' = d
    /\ persist(out, conditions, d, refreshDeliveryError(d))
    /\ UNCHANGED <<world, cfg, sourceReady, silenceFault, scan, due, clock, requests,
                   collects, silences, crashes, updates>>

\* deliveries.Wait: ScanOnce releases scanMu after its last request has ended.
ScanEnd ==
    /\ scan = "deliver" /\ due = {} /\ sending = {}
    /\ scan' = "idle"
    /\ UNCHANGED <<memory, world, history, cfg, sourceReady, silenceFault, due, sending,
                   disk, clock, collects, silences, faults, crashes, updates>>
-----------------------------------------------------------------------------
(* Settings, shutdown, restart *)

Requeued(item) == [item EXCEPT !.deadLetter = FALSE, !.attempts = 0, !.lastError = FALSE,
                               !.nextAttempt = clock]

\* UpdateConfig: a new or re-enabled destination gets its dead letters again.
UpdateConfig(new, out) ==
    LET requeue == IF new.url # cfg.url \/ (~cfg.enabled /\ new.enabled)
                   THEN {id \in DOMAIN deliveries : deliveries[id].deadLetter /\ Undelivered(deliveries, id)}
                   ELSE {}
        d == [id \in DOMAIN deliveries |->
                IF id \in requeue THEN Requeued(deliveries[id]) ELSE deliveries[id]]
    IN
    /\ scan \in {"idle", "cancelled"} /\ due = {} /\ sending = {}
    /\ updates < MaxUpdates
    /\ updates' = updates + 1
    /\ conditions' = conditions
    /\ deliveries' = IF out = "ok" THEN d ELSE deliveries
    /\ cfg' = IF out = "ok" THEN new ELSE cfg
    /\ persist(out, conditions, d, refreshDeliveryError(d))
    /\ requests' = [id \in DOMAIN requests |->
                      IF id \in requeue /\ out # "fail" THEN 0 ELSE requests[id]]
    /\ UNCHANGED <<world, sourceReady, silenceFault, scan, due, sending, clock, accepted,
                   collects, silences, crashes>>

\* The context is cancelled: nothing more is claimed, requests under way are
\* still waited for, and no further scan starts in this process.
Cancel ==
    /\ scan # "cancelled" /\ crashes < MaxCrashes
    /\ crashes' = crashes + 1
    /\ scan' = "cancelled" /\ due' = {}
    /\ UNCHANGED <<memory, world, history, cfg, sourceReady, silenceFault, sending, disk,
                   clock, collects, silences, faults, updates>>

\* New and load: everything that is not in the file is lost, and the sources
\* of the new process have not collected anything yet.
Load ==
    /\ conditions' = disk.conditions
    /\ deliveries' = disk.deliveries
    /\ persistFault' = FALSE
    /\ lastError' = latestDeliveryError(disk.deliveries)
    /\ sourceReady' = FALSE /\ silenceFault' = FALSE
    /\ scan' = "idle" /\ due' = {} /\ sending' = {}
    /\ signals' = [k \in Keys |-> "absent"]
    /\ startedAt' = [k \in Keys |-> 0]
    /\ recoveryReady' = {} /\ allReady' = FALSE
    /\ UNCHANGED <<cfg, disk, acked, maintenance, silenceErr, clock, history,
                   collects, silences, faults, updates>>

Restart == scan = "cancelled" /\ Load /\ UNCHANGED crashes

\* A crash: requests under way end without a result (accepted is what the
\* receiver is known to have taken, so it is left as it is).
Crash ==
    /\ scan # "cancelled" /\ crashes < MaxCrashes
    /\ crashes' = crashes + 1
    /\ Load
-----------------------------------------------------------------------------
(* The environment: collectors, operators, time *)

Collect ==
    /\ collects < MaxCollects
    /\ collects' = collects + 1
    /\ \E s \in [Keys -> Signals], t \in [Keys -> StartTimes \cup {0}] :
        /\ \A k \in Keys : IF s[k] = "ready" THEN t[k] \in StartTimes ELSE t[k] = 0
        /\ signals' = s /\ startedAt' = t
    /\ recoveryReady' \in SUBSET Hosts
    /\ allReady' \in BOOLEAN
    /\ UNCHANGED <<memory, history, cfg, sourceReady, silenceFault, scan, due, sending, disk,
                   acked, maintenance, silenceErr, clock, silences, faults, crashes, updates>>

Silence ==
    /\ silences < MaxSilences
    /\ silences' = silences + 1
    /\ acked' \in SUBSET (Keys \ NoEscalation)   \* no ACK row for collector health
    /\ maintenance' \in SUBSET Hosts
    /\ silenceErr' \in BOOLEAN
    /\ UNCHANGED <<memory, history, cfg, sourceReady, silenceFault, scan, due, sending, disk,
                   signals, startedAt, recoveryReady, allReady, clock, collects, faults, crashes, updates>>

Tick ==
    /\ clock < Horizon
    /\ clock' = clock + 1
    /\ UNCHANGED <<memory, world, history, cfg, sourceReady, silenceFault, scan, due, sending,
                   disk, collects, silences, faults, crashes, updates>>
-----------------------------------------------------------------------------
Scan == ScanDisabled \/ ScanSilenceUnavailable \/ \E out \in Outcomes : ScanReconcile(out)

TakeNext ==
    \E id \in due : \/ ClaimSilenceUnavailable(id)
                    \/ ClaimSkip(id)
                    \/ \E out \in Outcomes : Claim(id, out)

Answer == \E id \in sending, answer \in Answers, out \in Outcomes : Finish(id, answer, out)

Next ==
    \/ Scan \/ TakeNext \/ Answer \/ ScanEnd
    \/ \E new \in Configs, out \in Outcomes : UpdateConfig(new, out)
    \/ Cancel \/ Restart \/ Crash
    \/ Collect \/ Silence \/ Tick

Spec == Init /\ [][Next]_vars

\* The ticker keeps calling ScanOnce, every request has a time-out, time passes
\* and a cancelled process is started again.  Nothing is assumed of operators
\* and collectors; write faults are finitely many by MaxFaults.
Fairness ==
    /\ WF_vars(Scan) /\ WF_vars(TakeNext) /\ WF_vars(Answer) /\ WF_vars(ScanEnd)
    /\ WF_vars(Tick) /\ WF_vars(Restart)

FairSpec == Spec /\ Fairness
-----------------------------------------------------------------------------
(* Properties *)

IsQueue(d) == DOMAIN d \subseteq ID /\ d \in [DOMAIN d -> Delivery]

\* Every variable has the type its Go counterpart has, the work of a scan is
\* queued work, and at most maxDeliveryConcurrency requests run at once.
TypeOK ==
    /\ conditions \in [Keys -> Condition] /\ IsQueue(deliveries)
    /\ cfg \in Configs
    /\ sourceReady \in BOOLEAN /\ persistFault \in BOOLEAN /\ silenceFault \in BOOLEAN
    /\ lastError \in {"none", "delivery", "persist"}
    /\ scan \in {"idle", "deliver", "cancelled"}
    /\ due \cup sending \subseteq DOMAIN deliveries
    /\ Cardinality(sending) <= Concurrency
    /\ DOMAIN disk = {"conditions", "deliveries"}
    /\ disk.conditions \in [Keys -> Condition] /\ IsQueue(disk.deliveries)
    /\ signals \in [Keys -> Signals] /\ startedAt \in [Keys -> Nat]
    /\ recoveryReady \subseteq Hosts /\ allReady \in BOOLEAN
    /\ acked \subseteq Keys /\ maintenance \subseteq Hosts /\ silenceErr \in BOOLEAN
    /\ clock \in Nat \ {0}
    /\ accepted \subseteq ID /\ recorded \subseteq ID
    /\ DOMAIN requests \subseteq ID /\ requests \in [DOMAIN requests -> Nat]
    /\ collects \in Nat /\ silences \in Nat /\ faults \in Nat /\ crashes \in Nat /\ updates \in Nat

\* The durable claim: whatever fails or crashes, the attempts counted in the
\* state file cover every request made since the item was queued or requeued,
\* and a request under way has its record on disk (engine.go:531).
ClaimCoversRequests ==
    /\ sending \subseteq DOMAIN disk.deliveries
    /\ \A id \in DOMAIN requests \cap DOMAIN disk.deliveries :
           requests[id] <= disk.deliveries[id].attempts

\* Nobody is told of an escalation or a recovery of an activation whose
\* critical alarm the receiver has not taken, in memory or after a restart.
AlarmOrder ==
    \A d \in {deliveries, disk.deliveries} : \A id \in DOMAIN d :
        id.kind # "critical" => deliveryID(id.key, "critical", id.at) \in accepted

\* Once a recovery has been requested, no alarm of that activation is sent:
\* the receiver never sees an alarm overtake its own recovery.
NoAlarmAfterRecovery ==
    \A id \in sending : id.kind \in Alarms =>
        deliveryID(id.key, "recovery", id.at) \notin DOMAIN requests

\* A delivery whose acceptance is on disk is not sent again while any record of
\* its activation is retained by the engine: neither by a retry, nor after a restart, nor
\* because a recurrence took over its ID.
NoResend == sending \cap recorded = {}

\* Attempts exceed the largest retry_max by at most one per process lifetime
\* that ended between a claim and its result.
RetryBounded ==
    \A id \in DOMAIN deliveries : \E c \in Configs :
        deliveries[id].attempts <= c.retryMax + crashes

\* The "healthy" flag of Status.
Healthy ==
    /\ \A id \in DOMAIN deliveries : ~deliveries[id].deadLetter
    /\ latestDeliveryError(deliveries) = "none"
    /\ lastError = "none" /\ ~silenceFault
    /\ cfg.enabled => sourceReady

\* Deliveries are disciplined across failures and restarts: none is overtaken by
\* the recovery of its activation, sent again once recorded, or retried for ever.
NoStrayDelivery == NoAlarmAfterRecovery /\ NoResend /\ RetryBounded

\* Health is never reported while the memory is ahead of the state file, and
\* a persistence error is shown exactly as long as it lasts.
HealthyIsDurable ==
    /\ Healthy => disk.conditions = conditions /\ disk.deliveries = deliveries
    /\ (lastError = "persist") <=> persistFault

Settled(id) == ~Undelivered(deliveries, id) \/ deliveries[id].deadLetter

\* An alarm that stays observed, with readable silence state and no maintenance,
\* is delivered or becomes a visible dead letter, whatever maintenance, outage,
\* write fault or restart came before.
AlarmGetsOut ==
    \A k \in Keys :
        <>[](cfg.enabled /\ ~silenceErr /\ Observed(k) /\ HostOf[k] \notin maintenance)
        => <>[]LET id == deliveryID(k, "critical", conditions[k].firstSeen) IN
               conditions[k].active /\ id \in DOMAIN deliveries /\ Settled(id)

\* A condition that stays authoritatively absent is resolved and its unsent alarms are
\* withdrawn; every activation whose alarm was taken and written down so has its recovery
\* queued, and that is delivered or a visible dead letter, even during maintenance and
\* whatever write fault or restart came between (engine.go:436-441).
RecoveryGetsOut ==
    \A k \in Keys :
        <>[](cfg.enabled /\ ~silenceErr /\ Absent(k))
        => <>[](/\ ~conditions[k].active
                /\ \A id \in DOMAIN deliveries : id.key = k => Settled(id)
                /\ \A id \in recorded : id.key = k /\ id.kind = "critical" =>
                       deliveryID(k, "recovery", id.at) \in DOMAIN deliveries)

=============================================================================
