-------------------------- MODULE EdgeManagerProofs --------------------------
(***************************************************************************)
(* Theorems about EdgeManager, for every set of devices, every number of   *)
(* changes to the list, rounds, panics and ticks: an edit is never undone  *)
(* by an older snapshot, what readers see was observed, and a device does  *)
(* not flicker while the list around it changes.                           *)
(***************************************************************************)
EXTENDS EdgeManager, FiniteSetTheorems, TLAPS

\* What a worker has published is its own list, all of it or nothing; entries polled
\* under a live context are not cut.
Publishes(w) ==
    LET self == workers[w] IN
    /\ \A k \in Keys : self.latest[k] # None =>
           /\ self.devices[k] # None
           /\ self.latest[k].inc = self.devices[k].inc
           /\ self.latest[k].meta = self.devices[k].meta
           /\ self.latest[k].by = w
           /\ self.latest[k].cut => self.cancelled
    /\ IF self.done THEN \A k \in Keys : self.devices[k] # None => self.latest[k] # None
                    ELSE \A k \in Keys : self.latest[k] = None

\* The current worker has the configured list, and only a shutdown cancels it.
Serves ==
    worker # 0 =>
        /\ \A k \in Keys : workers[worker].devices[k] = IF k \in Supported THEN devices[k] ELSE None
        /\ workers[worker].cancelled => rootDone

\* The last good snapshot knows configured devices only, as they are configured now.
Remembers ==
    \A k \in Keys : lastGood[k] # None =>
        /\ k \in Supported /\ devices[k] # None
        /\ lastGood[k].inc = devices[k].inc
        /\ lastGood[k].meta = devices[k].meta
        /\ lastGood[k].cut => rootDone

\* What a reader saw not long ago is in the last good snapshot, which is not older.
Keeps == \A k \in Keys : seen[k] < FallbackLimit => lastGood[k] # None /\ age <= seen[k]

EdgeInv ==
    /\ TypeOK
    /\ \A w \in DOMAIN workers : Publishes(w)
    /\ OneLiveWorker
    /\ Serves
    /\ Remembers
    /\ Keeps

-----------------------------------------------------------------------------
(* What a change of the list does to the workers.                          *)

\* Cancelling the current worker (its cancel function) touches its context only.
LEMMA CancelFacts ==
    ASSUME TypeOK
    PROVE  /\ Cancel(worker) \in Seq(Worker) /\ Len(Cancel(worker)) = Len(workers)
           /\ \A w \in DOMAIN workers :
                /\ Cancel(worker)[w].devices = workers[w].devices
                /\ Cancel(worker)[w].latest = workers[w].latest
                /\ Cancel(worker)[w].done = workers[w].done
                /\ Cancel(worker)[w].cancelled <=> workers[w].cancelled \/ w = worker
<1>1. CASE worker = 0
    <2>1. 0 \notin DOMAIN workers
        BY DEF TypeOK
    <2> QED BY <1>1, <2>1 DEF TypeOK, Cancel
<1>2. CASE worker # 0
    <2>1. worker \in DOMAIN workers /\ worker = Len(workers)
        BY <1>2 DEF TypeOK
    <2>2. Cancel(worker) = [workers EXCEPT ![worker] = [workers[worker] EXCEPT !.cancelled = TRUE]]
        BY <1>2 DEF Cancel
    <2>3. \A w \in DOMAIN workers : workers[w] \in Worker
        BY DEF TypeOK
    <2>4. [workers[worker] EXCEPT !.cancelled = TRUE] \in Worker
        BY <2>1, <2>3 DEF Worker
    <2>5. Cancel(worker) \in Seq(Worker) /\ Len(Cancel(worker)) = Len(workers)
        BY <2>1, <2>2, <2>4 DEF TypeOK
    <2>6. \A w \in DOMAIN workers : Cancel(worker)[w] =
              IF w = worker THEN [workers[worker] EXCEPT !.cancelled = TRUE] ELSE workers[w]
        BY <2>2 DEF TypeOK
    <2>7. LET c == [workers[worker] EXCEPT !.cancelled = TRUE]
          IN  /\ c.devices = workers[worker].devices /\ c.latest = workers[worker].latest
              /\ c.done = workers[worker].done /\ c.cancelled
        BY <2>1, <2>3 DEF Worker
    <2> QED BY <2>5, <2>6, <2>7
<1> QED BY <1>1, <1>2

\* respawnLocked: every older worker is as it was, but for the context of the current
\* one; a new worker, if any, has the new list and has published nothing.
LEMMA RespawnFacts ==
    ASSUME TypeOK, NEW devs \in [Keys -> Device \cup {None}], respawn(devs)
    PROVE  /\ workers' \in Seq(Worker)
           /\ DOMAIN workers \subseteq DOMAIN workers'
           /\ \A w \in DOMAIN workers :
                /\ workers'[w].devices = workers[w].devices
                /\ workers'[w].latest = workers[w].latest
                /\ workers'[w].done = workers[w].done
                /\ workers'[w].cancelled <=> workers[w].cancelled \/ w = worker
           /\ worker' \in {0, Len(workers')}
           /\ \A w \in DOMAIN workers' : w \notin DOMAIN workers => w = worker'
           /\ worker' # 0 => worker' \notin DOMAIN workers /\ workers'[worker'] = NewWorker(devs)
<1>1. NewWorker(devs) \in Worker
    <2>1. Nothing \in Snapshot
        BY DEF Nothing, Snapshot
    <2> QED BY <2>1 DEF NewWorker, Worker, TypeOK
<1>2. CASE HasDevices(devs) /\ ~stopping
    <2>1. workers' = Append(Cancel(worker), NewWorker(devs)) /\ worker' = Len(workers) + 1
        BY <1>2 DEF respawn
    <2>2. workers' \in Seq(Worker) /\ Len(workers') = Len(workers) + 1
        BY <1>1, <2>1, CancelFacts
    <2>3. \A w \in DOMAIN workers : workers'[w] = Cancel(worker)[w]
        BY <2>1, CancelFacts DEF TypeOK
    <2>4. workers'[worker'] = NewWorker(devs)
        BY <2>1, CancelFacts DEF TypeOK
    <2>5. DOMAIN workers = 1..Len(workers) /\ DOMAIN workers' = 1..(Len(workers) + 1) /\ Len(workers) \in Nat
        BY <2>2 DEF TypeOK
    <2> QED BY <2>1, <2>2, <2>3, <2>4, <2>5, CancelFacts
<1>3. CASE ~(HasDevices(devs) /\ ~stopping)
    <2>1. workers' = Cancel(worker) /\ worker' = 0
        BY <1>3 DEF respawn
    <2>2. DOMAIN workers' = DOMAIN workers
        BY <2>1, CancelFacts DEF TypeOK
    <2> QED BY <2>1, <2>2, CancelFacts
<1> QED BY <1>2, <1>3

\* A change of the list keeps what is known of the workers, whatever the list becomes.
LEMMA RespawnKeeps ==
    ASSUME EdgeInv, NEW devs \in [Keys -> Device \cup {None}], respawn(devs),
           devices' = devs, rootDone' = rootDone
    PROVE  /\ \A w \in DOMAIN workers' : Publishes(w)'
           /\ OneLiveWorker'
           /\ Serves'
<1> USE DEF EdgeInv
<1>0. TypeOK
    OBVIOUS
<1>1. \A w \in DOMAIN workers' : w \notin DOMAIN workers => w = worker' /\ w # 0
    BY <1>0, RespawnFacts
<1>2. ASSUME NEW w \in DOMAIN workers'
      PROVE  Publishes(w)'
    <2>1. CASE w \in DOMAIN workers
        BY <2>1, RespawnFacts DEF Publishes
    <2>2. CASE w \notin DOMAIN workers
        <3>1. workers'[w] = NewWorker(devs)
            BY <1>1, <2>2, RespawnFacts
        <3>2. ~NewWorker(devs).done /\ \A k \in Keys : NewWorker(devs).latest[k] = None
            BY DEF NewWorker, Nothing
        <3> QED BY <3>1, <3>2 DEF Publishes
    <2> QED BY <2>1, <2>2
<1>3. OneLiveWorker'
    <2> SUFFICES ASSUME NEW w \in DOMAIN workers'
                 PROVE  workers'[w].cancelled \/ (w = worker' /\ ~rootDone')
        BY DEF OneLiveWorker
    <2>1. CASE w \in DOMAIN workers
        BY <2>1, RespawnFacts DEF OneLiveWorker
    <2>2. CASE w \notin DOMAIN workers
        <3>1. w = worker' /\ workers'[w] = NewWorker(devs)
            BY <1>1, <2>2, RespawnFacts
        <3>2. NewWorker(devs).cancelled = rootDone
            BY DEF NewWorker
        <3> QED BY <3>1, <3>2 DEF TypeOK
    <2> QED BY <2>1, <2>2
<1>4. Serves'
    <2> SUFFICES ASSUME worker' # 0
                 PROVE  /\ \A k \in Keys : workers'[worker'].devices[k] =
                                           IF k \in Supported THEN devs[k] ELSE None
                        /\ workers'[worker'].cancelled = rootDone
        BY DEF Serves
    <2>1. workers'[worker'] = NewWorker(devs)
        BY <1>0, RespawnFacts
    <2> QED BY <2>1 DEF NewWorker
<1> QED BY <1>2, <1>3, <1>4

-----------------------------------------------------------------------------
(* What readers are shown.                                                 *)

\* The snapshot of the current worker (Worker.Snapshot) is the configured list as far as
\* it can be polled, all of it or nothing.
LEMMA CurrentFacts ==
    ASSUME EdgeInv
    PROVE  /\ Current \in Snapshot
           /\ \A k \in Keys : Current[k] # None =>
                 /\ k \in Supported /\ devices[k] # None
                 /\ Current[k].inc = devices[k].inc
                 /\ Current[k].meta = devices[k].meta
                 /\ Current[k].by = worker
                 /\ Current[k].cut => rootDone
           /\ Current # Nothing => \A k \in Supported : devices[k] # None => Current[k] # None
           /\ worker # 0 /\ workers[worker].done =>
                 \A k \in Supported : devices[k] # None => Current[k] # None
<1> USE DEF EdgeInv
<1>1. CASE worker = 0
    BY <1>1 DEF Current, Nothing, Snapshot
<1>2. CASE worker # 0
    <2>1. worker \in DOMAIN workers /\ workers[worker] \in Worker
        BY <1>2 DEF TypeOK
    <2>2. Current = workers[worker].latest /\ Publishes(worker)
        BY <1>2, <2>1 DEF Current
    <2>3. Current \in Snapshot
        BY <2>1, <2>2 DEF Worker
    <2>4. \A k \in Keys : Current[k] # None =>
              /\ workers[worker].devices[k] # None
              /\ Current[k].inc = workers[worker].devices[k].inc
              /\ Current[k].meta = workers[worker].devices[k].meta
              /\ Current[k].by = worker
              /\ Current[k].cut => workers[worker].cancelled
        BY <2>2 DEF Publishes
    <2>5. \A k \in Keys : workers[worker].devices[k] = IF k \in Supported THEN devices[k] ELSE None
        BY <1>2 DEF Serves
    <2>6. workers[worker].done => \A k \in Supported : devices[k] # None => Current[k] # None
        BY <2>2, <2>5, ConstantsAssumption DEF Publishes
    <2>7. ~workers[worker].done => \A k \in Keys : Current[k] = None
        BY <2>2 DEF Publishes
    <2>8. Current # Nothing => workers[worker].done
        BY <2>3, <2>7 DEF Nothing, Snapshot
    <2> QED BY <1>2, <2>3, <2>4, <2>5, <2>6, <2>8 DEF Serves
<1> QED BY <1>1, <1>2

\* What Listed falls back to is also the list as it is configured.
LEMMA ShownFacts ==
    ASSUME EdgeInv
    PROVE  /\ Shown \in Snapshot
           /\ \A k \in Keys : Shown[k] # None =>
                 /\ k \in Supported /\ devices[k] # None
                 /\ Shown[k].inc = devices[k].inc
                 /\ Shown[k].meta = devices[k].meta
                 /\ Shown[k].cut => rootDone
           /\ Current # Nothing => \A k \in Keys : Shown[k] = Current[k]
<1>1. \A k \in Keys : Shown[k] = IF devices[k] = None THEN None ELSE Listed[k]
    BY DEF Shown
<1>2. Listed \in {Current, lastGood, Nothing} /\ (Current # Nothing => Listed = Current)
    BY DEF Listed
<1>3. Listed \in Snapshot
    BY <1>2, CurrentFacts DEF EdgeInv, TypeOK, Nothing, Snapshot
<1>4. \A k \in Keys : Listed[k] # None => \/ Listed[k] = Current[k] /\ Current[k] # None
                                          \/ Listed[k] = lastGood[k] /\ lastGood[k] # None
    BY <1>2 DEF Nothing
<1>5. Shown \in Snapshot
    BY <1>3 DEF Shown, Snapshot
<1>6. Current # Nothing => \A k \in Keys : Shown[k] = Current[k]
    BY <1>1, <1>2, CurrentFacts
<1> QED BY <1>1, <1>4, <1>5, <1>6, CurrentFacts DEF EdgeInv, Remembers

-----------------------------------------------------------------------------
(* The inductive invariant.                                                *)

\* The initial state satisfies it.
LEMMA EdgeInit == Init => EdgeInv
<1> SUFFICES ASSUME Init PROVE EdgeInv
    OBVIOUS
<1> USE ConstantsAssumption DEF Init
<1>1. Nothing \in Snapshot /\ \A k \in Keys : Nothing[k] = None
    BY DEF Nothing, Snapshot
<1>2. NewWorker(devices) \in Worker
    BY <1>1 DEF NewWorker, Worker
<1>3. TypeOK
    <2>1. workers \in Seq(Worker) /\ worker \in {0, Len(workers)}
        <3>1. CASE HasDevices(devices)
            <4>1. workers = <<NewWorker(devices)>> /\ worker = 1
                BY <3>1
            <4> QED BY <1>2, <4>1
        <3>2. CASE ~HasDevices(devices)
            <4>1. workers = <<>> /\ worker = 0
                BY <3>2
            <4> QED BY <4>1
        <3> QED BY <3>1, <3>2
    <2>2. devices \in [Keys -> Device \cup {None}] /\ lastGood \in Snapshot
        BY <1>1
    <2>3. age \in 0..FallbackLimit /\ seen \in [Keys -> 0..FallbackLimit]
        OBVIOUS
    <2>4. ops \in 0..MaxOps /\ panics \in 0..MaxPanics
        OBVIOUS
    <2>5. rootDone = FALSE /\ stopping = FALSE
        OBVIOUS
    <2> QED BY ONLY <2>1, <2>2, <2>3, <2>4, <2>5 DEF TypeOK
<1>4. \A w \in DOMAIN workers : w = 1 /\ worker = 1 /\ workers[w] = NewWorker(devices)
    OBVIOUS
<1>5. worker # 0 => workers[worker] = NewWorker(devices)
    OBVIOUS
<1>6. /\ NewWorker(devices).cancelled = FALSE /\ NewWorker(devices).done = FALSE
      /\ NewWorker(devices).latest = Nothing
      /\ \A k \in Keys : NewWorker(devices).devices[k] = IF k \in Supported THEN devices[k] ELSE None
    BY DEF NewWorker
<1>7. \A w \in DOMAIN workers : Publishes(w)
    BY <1>1, <1>4, <1>6 DEF Publishes
<1>8. OneLiveWorker
    BY <1>4 DEF OneLiveWorker
<1>9. Serves
    BY <1>5, <1>6 DEF Serves
<1>10. Remembers /\ Keeps
    BY <1>1 DEF Remembers, Keeps
<1> QED BY <1>3, <1>7, <1>8, <1>9, <1>10 DEF EdgeInv

\* A reader (Latest, LatestWithStatus) makes the current round the last good one.
LEMMA LatestKeeps == EdgeInv /\ Latest => EdgeInv'
<1> SUFFICES ASSUME EdgeInv, Latest PROVE EdgeInv'
    OBVIOUS
<1>1. CASE Current = Nothing
    BY <1>1 DEF Latest, EdgeInv, TypeOK, Publishes, OneLiveWorker, Serves, Remembers, Keeps
<1>2. CASE Current # Nothing
    <2>1. lastGood' = Current /\ age' = 0
          /\ seen' = [k \in Keys |-> IF Shown[k] # None THEN 0 ELSE seen[k]]
          /\ UNCHANGED <<devices, worker, workers, rootDone, stopping, ops, panics>>
        BY <1>2 DEF Latest
    <2>2. TypeOK'
        BY <2>1, CurrentFacts, ConstantsAssumption DEF EdgeInv, TypeOK
    <2>3. (\A w \in DOMAIN workers : Publishes(w))' /\ OneLiveWorker' /\ Serves'
        BY <2>1 DEF EdgeInv, Publishes, OneLiveWorker, Serves
    <2>4. Remembers'
        BY <2>1, CurrentFacts DEF Remembers
    <2>5. Keeps'
        <3> SUFFICES ASSUME NEW k \in Keys, seen'[k] < FallbackLimit
                     PROVE  lastGood'[k] # None /\ age' <= seen'[k]
            BY DEF Keeps
        <3>1. CASE Shown[k] # None
            BY <1>2, <2>1, <3>1, ShownFacts
        <3>2. CASE Shown[k] = None
            <4>1. seen'[k] = seen[k] /\ lastGood[k] # None
                BY <2>1, <3>2 DEF EdgeInv, Keeps
            <4>2. Current[k] # None
                BY <1>2, <4>1, CurrentFacts DEF EdgeInv, Remembers
            <4>3. seen[k] \in Nat
                BY ConstantsAssumption DEF EdgeInv, TypeOK
            <4> QED BY <2>1, <4>1, <4>2, <4>3
        <3> QED BY <3>1, <3>2
    <2> QED BY <2>2, <2>3, <2>4, <2>5 DEF EdgeInv
<1> QED BY <1>1, <1>2

\* Add: no old entry of the key is left to be taken for the new device.
LEMMA AddKeeps ==
    ASSUME EdgeInv, NEW k \in Keys, NEW m \in Metas, Add(k, m)
    PROVE  EdgeInv'
<1>1. /\ devices[k] = None /\ ops < MaxOps /\ ops' = ops + 1
      /\ devices' = [devices EXCEPT ![k] = [inc |-> ops', meta |-> m]]
      /\ respawn(devices')
      /\ UNCHANGED <<lastGood, age, rootDone, stopping, seen, panics>>
    BY DEF Add
<1>2. ops' \in 0..MaxOps /\ [inc |-> ops', meta |-> m] \in Device
    BY <1>1, ConstantsAssumption DEF EdgeInv, TypeOK, Device
<1>3. devices' \in [Keys -> Device \cup {None}]
    BY <1>1, <1>2 DEF EdgeInv, TypeOK
<1>4. TypeOK'
    BY <1>1, <1>2, <1>3, RespawnFacts DEF EdgeInv, TypeOK
<1>5. (\A w \in DOMAIN workers : Publishes(w))' /\ OneLiveWorker' /\ Serves'
    BY <1>1, <1>3, RespawnKeeps
<1>6. Remembers'
    BY <1>1, <1>3 DEF EdgeInv, TypeOK, Remembers
<1>7. Keeps'
    BY <1>1 DEF EdgeInv, Keeps
<1> QED BY <1>4, <1>5, <1>6, <1>7 DEF EdgeInv

\* Remove: the device leaves the list and the last good snapshot.
LEMMA RemoveKeeps ==
    ASSUME EdgeInv, NEW k \in Keys, Remove(k)
    PROVE  EdgeInv'
<1>1. /\ ops < MaxOps /\ ops' = ops + 1
      /\ devices' = [devices EXCEPT ![k] = None]
      /\ lastGood' = [lastGood EXCEPT ![k] = None]
      /\ respawn(devices')
      /\ seen' = [seen EXCEPT ![k] = FallbackLimit]
      /\ UNCHANGED <<age, rootDone, stopping, panics>>
    BY DEF Remove
<1>2. ops' \in 0..MaxOps
    BY <1>1, ConstantsAssumption DEF EdgeInv, TypeOK
<1>3. devices' \in [Keys -> Device \cup {None}] /\ lastGood' \in Snapshot
    BY <1>1 DEF EdgeInv, TypeOK, Snapshot
<1>4. seen' \in [Keys -> 0..FallbackLimit]
    BY <1>1, ConstantsAssumption DEF EdgeInv, TypeOK
<1>5. TypeOK'
    BY <1>1, <1>2, <1>3, <1>4, RespawnFacts DEF EdgeInv, TypeOK
<1>6. (\A w \in DOMAIN workers : Publishes(w))' /\ OneLiveWorker' /\ Serves'
    BY <1>1, <1>3, RespawnKeeps
<1>7. Remembers'
    BY <1>1 DEF EdgeInv, TypeOK, Snapshot, Remembers
<1>8. Keeps'
    BY <1>1, ConstantsAssumption DEF EdgeInv, TypeOK, Snapshot, Keeps
<1> QED BY <1>5, <1>6, <1>7, <1>8 DEF EdgeInv

\* PatchMeta: the edit goes to the list and to the snapshot that stands in for it.
LEMMA PatchMetaKeeps ==
    ASSUME EdgeInv, NEW k \in Keys, NEW m \in Metas, PatchMeta(k, m)
    PROVE  EdgeInv'
<1> DEFINE good == IF Current # Nothing THEN Current ELSE lastGood
<1>1. /\ ops < MaxOps /\ ops' = ops + 1 /\ devices[k] # None
      /\ devices' = [devices EXCEPT ![k].meta = m]
      /\ lastGood' = IF good[k] = None THEN good ELSE [good EXCEPT ![k].meta = m]
      /\ age' = IF Current # Nothing THEN 0 ELSE age
      /\ respawn(devices')
      /\ UNCHANGED <<rootDone, stopping, seen, panics>>
    BY DEF PatchMeta
<1>2. good \in Snapshot /\ \A q \in Keys : good[q] # None =>
          /\ q \in Supported /\ devices[q] # None
          /\ good[q].inc = devices[q].inc
          /\ good[q].meta = devices[q].meta
          /\ good[q].cut => rootDone
    BY CurrentFacts DEF EdgeInv, TypeOK, Remembers
<1>3. /\ devices' \in [Keys -> Device \cup {None}]
      /\ \A q \in Keys : devices'[q] # None <=> devices[q] # None
      /\ \A q \in Keys \ {k} : devices'[q] = devices[q]
      /\ devices'[k].inc = devices[k].inc /\ devices'[k].meta = m
    <2>1. devices[k] \in Device /\ devices' = [devices EXCEPT ![k] = [devices[k] EXCEPT !.meta = m]]
        BY <1>1 DEF EdgeInv, TypeOK
    <2>2. [devices[k] EXCEPT !.meta = m] \in Device /\ [devices[k] EXCEPT !.meta = m].inc = devices[k].inc
          /\ [devices[k] EXCEPT !.meta = m].meta = m
        BY <2>1 DEF Device
    <2> HIDE DEF Device
    <2> QED BY <2>1, <2>2, ConstantsAssumption DEF EdgeInv, TypeOK
<1>4. /\ lastGood' \in Snapshot
      /\ \A q \in Keys : lastGood'[q] # None <=> good[q] # None
      /\ \A q \in Keys \ {k} : lastGood'[q] = good[q]
      /\ good[k] # None => /\ lastGood'[k].inc = good[k].inc
                           /\ lastGood'[k].meta = m
                           /\ lastGood'[k].cut = good[k].cut
    <2>1. CASE good[k] = None
        BY <1>1, <1>2, <2>1
    <2>2. CASE good[k] # None
        <3>1. good[k] \in Entry /\ lastGood' = [good EXCEPT ![k] = [good[k] EXCEPT !.meta = m]]
            BY <1>1, <1>2, <2>2 DEF Snapshot
        <3>2. [good[k] EXCEPT !.meta = m] \in Entry /\ [good[k] EXCEPT !.meta = m].inc = good[k].inc
              /\ [good[k] EXCEPT !.meta = m].meta = m /\ [good[k] EXCEPT !.meta = m].cut = good[k].cut
            BY <3>1 DEF Entry
        <3> HIDE DEF good
        <3> QED BY <1>2, <2>2, <3>1, <3>2, ConstantsAssumption DEF Snapshot
    <2> QED BY <2>1, <2>2
<1>5. ops' \in 0..MaxOps /\ age' \in 0..FallbackLimit
    BY <1>1, ConstantsAssumption DEF EdgeInv, TypeOK
<1>6. TypeOK'
    BY <1>1, <1>3, <1>4, <1>5, RespawnFacts DEF EdgeInv, TypeOK
<1>7. (\A w \in DOMAIN workers : Publishes(w))' /\ OneLiveWorker' /\ Serves'
    BY <1>1, <1>3, RespawnKeeps
<1>8. Remembers'
    <2> HIDE DEF good
    <2> QED BY <1>1, <1>2, <1>3, <1>4 DEF Remembers
<1>9. Keeps'
    <2> SUFFICES ASSUME NEW q \in Keys, seen[q] < FallbackLimit
                 PROVE  good[q] # None /\ age' <= seen[q]
        BY <1>1, <1>4 DEF Keeps
    <2>1. lastGood[q] # None /\ age <= seen[q] /\ seen[q] \in Nat
        BY ConstantsAssumption DEF EdgeInv, Keeps, TypeOK
    <2>2. q \in Supported /\ devices[q] # None
        BY <2>1 DEF EdgeInv, Remembers
    <2> QED BY <1>1, <2>1, <2>2, CurrentFacts
<1> QED BY <1>6, <1>7, <1>8, <1>9 DEF EdgeInv

\* The root context, and Stop: the current worker is cancelled and stays.
LEMMA ShutdownKeeps == EdgeInv /\ (RootCancelled \/ Stop) => EdgeInv'
<1> SUFFICES ASSUME EdgeInv, RootCancelled \/ Stop PROVE EdgeInv'
    OBVIOUS
<1>1. /\ workers' = Cancel(worker) /\ rootDone' = TRUE /\ stopping' \in BOOLEAN
      /\ UNCHANGED <<devices, worker, lastGood, age, seen, ops, panics>>
    BY DEF RootCancelled, Stop, EdgeInv, TypeOK
<1>2. TypeOK /\ DOMAIN workers' = DOMAIN workers
    BY <1>1, CancelFacts DEF EdgeInv, TypeOK
<1>3. TypeOK'
    BY <1>1, <1>2, CancelFacts DEF TypeOK
<1>4. (\A w \in DOMAIN workers : Publishes(w))'
    BY <1>1, <1>2, CancelFacts DEF EdgeInv, Publishes
<1>5. OneLiveWorker'
    BY <1>1, <1>2, CancelFacts DEF EdgeInv, OneLiveWorker
<1>6. Serves'
    <2>1. worker # 0 => worker \in DOMAIN workers
        BY <1>2 DEF TypeOK
    <2> QED BY <1>1, <1>2, <2>1, CancelFacts DEF EdgeInv, Serves
<1>7. Remembers' /\ Keeps'
    BY <1>1 DEF EdgeInv, Remembers, Keeps
<1> QED BY <1>3, <1>4, <1>5, <1>6, <1>7 DEF EdgeInv

\* A step of a worker changes that worker only, and neither its list nor its context.
LEMMA WorkerChange ==
    ASSUME EdgeInv, NEW w \in DOMAIN workers, NEW r \in Worker,
           workers' = [workers EXCEPT ![w] = r],
           r.devices = workers[w].devices, r.cancelled = workers[w].cancelled,
           Publishes(w)', panics' \in 0..MaxPanics,
           UNCHANGED <<devices, worker, lastGood, age, rootDone, stopping, seen, ops>>
    PROVE  EdgeInv'
<1>1. /\ workers' \in Seq(Worker) /\ Len(workers') = Len(workers)
      /\ DOMAIN workers' = DOMAIN workers /\ workers'[w] = r
      /\ \A q \in DOMAIN workers \ {w} : workers'[q] = workers[q]
    BY DEF EdgeInv, TypeOK
<1>2. \A q \in DOMAIN workers : /\ workers'[q].devices = workers[q].devices
                                /\ workers'[q].cancelled = workers[q].cancelled
    BY <1>1
<1>3. TypeOK'
    BY <1>1 DEF EdgeInv, TypeOK
<1>4. (\A q \in DOMAIN workers : Publishes(q))'
    BY <1>1 DEF EdgeInv, Publishes
<1>5. OneLiveWorker'
    BY <1>1, <1>2 DEF EdgeInv, OneLiveWorker
<1>6. Serves'
    <2>1. worker # 0 => worker \in DOMAIN workers
        BY DEF EdgeInv, TypeOK
    <2> QED BY <1>1, <1>2, <2>1 DEF EdgeInv, Serves
<1>7. Remembers' /\ Keeps'
    BY DEF EdgeInv, Remembers, Keeps
<1> QED BY <1>3, <1>4, <1>5, <1>6, <1>7 DEF EdgeInv

\* The loop of a worker: a round that ends, one that panics, the timer, the end.
LEMMA WorkerStepKeeps ==
    ASSUME EdgeInv, NEW w \in DOMAIN workers, WorkerStep(w)
    PROVE  EdgeInv'
<1> DEFINE self == workers[w]
<1>1. self \in Worker /\ w \in Nat /\ panics \in 0..MaxPanics /\ workers \in Seq(Worker)
    BY DEF EdgeInv, TypeOK
<1>2. AfterRound(w) \in {"round", "sleep", "ended"}
    BY DEF AfterRound
<1>3. CASE RoundEnds(w)
    <2> DEFINE poll(d) == IF d = None THEN None
                          ELSE [inc |-> d.inc, meta |-> d.meta, by |-> w, cut |-> self.cancelled]
               found == [k \in Keys |-> poll(self.devices[k])]
               r == [self EXCEPT !.latest = found, !.done = TRUE, !.error = FALSE, !.pc = AfterRound(w)]
    <2>1. \A k \in Keys : self.devices[k] \in Device \cup {None}
        BY <1>1 DEF Worker
    <2>2. \A k \in Keys : poll(self.devices[k]) \in Entry \cup {None}
        <3> SUFFICES ASSUME NEW k \in Keys, self.devices[k] # None
                     PROVE  poll(self.devices[k]) \in Entry
            OBVIOUS
        <3>1. self.devices[k] \in Device /\ self.cancelled \in BOOLEAN
            BY <1>1, <2>1 DEF Worker
        <3> QED BY <1>1, <3>1 DEF Device, Entry
    <2>3. found \in Snapshot
        BY <2>2 DEF Snapshot
    <2>4. r \in Worker /\ r.devices = self.devices /\ r.cancelled = self.cancelled
          /\ r.latest = found /\ r.done = TRUE
        <3> HIDE DEF found
        <3> QED BY <1>1, <1>2, <2>3 DEF Worker
    <2>5. workers' = [workers EXCEPT ![w] = r]
          /\ UNCHANGED <<devices, worker, lastGood, age, rootDone, stopping, seen, ops, panics>>
        BY <1>3 DEF RoundEnds
    <2>6. workers'[w] = r
        BY <1>1, <2>5
    <2>7. \A k \in Keys : IF self.devices[k] = None THEN found[k] = None
                          ELSE /\ found[k] # None
                               /\ found[k].inc = self.devices[k].inc
                               /\ found[k].meta = self.devices[k].meta
                               /\ found[k].by = w /\ found[k].cut = self.cancelled
        <3> SUFFICES ASSUME NEW k \in Keys, self.devices[k] # None
                     PROVE  /\ found[k] # None
                            /\ found[k].inc = self.devices[k].inc
                            /\ found[k].meta = self.devices[k].meta
                            /\ found[k].by = w /\ found[k].cut = self.cancelled
            OBVIOUS
        <3>1. found[k] = [inc |-> self.devices[k].inc, meta |-> self.devices[k].meta,
                          by |-> w, cut |-> self.cancelled]
            OBVIOUS
        <3>2. found[k] \in Entry
            BY <2>1, <2>2, <3>1, <1>1 DEF Entry, Device, Worker
        <3> HIDE DEF found
        <3>3. found[k] # None
            BY <3>2, ConstantsAssumption
        <3> QED BY <3>1, <3>3
    <2>8. Publishes(w)'
        <3> HIDE DEF found, r
        <3> QED BY <2>4, <2>6, <2>7 DEF Publishes
    <2> HIDE DEF r
    <2> QED BY <1>1, <2>4, <2>5, <2>8, WorkerChange
<1>4. CASE RoundPanics(w)
    <2> DEFINE r == [self EXCEPT !.error = TRUE, !.pc = AfterRound(w)]
    <2>1. r \in Worker /\ r.devices = self.devices /\ r.cancelled = self.cancelled
          /\ r.latest = self.latest /\ r.done = self.done
        BY <1>1, <1>2 DEF Worker
    <2>2. workers' = [workers EXCEPT ![w] = r] /\ panics' = panics + 1 /\ panics < MaxPanics
          /\ UNCHANGED <<devices, worker, lastGood, age, rootDone, stopping, seen, ops>>
        BY <1>4 DEF RoundPanics
    <2>3. workers'[w] = r /\ panics' \in 0..MaxPanics
        BY <1>1, <2>2, ConstantsAssumption
    <2> HIDE DEF r
    <2>4. Publishes(w)'
        BY <2>1, <2>3 DEF Publishes, EdgeInv
    <2> QED BY <2>1, <2>2, <2>3, <2>4, WorkerChange
<1>5. CASE NextRound(w) \/ Ends(w)
    <2>1. PICK p \in {"round", "ended"} : workers' = [workers EXCEPT ![w].pc = p]
          /\ UNCHANGED <<devices, worker, lastGood, age, rootDone, stopping, seen, ops, panics>>
        BY <1>5 DEF NextRound, Ends
    <2> DEFINE r == [self EXCEPT !.pc = p]
    <2>2. r \in Worker /\ r.devices = self.devices /\ r.cancelled = self.cancelled
          /\ r.latest = self.latest /\ r.done = self.done
        BY <1>1 DEF Worker
    <2>3. workers' = [workers EXCEPT ![w] = r] /\ workers'[w] = r
        BY <1>1, <2>1
    <2> HIDE DEF r
    <2>4. Publishes(w)'
        BY <2>2, <2>3 DEF Publishes, EdgeInv
    <2> QED BY <1>1, <2>1, <2>2, <2>3, <2>4, WorkerChange
<1> QED BY <1>3, <1>4, <1>5 DEF WorkerStep

\* Time passes for the last good snapshot and for what was seen alike.
LEMMA TickKeeps == EdgeInv /\ Tick => EdgeInv'
<1> SUFFICES ASSUME EdgeInv, Tick PROVE EdgeInv'
    OBVIOUS
<1>1. /\ age' = IF age < FallbackLimit THEN age + 1 ELSE age
      /\ seen' = [k \in Keys |-> IF seen[k] < FallbackLimit THEN seen[k] + 1 ELSE seen[k]]
      /\ UNCHANGED <<devices, worker, workers, lastGood, rootDone, stopping, ops, panics>>
    BY DEF Tick
<1>2. TypeOK'
    BY <1>1, ConstantsAssumption DEF EdgeInv, TypeOK
<1>3. (\A w \in DOMAIN workers : Publishes(w))' /\ OneLiveWorker' /\ Serves' /\ Remembers'
    BY <1>1 DEF EdgeInv, Publishes, OneLiveWorker, Serves, Remembers
<1>4. Keeps'
    BY <1>1, ConstantsAssumption DEF EdgeInv, TypeOK, Keeps
<1> QED BY <1>2, <1>3, <1>4 DEF EdgeInv

\* The invariant of the manager, by one lemma per method and per step of a worker.
THEOREM EdgeInvariant == Spec => []EdgeInv
<1>1. EdgeInv /\ [Next]_vars => EdgeInv'
    <2> SUFFICES ASSUME EdgeInv, [Next]_vars PROVE EdgeInv'
        OBVIOUS
    <2>1. CASE UNCHANGED vars
        BY <2>1 DEF vars, EdgeInv, TypeOK, Publishes, OneLiveWorker, Serves, Remembers, Keeps
    <2>2. CASE Next
        BY <2>2, LatestKeeps, AddKeeps, RemoveKeeps, PatchMetaKeeps, ShutdownKeeps,
           WorkerStepKeeps, TickKeeps DEF Next
    <2> QED BY <2>1, <2>2
<1> QED BY <1>1, EdgeInit, PTL DEF Spec

\* The variables of the manager and of every worker it ever started keep their types,
\* and the current worker is the newest one.
THEOREM EdgeTypes == Spec => []TypeOK
<1>1. EdgeInv => TypeOK
    BY DEF EdgeInv
<1> QED BY <1>1, EdgeInvariant, PTL

\* No reader is shown a removed device, an earlier one of the same key or metadata from
\* before the last edit: PatchMeta and Remove reach every snapshot that can be shown.
THEOREM EditsNeverUndone == Spec => []ChangesStick
<1>1. EdgeInv => ChangesStick
    BY ShownFacts DEF ChangesStick
<1> QED BY <1>1, EdgeInvariant, PTL

\* Readiness is only claimed for what the current worker itself found, an aborted round
\* is not shown before the shutdown, and no replaced worker goes on polling.
THEOREM ShownWasObserved == Spec => []ShownIsObserved
<1>1. EdgeInv => ShownIsObserved
    <2> SUFFICES ASSUME EdgeInv PROVE ShownIsObserved
        OBVIOUS
    <2>1. ReadyMeansObserved
        <3> SUFFICES ASSUME SourceReady, NEW k \in Supported, devices[k] # None
                     PROVE  Shown[k] # None /\ Shown[k].by = worker
            BY DEF ReadyMeansObserved
        <3> DEFINE conf == {q \in Keys : devices[q] # None}
        <3>1. k \in conf /\ IsFiniteSet(conf)
            BY ConstantsAssumption, FS_Subset
        <3>2. Cardinality(conf) # 0
            BY <3>1, FS_EmptySet
        <3>3. worker # 0 /\ workers[worker].done
            BY <3>2 DEF SourceReady, Status
        <3>4. k \in Keys /\ Current[k] # None /\ Current[k].by = worker
            BY <3>3, CurrentFacts, ConstantsAssumption
        <3>5. Current # Nothing
            BY <3>4 DEF Nothing
        <3> QED BY <3>4, <3>5, ShownFacts
    <2>2. NoAbortedRoundShown
        BY ShownFacts DEF NoAbortedRoundShown
    <2> QED BY <2>1, <2>2 DEF ShownIsObserved, EdgeInv
<1> QED BY <1>1, EdgeInvariant, PTL

\* A device that a reader saw within the limit stays on the list through every change
\* around it, every panic and every replaced worker.
THEOREM DevicesDoNotFlicker == Spec => []NoFlicker
<1>1. EdgeInv => NoFlicker
    <2> SUFFICES ASSUME EdgeInv, NEW k \in Keys, seen[k] < FallbackLimit, devices[k] # None
                 PROVE  Shown[k] # None
        BY DEF NoFlicker
    <2>1. lastGood[k] # None /\ age <= seen[k] /\ k \in Supported
        BY DEF EdgeInv, Keeps, Remembers
    <2>2. CASE Current # Nothing
        BY <2>1, <2>2, CurrentFacts, ShownFacts
    <2>3. CASE Current = Nothing
        <3>1. age < FallbackLimit
            BY <2>1, ConstantsAssumption DEF EdgeInv, TypeOK
        <3> QED BY <2>1, <2>3, <3>1 DEF Shown, Listed
    <2> QED BY <2>2, <2>3
<1> QED BY <1>1, EdgeInvariant, PTL

=============================================================================
