-------------------------- MODULE AlertEngineProofs --------------------------
(* Theorems about AlertEngine, for every value of its constants. *)
EXTENDS AlertEngine, FiniteSetTheorems, TLAPS

\* A back-off is a number of steps.
LEMMA BackoffType == \A n : Backoff(n) \in Nat
  BY ConstantsAssumption DEF Backoff

\* A chosen activation time is a natural number.
LEMMA ActivationType ==
  ASSUME ActivationsFit, NEW k \in Keys, Starts(k)
  PROVE  Activation(k) \in Nat /\ IsActivation(k, Activation(k))
<1>1. \E t \in 0..MaxStamp : IsActivation(k, t)
  BY DEF ActivationsFit
<1>2. Activation(k) \in 0..MaxStamp /\ IsActivation(k, Activation(k))
  BY <1>1 DEF Activation
<1> QED
  BY <1>2, ConstantsAssumption

\* Reconciliation makes a condition of every condition.
LEMMA ReconciledConditionType ==
  ASSUME TypeOK, ActivationsFit
  PROVE  [k \in Keys |-> ReconciledCondition(k)] \in [Keys -> Condition]
<1> SUFFICES ASSUME NEW k \in Keys
             PROVE  ReconciledCondition(k) \in Condition
  OBVIOUS
<1>1. conditions[k] \in Condition /\ clock \in Nat
  BY DEF TypeOK
<1>2. Starts(k) => Activation(k) \in Nat
  BY ActivationType
<1> QED
  BY <1>1, <1>2 DEF ReconciledCondition, Condition, Forgotten

\* What reconciliation wants to send are delivery IDs.
LEMMA WantedType ==
  ASSUME TypeOK, NEW c \in [Keys -> Condition]
  PROVE  Wanted(c) \subseteq ID
  BY DEF Wanted, deliveryID, ID, Kinds, Condition

\* Reconciliation makes a queue of the queue: what it adds, ages and prunes.
LEMMA ReconciledDeliveriesType ==
  ASSUME TypeOK, NEW c \in [Keys -> Condition]
  PROVE  IsQueue(ReconciledDeliveries(c))
<1> DEFINE q == Enqueued(c)
           K == {x \in DOMAIN q : ~Obsolete(c, q, x) /\ ~Expired(c, q, x)}
<1>1. clock \in Nat /\ IsQueue(deliveries)
  BY DEF TypeOK
<1>2. NewDelivery \in Delivery
  BY <1>1 DEF NewDelivery, Delivery
<1>3. DOMAIN q \subseteq ID /\ \A x \in DOMAIN q : q[x] \in Delivery
  BY <1>1, <1>2, WantedType DEF Enqueued, IsQueue
<1>4. ASSUME NEW id \in DOMAIN q PROVE Aged(c, q, id) \in Delivery
  <2>1. id.key \in Keys
    BY <1>3 DEF ID
  <2>2. c[id.key].lastSeen \in Nat
    BY <2>1 DEF Condition
  <2> QED
    BY <1>1, <1>3, <2>2 DEF Aged, Delivery
<1>5. ReconciledDeliveries(c) = [id \in K |-> Aged(c, q, id)]
  BY DEF ReconciledDeliveries
<1> QED
  BY <1>3, <1>4, <1>5 DEF IsQueue

\* What a write leaves on disk and in the error flags.
LEMMA PersistType ==
  ASSUME TypeOK, NEW out \in Outcomes, NEW r \in {"none", "delivery", "persist"},
         NEW c \in [Keys -> Condition], NEW d, IsQueue(d),
         persist(out, c, d, r)
  PROVE  /\ DOMAIN disk' = {"conditions", "deliveries"}
         /\ disk'.conditions \in [Keys -> Condition] /\ IsQueue(disk'.deliveries)
         /\ persistFault' \in BOOLEAN
         /\ lastError' \in {"none", "delivery", "persist"}
         /\ recorded' \subseteq ID
         /\ faults' \in Nat
<1>1. /\ DOMAIN disk' = {"conditions", "deliveries"}
      /\ disk'.conditions \in [Keys -> Condition] /\ IsQueue(disk'.deliveries)
  BY DEF persist, writeState, TypeOK
<1>2. persistFault' \in BOOLEAN
  BY DEF persist
<1>3. lastError' \in {"none", "delivery", "persist"}
  BY DEF persist, latestDeliveryError
<1>4. Recorded(disk') \subseteq ID
  BY <1>1 DEF Recorded, IsQueue
<1>5. recorded' \subseteq ID
  BY <1>4 DEF persist, TypeOK
<1>6. faults' \in Nat
  BY DEF persist, TypeOK
<1> QED
  BY <1>1, <1>2, <1>3, <1>5, <1>6

\* Recomputing the delivery error gives an error or none.
LEMMA RefreshType ==
  ASSUME TypeOK, NEW d
  PROVE  refreshDeliveryError(d) \in {"none", "delivery", "persist"}
  BY DEF TypeOK, refreshDeliveryError, latestDeliveryError

\* scanMu: outside a scan nothing is due, and between scans nothing is sent.
ScanDiscipline == (scan # "deliver" => due = {}) /\ (scan = "idle" => sending = {})

TypeInv == TypeOK /\ ScanDiscipline /\ IsFiniteSet(sending)

\* The engine starts with the types of TypeInv, whatever it has spent.
LEMMA TypeInvInit == Init => TypeInv
<1> SUFFICES ASSUME Init PROVE TypeInv
  OBVIOUS
<1>1. IsFiniteSet(sending) /\ Cardinality(sending) = 0
  BY FS_EmptySet DEF Init
<1>2. IsQueue(deliveries) /\ DOMAIN deliveries = {}
  BY DEF Init, NoDeliveries, IsQueue
<1>3. conditions \in [Keys -> Condition]
  BY DEF Init, Forgotten, Condition
<1>4. /\ DOMAIN disk = {"conditions", "deliveries"}
      /\ disk.conditions = conditions /\ disk.deliveries = deliveries
  BY DEF Init
<1>5. DOMAIN requests = {} /\ requests \in [DOMAIN requests -> Nat]
  BY DEF Init, NoDeliveries
<1>6. signals \in [Keys -> Signals] /\ startedAt \in [Keys -> Nat]
  BY DEF Init, Signals
<1>7. ScanDiscipline /\ due \cup sending \subseteq DOMAIN deliveries
  BY DEF Init, ScanDiscipline
<1>8. Cardinality(sending) <= Concurrency
  BY <1>1, ConstantsAssumption
<1>9. /\ cfg \in Configs
      /\ sourceReady \in BOOLEAN /\ persistFault \in BOOLEAN /\ silenceFault \in BOOLEAN
      /\ allReady \in BOOLEAN /\ silenceErr \in BOOLEAN
      /\ lastError = "none" /\ scan = "idle"
  BY ConstantsAssumption DEF Init
<1>10. /\ recoveryReady = {} /\ acked = {} /\ maintenance = {} /\ accepted = {} /\ recorded = {}
       /\ clock \in Nat \ {0}
  BY DEF Init
<1>11. /\ collects \in Nat /\ silences \in Nat
       /\ faults \in Nat /\ crashes \in Nat /\ updates \in Nat
  <2> PICK s \in Spent : /\ collects = s.collects /\ silences = s.silences
                         /\ faults = s.faults /\ crashes = s.crashes /\ updates = s.updates
    BY DEF Init
  <2> s \in Counters
    BY ConstantsAssumption
  <2> QED
    BY DEF Counters
<1> QED
  BY <1>1, <1>2, <1>3, <1>4, <1>5, <1>6, <1>7, <1>8, <1>9, <1>10, <1>11 DEF TypeInv, TypeOK

\* A scan's reconciliation keeps the types and picks its batch from the queue.
LEMMA ScanReconcileType ==
  ASSUME TypeInv, NEW out \in Outcomes, ScanReconcile(out)
  PROVE  TypeInv'
<1> DEFINE c == [k \in Keys |-> ReconciledCondition(k)]
           d == ReconciledDeliveries(c)
<1> USE DEF TypeInv
<1>1. c \in [Keys -> Condition]
  BY ReconciledConditionType DEF ScanReconcile
<1>2. IsQueue(d)
  BY <1>1, ReconciledDeliveriesType
<1>3. refreshDeliveryError(d) \in {"none", "delivery", "persist"}
  BY RefreshType
<1>4. conditions' = c /\ deliveries' = d /\ persist(out, c, d, refreshDeliveryError(d))
  BY DEF ScanReconcile
<1>5. \/ scan' = scan /\ due' = due
      \/ due' \subseteq DOMAIN d /\ scan' = (IF due' = {} THEN "idle" ELSE "deliver")
  <2>1. CASE out # "ok"
    BY <2>1 DEF ScanReconcile
  <2>2. CASE out = "ok"
    <3>1. \E b \in SUBSET Due(c, d) : due' = b
      BY <2>2 DEF ScanReconcile
    <3>2. scan' = IF due' = {} THEN "idle" ELSE "deliver"
      BY <2>2 DEF ScanReconcile
    <3>3. Due(c, d) \subseteq DOMAIN d
      BY DEF Due
    <3> QED
      BY <3>1, <3>2, <3>3
  <2> QED
    BY <2>1, <2>2
<1>6. /\ sending' = sending /\ sourceReady' = allReady /\ silenceFault' = FALSE
      /\ DOMAIN requests' \subseteq DOMAIN requests
      /\ requests' = [id \in DOMAIN requests' |-> requests[id]]
      /\ UNCHANGED <<world, cfg, clock, accepted, collects, silences, crashes, updates>>
      /\ scan = "idle"
  BY DEF ScanReconcile
<1> HIDE DEF c, d
<1>7. /\ DOMAIN disk' = {"conditions", "deliveries"}
      /\ disk'.conditions \in [Keys -> Condition] /\ IsQueue(disk'.deliveries)
      /\ persistFault' \in BOOLEAN
      /\ lastError' \in {"none", "delivery", "persist"}
      /\ recorded' \subseteq ID
      /\ faults' \in Nat
  BY <1>1, <1>2, <1>3, <1>4, PersistType
<1>8. due' \cup sending' \subseteq DOMAIN deliveries' /\ ScanDiscipline'
  BY <1>4, <1>5, <1>6 DEF ScanDiscipline
<1>9. TypeOK'
  BY <1>1, <1>2, <1>4, <1>5, <1>6, <1>7, <1>8 DEF TypeOK, world
<1> QED
  BY <1>6, <1>8, <1>9

\* Claiming a due item keeps the types and the sender slots.
LEMMA ClaimType ==
  ASSUME TypeInv, NEW id \in due, NEW out \in Outcomes, Claim(id, out)
  PROVE  TypeInv'
<1> DEFINE claimed == [deliveries EXCEPT ![id].attempts = @ + 1]
<1> USE DEF TypeInv
<1>1. IsQueue(claimed) /\ DOMAIN claimed = DOMAIN deliveries
  <2>1. deliveries[id] \in Delivery
    BY DEF TypeOK, IsQueue
  <2>2. [deliveries[id] EXCEPT !.attempts = @ + 1] \in Delivery
    BY <2>1 DEF Delivery
  <2> QED
    BY <2>2 DEF TypeOK, IsQueue
<1>2. conditions' = conditions /\ persist(out, conditions, claimed, lastError)
      /\ deliveries' = (IF out = "ok" THEN claimed ELSE deliveries)
  BY DEF Claim
<1>3. IsQueue(deliveries') /\ DOMAIN deliveries' = DOMAIN deliveries
  BY <1>1, <1>2 DEF TypeOK
<1> HIDE DEF claimed
<1>4. /\ DOMAIN disk' = {"conditions", "deliveries"}
      /\ disk'.conditions \in [Keys -> Condition] /\ IsQueue(disk'.deliveries)
      /\ persistFault' \in BOOLEAN
      /\ lastError' \in {"none", "delivery", "persist"}
      /\ recorded' \subseteq ID
      /\ faults' \in Nat
  <2>1. conditions \in [Keys -> Condition] /\ lastError \in {"none", "delivery", "persist"}
    BY DEF TypeOK
  <2> QED
    BY <1>1, <1>2, <2>1, PersistType
<1>5. due' \subseteq due /\ sending' \in {sending, sending \cup {id}}
  BY DEF Claim
<1>6. IsFiniteSet(sending') /\ Cardinality(sending') <= Concurrency
  <2>1. Cardinality(sending) < Concurrency
    BY DEF Claim, NextDue
  <2>3. Cardinality(sending) \in Nat
    BY FS_CardinalityType
  <2>2. /\ IsFiniteSet(sending \cup {id})
        /\ Cardinality(sending \cup {id}) \in {Cardinality(sending), Cardinality(sending) + 1}
    BY FS_AddElement
  <2> QED
    <3>1. Concurrency \in Nat
      BY ConstantsAssumption
    <3>2. CASE sending' = sending
      BY <2>1, <2>3, <3>1, <3>2
    <3>3. CASE sending' = sending \cup {id}
      <4>1. IsFiniteSet(sending')
        BY <2>2, <3>3
      <4>2. Cardinality(sending \cup {id}) <= Concurrency
        BY <2>1, <2>2, <2>3, <3>1
      <4> QED
        BY <3>3, <4>1, <4>2
    <3> QED
      BY <1>5, <3>2, <3>3
<1>7. scan = "deliver" /\ scan' = scan
  BY DEF Claim, NextDue
<1>8. DOMAIN requests' \subseteq ID /\ requests' \in [DOMAIN requests' -> Nat]
  <2>1. id \in ID
    BY DEF TypeOK, IsQueue
  <2>2. CASE out = "ok"
    BY <2>1, <2>2 DEF Claim, TypeOK
  <2>3. CASE out # "ok"
    BY <2>3 DEF Claim, TypeOK
  <2> QED
    BY <2>2, <2>3
<1>9. UNCHANGED <<world, cfg, sourceReady, silenceFault, clock, accepted,
                  collects, silences, crashes, updates>>
  BY DEF Claim
<1>10. TypeOK'
  BY <1>2, <1>3, <1>4, <1>5, <1>6, <1>7, <1>8, <1>9 DEF TypeOK, world
<1> QED
  BY <1>6, <1>7, <1>10 DEF ScanDiscipline

\* Recording a result keeps the types.
LEMMA FinishType ==
  ASSUME TypeInv, NEW id \in sending, NEW answer \in Answers, NEW out \in Outcomes,
         Finish(id, answer, out)
  PROVE  TypeInv'
<1> DEFINE item == IF answer = "accepted" THEN Sent(deliveries[id])
                   ELSE Failed(deliveries[id], answer = "refused")
           d == [deliveries EXCEPT ![id] = item]
<1> USE DEF TypeInv
<1>1. id \in DOMAIN deliveries /\ id \in ID /\ deliveries[id] \in Delivery
  BY DEF TypeOK, IsQueue
<1>2. item \in Delivery
  <2>1. Sent(deliveries[id]) \in Delivery
    BY <1>1 DEF Sent, Delivery, TypeOK
  <2>2. Failed(deliveries[id], answer = "refused") \in Delivery
    <3>1. Backoff(deliveries[id].attempts) \in Nat
      BY BackoffType
    <3>2. \A x \in Nat : x + Backoff(deliveries[id].attempts) \in Nat
      BY <3>1
    <3> QED
      BY <1>1, <3>2 DEF Failed, Delivery, TypeOK
  <2> QED
    BY <2>1, <2>2
<1>3. IsQueue(d) /\ DOMAIN d = DOMAIN deliveries
  BY <1>1, <1>2 DEF TypeOK, IsQueue
<1>4. /\ conditions' = conditions /\ deliveries' = d
      /\ persist(out, conditions, d, refreshDeliveryError(d))
      /\ sending' = sending \ {id}
      /\ accepted' \subseteq accepted \cup {id}
      /\ UNCHANGED <<world, cfg, sourceReady, silenceFault, scan, due, clock, requests,
                     collects, silences, crashes, updates>>
  BY DEF Finish
<1> HIDE DEF item, d
<1>5. /\ DOMAIN disk' = {"conditions", "deliveries"}
      /\ disk'.conditions \in [Keys -> Condition] /\ IsQueue(disk'.deliveries)
      /\ persistFault' \in BOOLEAN
      /\ lastError' \in {"none", "delivery", "persist"}
      /\ recorded' \subseteq ID
      /\ faults' \in Nat
  <2>1. conditions \in [Keys -> Condition]
    BY DEF TypeOK
  <2> QED
    BY <1>3, <1>4, <2>1, PersistType, RefreshType
<1>6. IsFiniteSet(sending') /\ Cardinality(sending') <= Concurrency
  <2>1. /\ IsFiniteSet(sending \ {id})
        /\ Cardinality(sending \ {id}) = Cardinality(sending) - 1
    BY FS_RemoveElement
  <2>2. Cardinality(sending) \in Nat /\ Cardinality(sending) <= Concurrency
    BY FS_CardinalityType DEF TypeOK
  <2> QED
    BY <1>4, <2>1, <2>2, ConstantsAssumption
<1>7. TypeOK'
  BY <1>1, <1>3, <1>4, <1>5, <1>6 DEF TypeOK, world
<1> QED
  BY <1>4, <1>6, <1>7 DEF ScanDiscipline

\* A settings change keeps the types, also when it is taken back.
LEMMA UpdateConfigType ==
  ASSUME TypeInv, NEW new \in Configs, NEW out \in Outcomes, UpdateConfig(new, out)
  PROVE  TypeInv'
<1> DEFINE requeue == IF new.url # cfg.url \/ (~cfg.enabled /\ new.enabled)
                   THEN {id \in DOMAIN deliveries : deliveries[id].deadLetter /\ Undelivered(deliveries, id)}
                   ELSE {}
           d == [id \in DOMAIN deliveries |->
                   IF id \in requeue THEN Requeued(deliveries[id]) ELSE deliveries[id]]
<1> USE DEF TypeInv
<1>1. \A x \in Delivery : Requeued(x) \in Delivery
  BY DEF Requeued, Delivery, TypeOK
<1>2. IsQueue(d) /\ DOMAIN d = DOMAIN deliveries
  <2>1. \A id \in DOMAIN deliveries : deliveries[id] \in Delivery
    BY DEF TypeOK, IsQueue
  <2> HIDE DEF requeue
  <2> QED
    BY <1>1, <2>1 DEF TypeOK, IsQueue
<1>3. /\ conditions' = conditions /\ deliveries' = (IF out = "ok" THEN d ELSE deliveries)
      /\ persist(out, conditions, d, refreshDeliveryError(d))
      /\ cfg' \in {cfg, new}
      /\ updates' = updates + 1
      /\ UNCHANGED <<world, sourceReady, silenceFault, scan, due, sending, clock, accepted,
                     collects, silences, crashes>>
  BY DEF UpdateConfig
<1>4. DOMAIN requests' = DOMAIN requests /\ requests' \in [DOMAIN requests' -> Nat]
  BY DEF UpdateConfig, TypeOK
<1>5. IsQueue(deliveries') /\ DOMAIN deliveries' = DOMAIN deliveries
  BY <1>2, <1>3 DEF TypeOK
<1> HIDE DEF d
<1>6. /\ DOMAIN disk' = {"conditions", "deliveries"}
      /\ disk'.conditions \in [Keys -> Condition] /\ IsQueue(disk'.deliveries)
      /\ persistFault' \in BOOLEAN
      /\ lastError' \in {"none", "delivery", "persist"}
      /\ recorded' \subseteq ID
      /\ faults' \in Nat
  <2>1. conditions \in [Keys -> Condition]
    BY DEF TypeOK
  <2> QED
    BY <1>2, <1>3, <2>1, PersistType, RefreshType
<1>7. TypeOK'
  BY <1>3, <1>4, <1>5, <1>6 DEF TypeOK, world
<1> QED
  BY <1>3, <1>7 DEF ScanDiscipline

\* What a restart loads has the types.
LEMMA LoadType ==
  ASSUME TypeInv, Load, crashes' \in Nat
  PROVE  TypeInv'
<1>1. IsFiniteSet(sending') /\ Cardinality(sending') = 0
  BY FS_EmptySet DEF Load
<1>2. Cardinality(sending') <= Concurrency
  BY <1>1, ConstantsAssumption
<1>3. /\ conditions' \in [Keys -> Condition] /\ IsQueue(deliveries')
      /\ DOMAIN disk' = {"conditions", "deliveries"}
      /\ disk'.conditions \in [Keys -> Condition] /\ IsQueue(disk'.deliveries)
  BY DEF Load, TypeInv, TypeOK
<1>4. lastError' \in {"none", "delivery", "persist"}
  BY DEF Load, latestDeliveryError
<1>5. signals' \in [Keys -> Signals] /\ startedAt' \in [Keys -> Nat]
  BY DEF Load, Signals
<1>6. scan' = "idle" /\ due' = {} /\ sending' = {} /\ recoveryReady' = {}
      /\ persistFault' = FALSE /\ sourceReady' = FALSE /\ silenceFault' = FALSE /\ allReady' = FALSE
      /\ UNCHANGED <<cfg, disk, acked, maintenance, silenceErr, clock, history,
                     collects, silences, faults, updates>>
  BY DEF Load
<1>7. TypeOK'
  BY <1>2, <1>3, <1>4, <1>5, <1>6 DEF TypeInv, TypeOK, history
<1> QED
  BY <1>1, <1>6, <1>7 DEF TypeInv, ScanDiscipline

\* Collections, silences and the clock keep the types.
LEMMA EnvironmentType ==
  ASSUME TypeInv, Collect \/ Silence \/ Tick
  PROVE  TypeInv'
<1>1. CASE Collect
  <2>1. signals' \in [Keys -> Signals] /\ startedAt' \in [Keys -> Nat]
    <3>1. PICK s \in [Keys -> Signals], t \in [Keys -> StartTimes \cup {0}] :
            signals' = s /\ startedAt' = t
      BY <1>1 DEF Collect
    <3>2. StartTimes \cup {0} \subseteq Nat
      BY ConstantsAssumption
    <3> QED
      BY <3>1, <3>2
  <2> QED
    BY <1>1, <2>1 DEF Collect, TypeInv, TypeOK, ScanDiscipline, memory, history
<1>2. CASE Silence
  BY <1>2 DEF Silence, TypeInv, TypeOK, ScanDiscipline, memory, history
<1>3. CASE Tick
  BY <1>3 DEF Tick, TypeInv, TypeOK, ScanDiscipline, memory, history, world
<1> QED
  BY <1>1, <1>2, <1>3

\* Each action preserves the types.
LEMMA TypeInvStep == TypeInv /\ [Next]_vars => TypeInv'
<1> SUFFICES ASSUME TypeInv, [Next]_vars
             PROVE  TypeInv'
  OBVIOUS
<1>1. CASE Scan
  <2>1. CASE ScanDisabled
    BY <2>1 DEF ScanDisabled, vars, TypeInv, TypeOK, ScanDiscipline
  <2>2. CASE ScanSilenceUnavailable
    BY <2>2 DEF ScanSilenceUnavailable, TypeInv, TypeOK, ScanDiscipline, memory, world, history
  <2>3. CASE \E out \in Outcomes : ScanReconcile(out)
    BY <2>3, ScanReconcileType
  <2> QED
    BY <1>1, <2>1, <2>2, <2>3 DEF Scan
<1>2. CASE TakeNext
  <2>1. PICK id \in due : \/ ClaimSilenceUnavailable(id)
                         \/ ClaimSkip(id)
                         \/ \E out \in Outcomes : Claim(id, out)
    BY <1>2 DEF TakeNext
  <2>2. CASE ClaimSilenceUnavailable(id)
    BY <2>2 DEF ClaimSilenceUnavailable, NextDue, TypeInv, TypeOK, ScanDiscipline, memory, world, history
  <2>3. CASE ClaimSkip(id)
    BY <2>3 DEF ClaimSkip, NextDue, TypeInv, TypeOK, ScanDiscipline, memory, world, history
  <2>4. CASE \E out \in Outcomes : Claim(id, out)
    BY <2>4, ClaimType
  <2> QED
    BY <2>1, <2>2, <2>3, <2>4
<1>3. CASE Answer
  BY <1>3, FinishType DEF Answer
<1>4. CASE ScanEnd
  BY <1>4 DEF ScanEnd, TypeInv, TypeOK, ScanDiscipline, memory, world, history
<1>5. CASE \E new \in Configs, out \in Outcomes : UpdateConfig(new, out)
  BY <1>5, UpdateConfigType
<1>6. CASE Cancel
  BY <1>6 DEF Cancel, TypeInv, TypeOK, ScanDiscipline, memory, world, history
<1>7. CASE Restart
  <2>1. crashes' \in Nat
    BY <1>7 DEF Restart, TypeInv, TypeOK
  <2> QED
    BY <1>7, <2>1, LoadType DEF Restart
<1>8. CASE Crash
  <2>1. crashes' \in Nat
    BY <1>8 DEF Crash, TypeInv, TypeOK
  <2> QED
    BY <1>8, <2>1, LoadType DEF Crash
<1>9. CASE Collect \/ Silence \/ Tick
  BY <1>9, EnvironmentType
<1>10. CASE UNCHANGED vars
  BY <1>10 DEF vars, TypeInv, TypeOK, ScanDiscipline
<1> QED
  BY <1>1, <1>2, <1>3, <1>4, <1>5, <1>6, <1>7, <1>8, <1>9, <1>10 DEF Next

\* The types, with the discipline of a scan, always hold.
LEMMA TypeInvAlways == Spec => []TypeInv
  BY TypeInvInit, TypeInvStep, PTL DEF Spec

\* The engine's state keeps its types, the work of a scan is queued work, and at
\* most Concurrency webhook requests run at once, for any number of keys,
\* hosts, settings, faults and restarts.
THEOREM TypeCorrect == Spec => []TypeOK
<1>1. TypeInv => TypeOK
  BY DEF TypeInv
<1> QED
  BY <1>1, TypeInvAlways, PTL
-----------------------------------------------------------------------------
(* Health *)

\* The memory differs from the file only while the fault is shown.
HealthInv ==
    /\ (lastError = "persist") <=> persistFault
    /\ persistFault \/ (disk.conditions = conditions /\ disk.deliveries = deliveries)

\* After a write the memory is durable or the fault is shown.
LEMMA PersistHealth ==
  ASSUME TypeOK, HealthInv, NEW out \in Outcomes, NEW c, NEW d, NEW r,
         r = refreshDeliveryError(d) \/ r = lastError,
         persist(out, c, d, r),
         out = "ok" => conditions' = c /\ deliveries' = d
  PROVE  HealthInv'
<1>1. latestDeliveryError(d) # "persist"
  BY DEF latestDeliveryError
<1>2. ~persistFault => r # "persist"
  BY <1>1 DEF refreshDeliveryError, HealthInv
<1>3. CASE out = "ok"
  BY <1>1, <1>2, <1>3 DEF persist, writeState, HealthInv
<1>4. CASE out # "ok"
  BY <1>4 DEF persist, HealthInv
<1> QED
  BY <1>3, <1>4

\* Every step keeps the error flags ahead of the file.
LEMMA HealthStep == TypeInv /\ HealthInv /\ [Next]_vars => HealthInv'
<1> SUFFICES ASSUME TypeInv, HealthInv, [Next]_vars
             PROVE  HealthInv'
  OBVIOUS
<1>0. TypeOK
  BY DEF TypeInv
<1>1. CASE Scan
  <2>1. CASE ScanDisabled \/ ScanSilenceUnavailable
    BY <2>1 DEF ScanDisabled, ScanSilenceUnavailable, vars, memory, HealthInv
  <2>2. ASSUME NEW out \in Outcomes, ScanReconcile(out) PROVE HealthInv'
    <3> DEFINE c == [k \in Keys |-> ReconciledCondition(k)]
               d == ReconciledDeliveries(c)
    <3>1. conditions' = c /\ deliveries' = d /\ persist(out, c, d, refreshDeliveryError(d))
      BY <2>2 DEF ScanReconcile
    <3> HIDE DEF c, d
    <3> QED
      BY <1>0, <3>1, PersistHealth
  <2> QED
    BY <1>1, <2>1, <2>2 DEF Scan
<1>2. CASE TakeNext
  <2>1. PICK id \in due : \/ ClaimSilenceUnavailable(id)
                         \/ ClaimSkip(id)
                         \/ \E out \in Outcomes : Claim(id, out)
    BY <1>2 DEF TakeNext
  <2>2. CASE ClaimSilenceUnavailable(id) \/ ClaimSkip(id)
    BY <2>2 DEF ClaimSilenceUnavailable, ClaimSkip, memory, HealthInv
  <2>3. ASSUME NEW out \in Outcomes, Claim(id, out) PROVE HealthInv'
    <3> DEFINE claimed == [deliveries EXCEPT ![id].attempts = @ + 1]
    <3>1. /\ persist(out, conditions, claimed, lastError)
          /\ out = "ok" => conditions' = conditions /\ deliveries' = claimed
      BY <2>3 DEF Claim
    <3> HIDE DEF claimed
    <3> QED
      BY <1>0, <3>1, PersistHealth
  <2> QED
    BY <2>1, <2>2, <2>3
<1>3. CASE Answer
  <2>1. PICK id \in sending, answer \in Answers, out \in Outcomes : Finish(id, answer, out)
    BY <1>3 DEF Answer
  <2>2. PICK d : persist(out, conditions, d, refreshDeliveryError(d)) /\ conditions' = conditions /\ deliveries' = d
    BY <2>1 DEF Finish
  <2> QED
    BY <1>0, <2>2, PersistHealth
<1>4. CASE \E new \in Configs, out \in Outcomes : UpdateConfig(new, out)
  <2>1. PICK new \in Configs, out \in Outcomes : UpdateConfig(new, out)
    BY <1>4
  <2>2. PICK d : /\ persist(out, conditions, d, refreshDeliveryError(d))
                 /\ conditions' = conditions
                 /\ out = "ok" => deliveries' = d
    BY <2>1 DEF UpdateConfig
  <2> QED
    BY <1>0, <2>2, PersistHealth
<1>5. CASE Restart \/ Crash
  <2>1. Load
    BY <1>5 DEF Restart, Crash
  <2> QED
    BY <2>1 DEF Load, latestDeliveryError, HealthInv
<1>6. CASE ScanEnd \/ Cancel \/ Collect \/ Silence \/ Tick \/ UNCHANGED vars
  BY <1>6 DEF ScanEnd, Cancel, Collect, Silence, Tick, vars, memory, HealthInv
<1> QED
  BY <1>1, <1>2, <1>3, <1>4, <1>5, <1>6 DEF Next

\* However writes fail and wherever the process crashes, Status reports healthy
\* only when the memory is what a restart would load.
THEOREM HealthDurable == Spec => []HealthyIsDurable
<1>1. Init => HealthInv
  BY DEF Init, HealthInv
<1>2. HealthInv => HealthyIsDurable
  BY DEF HealthInv, HealthyIsDurable, Healthy
<1> QED
  BY <1>1, <1>2, HealthStep, TypeInvAlways, PTL DEF Spec
-----------------------------------------------------------------------------
(* Order of the messages of one activation *)

\* Everything a queue says about deliveries has really been accepted: what it
\* marks as delivered, and the alarm of each escalation and recovery in it.
Truthful(d, a) ==
    \A id \in DOMAIN d :
        /\ d[id].deliveredAt # 0 => id \in a
        /\ id.kind # "critical" => deliveryID(id.key, "critical", id.at) \in a

OrderInv == Truthful(deliveries, accepted) /\ Truthful(disk.deliveries, accepted)

\* A write leaves a file that is ordered when memory is.
LEMMA PersistOrder ==
  ASSUME NEW out \in Outcomes, NEW c, NEW d, NEW r, persist(out, c, d, r),
         Truthful(d, accepted'), Truthful(disk.deliveries, accepted')
  PROVE  Truthful(disk'.deliveries, accepted')
  BY DEF persist, writeState

\* Reconciliation queues an escalation or a recovery only after a delivered alarm.
LEMMA ReconcileOrder ==
  ASSUME TypeOK, Truthful(deliveries, accepted), NEW c \in [Keys -> Condition]
  PROVE  Truthful(ReconciledDeliveries(c), accepted)
<1> DEFINE q == Enqueued(c)
           K == {x \in DOMAIN q : ~Obsolete(c, q, x) /\ ~Expired(c, q, x)}
<1>1. ASSUME NEW id \in Wanted(c), id.kind # "critical"
      PROVE  deliveryID(id.key, "critical", id.at) \in accepted
  <2>1. CriticalDelivered(id.key, id.at)
    BY <1>1 DEF Wanted, MayEscalate, deliveryID
  <2> QED
    BY <2>1 DEF CriticalDelivered, Undelivered, Truthful
<1>2. Truthful(q, accepted)
  <2> SUFFICES ASSUME NEW id \in DOMAIN q
               PROVE  /\ q[id].deliveredAt # 0 => id \in accepted
                      /\ id.kind # "critical" => deliveryID(id.key, "critical", id.at) \in accepted
    BY DEF Truthful
  <2>1. CASE id \in DOMAIN deliveries
    BY <2>1 DEF Enqueued, Truthful
  <2>2. CASE id \notin DOMAIN deliveries
    <3>1. id \in Wanted(c) /\ q[id].deliveredAt = 0
      BY <2>2 DEF Enqueued, NewDelivery
    <3> QED
      BY <1>1, <3>1
  <2> QED
    BY <2>1, <2>2
<1>3. DOMAIN q \subseteq ID /\ \A id \in DOMAIN q : q[id] \in Delivery
  <2>1. NewDelivery \in Delivery
    BY DEF NewDelivery, Delivery, TypeOK
  <2> QED
    BY <2>1, WantedType DEF Enqueued, IsQueue, TypeOK
<1>4. \A id \in DOMAIN q : Aged(c, q, id).deliveredAt = q[id].deliveredAt
  BY <1>3 DEF Aged, Delivery
<1>5. ReconciledDeliveries(c) = [id \in K |-> Aged(c, q, id)]
  BY DEF ReconciledDeliveries
<1> HIDE DEF q
<1> QED
  BY <1>2, <1>4, <1>5 DEF Truthful

\* Every step keeps alarms before their escalations and recoveries.
LEMMA OrderStep == TypeInv /\ OrderInv /\ [Next]_vars => OrderInv'
<1> SUFFICES ASSUME TypeInv, OrderInv, [Next]_vars
             PROVE  OrderInv'
  OBVIOUS
<1>0. TypeOK
  BY DEF TypeInv
<1>1. CASE Scan
  <2>1. CASE ScanDisabled \/ ScanSilenceUnavailable
    BY <2>1 DEF ScanDisabled, ScanSilenceUnavailable, vars, memory, history, OrderInv
  <2>2. ASSUME NEW out \in Outcomes, ScanReconcile(out) PROVE OrderInv'
    <3> DEFINE c == [k \in Keys |-> ReconciledCondition(k)]
               d == ReconciledDeliveries(c)
    <3>1. deliveries' = d /\ persist(out, c, d, refreshDeliveryError(d)) /\ accepted' = accepted
      BY <2>2 DEF ScanReconcile
    <3>2. c \in [Keys -> Condition]
      BY <1>0, <2>2, ReconciledConditionType DEF ScanReconcile
    <3>3. Truthful(d, accepted)
      BY <1>0, <3>2, ReconcileOrder DEF OrderInv
    <3> HIDE DEF c, d
    <3> QED
      BY <3>1, <3>3, PersistOrder DEF OrderInv
  <2> QED
    BY <1>1, <2>1, <2>2 DEF Scan
<1>2. CASE TakeNext
  <2>1. PICK id \in due : \/ ClaimSilenceUnavailable(id)
                         \/ ClaimSkip(id)
                         \/ \E out \in Outcomes : Claim(id, out)
    BY <1>2 DEF TakeNext
  <2>2. CASE ClaimSilenceUnavailable(id) \/ ClaimSkip(id)
    BY <2>2 DEF ClaimSilenceUnavailable, ClaimSkip, memory, history, OrderInv
  <2>3. ASSUME NEW out \in Outcomes, Claim(id, out) PROVE OrderInv'
    <3> DEFINE claimed == [deliveries EXCEPT ![id].attempts = @ + 1]
    <3>1. /\ persist(out, conditions, claimed, lastError)
          /\ deliveries' = (IF out = "ok" THEN claimed ELSE deliveries)
          /\ accepted' = accepted
      BY <2>3 DEF Claim
    <3>2. /\ DOMAIN claimed = DOMAIN deliveries
          /\ \A x \in DOMAIN deliveries : claimed[x].deliveredAt = deliveries[x].deliveredAt
      <4>1. deliveries[id] \in Delivery
        BY <1>0 DEF TypeOK, IsQueue
      <4> QED
        BY <4>1 DEF Delivery
    <3> HIDE DEF claimed
    <3>3. Truthful(claimed, accepted)
      BY <3>2 DEF OrderInv, Truthful
    <3> QED
      BY <3>1, <3>3, PersistOrder DEF OrderInv
  <2> QED
    BY <2>1, <2>2, <2>3
<1>3. CASE Answer
  <2>1. PICK id \in sending, answer \in Answers, out \in Outcomes : Finish(id, answer, out)
    BY <1>3 DEF Answer
  <2> DEFINE item == IF answer = "accepted" THEN Sent(deliveries[id])
                     ELSE Failed(deliveries[id], answer = "refused")
             d == [deliveries EXCEPT ![id] = item]
  <2>2. /\ deliveries' = d /\ persist(out, conditions, d, refreshDeliveryError(d))
        /\ accepted \subseteq accepted'
        /\ answer = "accepted" => id \in accepted'
    BY <2>1 DEF Finish
  <2>3. deliveries[id] \in Delivery /\ id \in DOMAIN deliveries
    BY <1>0 DEF TypeOK, IsQueue
  <2>4. answer # "accepted" => item.deliveredAt = deliveries[id].deliveredAt
    BY <2>3 DEF Failed, Delivery
  <2>5. DOMAIN d = DOMAIN deliveries /\ d[id] = item /\ \A x \in DOMAIN deliveries : x # id => d[x] = deliveries[x]
    BY <2>3
  <2> HIDE DEF item, d
  <2>6. Truthful(d, accepted')
    BY <2>2, <2>3, <2>4, <2>5 DEF OrderInv, Truthful
  <2>7. Truthful(disk.deliveries, accepted')
    BY <2>2 DEF OrderInv, Truthful
  <2> QED
    BY <2>2, <2>6, <2>7, PersistOrder DEF OrderInv
<1>4. CASE \E new \in Configs, out \in Outcomes : UpdateConfig(new, out)
  <2>1. PICK new \in Configs, out \in Outcomes : UpdateConfig(new, out)
    BY <1>4
  <2>2. PICK R : LET d == [id \in DOMAIN deliveries |->
                             IF id \in R THEN Requeued(deliveries[id]) ELSE deliveries[id]]
                 IN  /\ persist(out, conditions, d, refreshDeliveryError(d))
                     /\ deliveries' = (IF out = "ok" THEN d ELSE deliveries)
                     /\ accepted' = accepted
    BY <2>1 DEF UpdateConfig
  <2> DEFINE d == [id \in DOMAIN deliveries |->
                     IF id \in R THEN Requeued(deliveries[id]) ELSE deliveries[id]]
  <2>3. \A id \in DOMAIN deliveries : d[id].deliveredAt = deliveries[id].deliveredAt
    <3>1. \A id \in DOMAIN deliveries : deliveries[id] \in Delivery
      BY <1>0 DEF TypeOK, IsQueue
    <3> QED
      BY <3>1 DEF Requeued, Delivery
  <2>4. DOMAIN d = DOMAIN deliveries
    OBVIOUS
  <2>5. /\ persist(out, conditions, d, refreshDeliveryError(d))
        /\ deliveries' = (IF out = "ok" THEN d ELSE deliveries)
        /\ accepted' = accepted
    BY <2>2
  <2> HIDE DEF d
  <2>6. Truthful(d, accepted)
    BY <2>3, <2>4 DEF OrderInv, Truthful
  <2> QED
    BY <2>5, <2>6, PersistOrder DEF OrderInv
<1>5. CASE Restart \/ Crash
  BY <1>5 DEF Restart, Crash, Load, history, OrderInv
<1>6. CASE ScanEnd \/ Cancel \/ Collect \/ Silence \/ Tick \/ UNCHANGED vars
  BY <1>6 DEF ScanEnd, Cancel, Collect, Silence, Tick, vars, memory, history, OrderInv
<1> QED
  BY <1>1, <1>2, <1>3, <1>4, <1>5, <1>6 DEF Next

\* In memory and in whatever file a restart finds, an escalation or a recovery
\* always follows an alarm of the same activation that the receiver has taken.
THEOREM AlarmsInOrder == Spec => []AlarmOrder
<1>1. Init => OrderInv
  BY DEF Init, NoDeliveries, OrderInv, Truthful
<1>2. OrderInv => AlarmOrder
  BY DEF OrderInv, Truthful, AlarmOrder
<1> QED
  BY <1>1, <1>2, OrderStep, TypeInvAlways, PTL DEF Spec
-----------------------------------------------------------------------------
(* Durable claims *)

\* The attempts of a queue cover the requests made.
Covers(d, r) == \A id \in DOMAIN r \cap DOMAIN d : r[id] <= d[id].attempts

ClaimInv ==
    /\ sending \subseteq DOMAIN disk.deliveries
    /\ Covers(deliveries, requests) /\ Covers(disk.deliveries, requests)

\* Reconciliation keeps the attempts of every item it keeps, and a request
\* counts for an item only if the item was there before.
LEMMA ReconcileAttempts ==
  ASSUME TypeOK, NEW c \in [Keys -> Condition],
         NEW id \in DOMAIN ReconciledDeliveries(c), id \in DOMAIN deliveries
  PROVE  ReconciledDeliveries(c)[id].attempts = deliveries[id].attempts
<1> DEFINE q == Enqueued(c)
           K == {x \in DOMAIN q : ~Obsolete(c, q, x) /\ ~Expired(c, q, x)}
<1>1. ReconciledDeliveries(c) = [x \in K |-> Aged(c, q, x)]
  BY DEF ReconciledDeliveries
<1>2. q[id] = deliveries[id]
  BY DEF Enqueued
<1>3. deliveries[id] \in Delivery
  BY DEF TypeOK, IsQueue
<1>4. Aged(c, q, id).attempts = q[id].attempts
  BY <1>2, <1>3 DEF Aged, Delivery
<1> QED
  BY <1>1, <1>2, <1>4

\* After a write the file covers the requests if what was written does, or the old file.
LEMMA PersistClaims ==
  ASSUME NEW out \in Outcomes, NEW c, NEW d, NEW r, persist(out, c, d, r),
         out = "fail" => Covers(disk.deliveries, requests'),
         out # "fail" => Covers(d, requests')
  PROVE  Covers(disk'.deliveries, requests')
  BY DEF persist, writeState

\* Every step keeps the file ahead of the requests.
LEMMA ClaimStep == TypeInv /\ ClaimInv /\ [Next]_vars => ClaimInv'
<1> SUFFICES ASSUME TypeInv, ClaimInv, [Next]_vars
             PROVE  ClaimInv'
  OBVIOUS
<1>0. TypeOK
  BY DEF TypeInv
<1>1. CASE Scan
  <2>1. CASE ScanDisabled \/ ScanSilenceUnavailable
    BY <2>1 DEF ScanDisabled, ScanSilenceUnavailable, vars, memory, history, ClaimInv
  <2>2. ASSUME NEW out \in Outcomes, ScanReconcile(out) PROVE ClaimInv'
    <3> DEFINE c == [k \in Keys |-> ReconciledCondition(k)]
               d == ReconciledDeliveries(c)
    <3>1. deliveries' = d /\ persist(out, c, d, refreshDeliveryError(d))
      BY <2>2 DEF ScanReconcile
    <3>2. c \in [Keys -> Condition]
      BY <1>0, <2>2, ReconciledConditionType DEF ScanReconcile
    <3>3. sending' = {}
      BY <2>2 DEF ScanReconcile, TypeInv, ScanDiscipline
    <3>4. /\ DOMAIN requests' \subseteq DOMAIN requests
          /\ \A x \in DOMAIN requests' : requests'[x] = requests[x] /\ (x \in DOMAIN d => x \in DOMAIN deliveries)
      BY <2>2 DEF ScanReconcile
    <3>5. \A x \in DOMAIN d : x \in DOMAIN deliveries => d[x].attempts = deliveries[x].attempts
      BY <1>0, <3>2, ReconcileAttempts
    <3> HIDE DEF c, d
    <3>6. Covers(d, requests') /\ Covers(disk.deliveries, requests')
      BY <3>4, <3>5 DEF ClaimInv, Covers
    <3> QED
      BY <3>1, <3>3, <3>6, PersistClaims DEF ClaimInv
  <2> QED
    BY <1>1, <2>1, <2>2 DEF Scan
<1>2. CASE TakeNext
  <2>1. PICK id \in due : \/ ClaimSilenceUnavailable(id)
                         \/ ClaimSkip(id)
                         \/ \E out \in Outcomes : Claim(id, out)
    BY <1>2 DEF TakeNext
  <2>2. CASE ClaimSilenceUnavailable(id) \/ ClaimSkip(id)
    BY <2>2 DEF ClaimSilenceUnavailable, ClaimSkip, memory, history, ClaimInv
  <2>3. ASSUME NEW out \in Outcomes, Claim(id, out) PROVE ClaimInv'
    <3> DEFINE claimed == [deliveries EXCEPT ![id].attempts = @ + 1]
    <3>1. /\ persist(out, conditions, claimed, lastError)
          /\ deliveries' = (IF out = "ok" THEN claimed ELSE deliveries)
      BY <2>3 DEF Claim
    <3>2. /\ id \in DOMAIN deliveries /\ deliveries[id].attempts \in Nat
          /\ DOMAIN claimed = DOMAIN deliveries
          /\ claimed[id].attempts = deliveries[id].attempts + 1
          /\ \A x \in DOMAIN deliveries : x # id => claimed[x] = deliveries[x]
      BY <1>0 DEF TypeOK, IsQueue, Delivery
    <3>3. sending \subseteq DOMAIN deliveries
      BY <1>0 DEF TypeOK
    <3> HIDE DEF claimed
    <3>4. CASE out = "ok"
      <4>1. /\ sending' = sending \cup {id}
            /\ DOMAIN requests' = DOMAIN requests \cup {id}
            /\ \A x \in DOMAIN requests : x # id => requests'[x] = requests[x]
            /\ requests'[id] = (IF id \in DOMAIN requests THEN requests[id] ELSE 0) + 1
        <5>1. \A x \in DOMAIN requests : requests[x] \in Nat
          BY <1>0 DEF TypeOK
        <5>2. /\ sending' = sending \cup {id}
              /\ requests' = [x \in DOMAIN requests \cup {id} |->
                               (IF x \in DOMAIN requests THEN requests[x] ELSE 0)
                               + (IF x = id THEN 1 ELSE 0)]
          BY <2>3, <3>4 DEF Claim
        <5> QED
          BY <5>1, <5>2
      <4>2. disk'.deliveries = claimed /\ deliveries' = claimed
        BY <3>1, <3>4 DEF persist, writeState
      <4>3. requests'[id] <= claimed[id].attempts
        <5>1. CASE id \in DOMAIN requests
          <6>1. requests[id] \in Nat /\ requests[id] <= deliveries[id].attempts
            BY <1>0, <3>2, <5>1 DEF TypeOK, ClaimInv, Covers
          <6> QED
            BY <3>2, <4>1, <5>1, <6>1
        <5>2. CASE id \notin DOMAIN requests
          BY <3>2, <4>1, <5>2
        <5> QED
          BY <5>1, <5>2
      <4>4. Covers(claimed, requests')
        BY <3>2, <4>1, <4>3 DEF ClaimInv, Covers
      <4> QED
        BY <3>2, <3>3, <4>1, <4>2, <4>4 DEF ClaimInv
    <3>5. CASE out # "ok"
      <4>1. sending' = sending /\ requests' = requests /\ deliveries' = deliveries
        BY <2>3, <3>5 DEF Claim
      <4>2. DOMAIN disk'.deliveries \in {DOMAIN disk.deliveries, DOMAIN deliveries}
        BY <3>1, <3>2 DEF persist, writeState
      <4>3. Covers(claimed, requests)
        <5>1. \A x \in DOMAIN requests : requests[x] \in Nat
          BY <1>0 DEF TypeOK
        <5>2. \A x \in DOMAIN deliveries : deliveries[x].attempts \in Nat
          BY <1>0 DEF TypeOK, IsQueue, Delivery
        <5>3. \A x \in DOMAIN deliveries : deliveries[x].attempts <= claimed[x].attempts /\ claimed[x].attempts \in Nat
          BY <3>2, <5>2
        <5> QED
          BY <3>2, <5>1, <5>2, <5>3 DEF ClaimInv, Covers
      <4> QED
        BY <3>1, <3>3, <4>1, <4>2, <4>3, PersistClaims DEF ClaimInv
    <3> QED
      BY <3>4, <3>5
  <2> QED
    BY <2>1, <2>2, <2>3
<1>3. CASE Answer
  <2>1. PICK id \in sending, answer \in Answers, out \in Outcomes : Finish(id, answer, out)
    BY <1>3 DEF Answer
  <2> DEFINE item == IF answer = "accepted" THEN Sent(deliveries[id])
                     ELSE Failed(deliveries[id], answer = "refused")
             d == [deliveries EXCEPT ![id] = item]
  <2>2. /\ deliveries' = d /\ persist(out, conditions, d, refreshDeliveryError(d))
        /\ sending' = sending \ {id} /\ requests' = requests
    BY <2>1 DEF Finish
  <2>3. deliveries[id] \in Delivery /\ sending \subseteq DOMAIN deliveries
    BY <1>0 DEF TypeOK, IsQueue
  <2>4. item.attempts = deliveries[id].attempts
    BY <2>3 DEF Failed, Sent, Delivery
  <2>5. DOMAIN d = DOMAIN deliveries /\ \A x \in DOMAIN deliveries : d[x].attempts = deliveries[x].attempts
    BY <2>3, <2>4
  <2> HIDE DEF item, d
  <2>6. Covers(d, requests)
    BY <2>5 DEF ClaimInv, Covers
  <2>7. DOMAIN disk'.deliveries \in {DOMAIN disk.deliveries, DOMAIN deliveries}
    BY <2>2, <2>5 DEF persist, writeState
  <2> QED
    BY <2>2, <2>3, <2>6, <2>7, PersistClaims DEF ClaimInv
<1>4. CASE \E new \in Configs, out \in Outcomes : UpdateConfig(new, out)
  <2>1. PICK new \in Configs, out \in Outcomes : UpdateConfig(new, out)
    BY <1>4
  <2>2. PICK R : LET d == [id \in DOMAIN deliveries |->
                             IF id \in R THEN Requeued(deliveries[id]) ELSE deliveries[id]]
                 IN  /\ persist(out, conditions, d, refreshDeliveryError(d))
                     /\ deliveries' = (IF out = "ok" THEN d ELSE deliveries)
                     /\ sending' = sending /\ sending = {}
                     /\ requests' = [id \in DOMAIN requests |->
                                       IF id \in R /\ out # "fail" THEN 0 ELSE requests[id]]
    BY <2>1 DEF UpdateConfig
  <2> DEFINE d == [id \in DOMAIN deliveries |->
                     IF id \in R THEN Requeued(deliveries[id]) ELSE deliveries[id]]
  <2>3. \A id \in DOMAIN deliveries :
           d[id].attempts = (IF id \in R THEN 0 ELSE deliveries[id].attempts)
    <3>1. \A id \in DOMAIN deliveries : deliveries[id] \in Delivery
      BY <1>0 DEF TypeOK, IsQueue
    <3> QED
      BY <3>1 DEF Requeued, Delivery
  <2>4. DOMAIN d = DOMAIN deliveries
    OBVIOUS
  <2>5. /\ persist(out, conditions, d, refreshDeliveryError(d))
        /\ deliveries' = (IF out = "ok" THEN d ELSE deliveries)
        /\ sending' = {}
        /\ requests' = [id \in DOMAIN requests |->
                          IF id \in R /\ out # "fail" THEN 0 ELSE requests[id]]
    BY <2>2
  <2>6. \A id \in DOMAIN deliveries : deliveries[id].attempts \in Nat
    BY <1>0 DEF TypeOK, IsQueue, Delivery
  <2> HIDE DEF d
  <2>7. Covers(deliveries, requests')
    BY <2>5, <2>6 DEF ClaimInv, Covers
  <2>8. out # "fail" => Covers(d, requests')
    BY <2>3, <2>4, <2>5 DEF ClaimInv, Covers
  <2>9. out = "fail" => Covers(disk.deliveries, requests')
    BY <2>5 DEF ClaimInv, Covers
  <2>10. Covers(deliveries', requests')
    BY <2>5, <2>7, <2>8
  <2> QED
    BY <2>5, <2>8, <2>9, <2>10, PersistClaims DEF ClaimInv
<1>5. CASE Restart \/ Crash
  BY <1>5 DEF Restart, Crash, Load, history, ClaimInv
<1>6. CASE ScanEnd \/ Cancel \/ Collect \/ Silence \/ Tick \/ UNCHANGED vars
  BY <1>6 DEF ScanEnd, Cancel, Collect, Silence, Tick, vars, memory, history, ClaimInv
<1> QED
  BY <1>1, <1>2, <1>3, <1>4, <1>5, <1>6 DEF Next

\* No outbound side effect precedes its durable claim: at any crash point the
\* file accounts for every request made.
THEOREM ClaimsAreDurable == Spec => []ClaimCoversRequests
<1>1. Init => ClaimInv
  BY DEF Init, NoDeliveries, ClaimInv, Covers
<1>2. ClaimInv => ClaimCoversRequests
  BY DEF ClaimInv, Covers, ClaimCoversRequests
<1> QED
  BY <1>1, <1>2, ClaimStep, TypeInvAlways, PTL DEF Spec
-----------------------------------------------------------------------------
(* Attempts are bounded *)

\* A delivery that is still to be sent.
Waiting(d, id) == Undelivered(d, id) /\ ~d[id].deadLetter

\* Attempts that the largest of the settings and n lost processes explain.
Within(a, n) == \E s \in Configs : a <= s.retryMax + n

\* Processes that were lost; one that is being stopped claims nothing more.
Lost == IF scan = "cancelled" THEN crashes - 1 ELSE crashes

BoundInv ==
    /\ scan = "cancelled" => crashes > 0
    /\ \A id \in due : Waiting(deliveries, id) /\ id \notin sending
    /\ \A id \in DOMAIN deliveries : Within(deliveries[id].attempts, Lost)
    /\ \A id \in DOMAIN disk.deliveries : Within(disk.deliveries[id].attempts, Lost)
    /\ \A id \in DOMAIN deliveries \ sending :
           Waiting(deliveries, id) => Within(deliveries[id].attempts + 1, Lost)

\* A bound holds for fewer attempts and for more losses.
LEMMA WithinMore ==
  ASSUME NEW a \in Int, NEW b \in Int, NEW n \in Int, NEW m \in Int, Within(a, n), b - m <= a - n
  PROVE  Within(b, m)
<1>1. PICK s \in Configs : a <= s.retryMax + n
  BY DEF Within
<1>2. s.retryMax \in Int
  BY ConstantsAssumption DEF Config
<1>3. b <= s.retryMax + m
  BY <1>1, <1>2
<1> QED
  BY <1>3 DEF Within

\* A first attempt is always allowed.
LEMMA WithinFirst ==
  ASSUME NEW n \in Int, n >= 0
  PROVE  Within(0, n) /\ Within(0 + 1, n)
<1>1. InitialConfig.retryMax \in Nat \ {0} /\ InitialConfig \in Configs
  BY ConstantsAssumption DEF Config
<1>2. 0 <= InitialConfig.retryMax + n /\ 0 + 1 <= InitialConfig.retryMax + n
  BY <1>1
<1> QED
  BY <1>1, <1>2 DEF Within

\* An item of the reconciled queue is the old one, aged, or a new one.
LEMMA ReconciledItem ==
  ASSUME TypeOK, NEW c \in [Keys -> Condition], NEW id \in DOMAIN ReconciledDeliveries(c)
  PROVE  LET item == ReconciledDeliveries(c)[id] IN
         /\ id \in DOMAIN deliveries =>
               /\ item.attempts = deliveries[id].attempts
               /\ item.deliveredAt = deliveries[id].deliveredAt
               /\ item.deadLetter <=> deliveries[id].deadLetter
         /\ id \notin DOMAIN deliveries =>
               id \in Wanted(c) /\ item.attempts = 0 /\ item.deliveredAt = 0
<1> DEFINE q == Enqueued(c)
           K == {x \in DOMAIN q : ~Obsolete(c, q, x) /\ ~Expired(c, q, x)}
<1>1. ReconciledDeliveries(c) = [x \in K |-> Aged(c, q, x)]
  BY DEF ReconciledDeliveries
<1>2. id \in DOMAIN deliveries \cup Wanted(c)
  BY <1>1 DEF Enqueued
<1>3. q[id] = IF id \in DOMAIN deliveries THEN deliveries[id] ELSE NewDelivery
  BY <1>2 DEF Enqueued
<1>4. id \in DOMAIN deliveries => deliveries[id] \in Delivery
  BY DEF TypeOK, IsQueue
<1>5. NewDelivery \in Delivery /\ NewDelivery.attempts = 0 /\ NewDelivery.deliveredAt = 0
  BY DEF NewDelivery, Delivery, TypeOK
<1>6. q[id] \in Delivery
  BY <1>3, <1>4, <1>5
<1> HIDE DEF q
<1>7. /\ Aged(c, q, id).attempts = q[id].attempts
      /\ Aged(c, q, id).deliveredAt = q[id].deliveredAt
      /\ Aged(c, q, id).deadLetter <=> q[id].deadLetter
  BY <1>6 DEF Aged, Delivery
<1>8. ReconciledDeliveries(c)[id] = Aged(c, q, id)
  BY <1>1
<1> QED
  BY <1>2, <1>3, <1>5, <1>7, <1>8

\* The losses are a number, and a queue's attempts are numbers.
LEMMA BoundTypes ==
  ASSUME TypeInv, BoundInv
  PROVE  /\ Lost \in Nat /\ crashes \in Nat
         /\ \A id \in DOMAIN deliveries : deliveries[id] \in Delivery /\ deliveries[id].attempts \in Nat
         /\ \A id \in DOMAIN disk.deliveries : disk.deliveries[id].attempts \in Nat
<1>1. crashes \in Nat /\ IsQueue(deliveries) /\ IsQueue(disk.deliveries)
  BY DEF TypeInv, TypeOK
<1>2. Lost \in Nat
  BY <1>1 DEF BoundInv, Lost
<1> QED
  BY <1>1, <1>2 DEF IsQueue, Delivery

\* After a write every item of the file is within bounds, if those written are.
LEMMA PersistBound ==
  ASSUME NEW out \in Outcomes, NEW c, NEW d, NEW r, persist(out, c, d, r), NEW n,
         \A id \in DOMAIN d : Within(d[id].attempts, n),
         \A id \in DOMAIN disk.deliveries : Within(disk.deliveries[id].attempts, n)
  PROVE  \A id \in DOMAIN disk'.deliveries : Within(disk'.deliveries[id].attempts, n)
<1>1. disk' = disk \/ disk'.deliveries = d
  BY DEF persist, writeState
<1> QED
  BY <1>1

\* A scan keeps the bounds: what it adds has not been tried.
LEMMA ScanReconcileBound ==
  ASSUME TypeInv, BoundInv, NEW out \in Outcomes, ScanReconcile(out)
  PROVE  BoundInv'
<1> DEFINE c == [k \in Keys |-> ReconciledCondition(k)]
           d == ReconciledDeliveries(c)
<1>0. TypeOK /\ Lost \in Nat
  BY BoundTypes DEF TypeInv
<1>1. c \in [Keys -> Condition]
  BY <1>0, ReconciledConditionType DEF ScanReconcile
<1>2. /\ deliveries' = d /\ persist(out, c, d, refreshDeliveryError(d))
      /\ scan = "idle" /\ sending = {} /\ due = {} /\ sending' = {} /\ crashes' = crashes
  BY DEF ScanReconcile, TypeInv, ScanDiscipline
<1>3. scan' # "cancelled" /\ due' \subseteq Due(c, d)
  <2>1. CASE out # "ok"
    BY <1>2, <2>1 DEF ScanReconcile
  <2>2. CASE out = "ok"
    BY <2>2 DEF ScanReconcile
  <2> QED
    BY <2>1, <2>2
<1>4. Lost' = Lost
  BY <1>2, <1>3 DEF Lost
<1>5. \A id \in DOMAIN d :
        /\ id \in DOMAIN deliveries =>
              /\ d[id].attempts = deliveries[id].attempts
              /\ d[id].deliveredAt = deliveries[id].deliveredAt
              /\ d[id].deadLetter <=> deliveries[id].deadLetter
        /\ id \notin DOMAIN deliveries => d[id].attempts = 0
  BY <1>0, <1>1, ReconciledItem
<1>6. \A id \in Due(c, d) : Waiting(d, id)
  BY DEF Due, Waiting
<1> HIDE DEF c, d
<1>7. Within(0, Lost) /\ Within(0 + 1, Lost)
  BY <1>0, WithinFirst
<1>8. \A id \in DOMAIN d : Within(d[id].attempts, Lost)
  BY <1>5, <1>7 DEF BoundInv
<1>9. \A id \in DOMAIN d : Waiting(d, id) => Within(d[id].attempts + 1, Lost)
  BY <1>2, <1>5, <1>7 DEF BoundInv, Waiting, Undelivered
<1>10. \A id \in DOMAIN disk'.deliveries : Within(disk'.deliveries[id].attempts, Lost)
  <2>1. \A id \in DOMAIN disk.deliveries : Within(disk.deliveries[id].attempts, Lost)
    BY DEF BoundInv
  <2> QED
    BY <1>2, <1>8, <2>1, PersistBound
<1> QED
  BY <1>2, <1>3, <1>4, <1>6, <1>8, <1>9, <1>10 DEF BoundInv

\* A claim counts one attempt of an item that had one left.
LEMMA ClaimBound ==
  ASSUME TypeInv, BoundInv, NEW id \in due, NEW out \in Outcomes, Claim(id, out)
  PROVE  BoundInv'
<1> DEFINE claimed == [deliveries EXCEPT ![id].attempts = @ + 1]
<1>0. /\ Lost \in Nat /\ \A x \in DOMAIN deliveries : deliveries[x] \in Delivery /\ deliveries[x].attempts \in Nat
      /\ due \cup sending \subseteq DOMAIN deliveries
  BY BoundTypes DEF TypeInv, TypeOK
<1>1. /\ persist(out, conditions, claimed, lastError)
      /\ deliveries' = (IF out = "ok" THEN claimed ELSE deliveries)
      /\ scan = "deliver" /\ scan' = scan /\ crashes' = crashes
      /\ due' \subseteq due
      /\ (out = "ok" => due' = due \ {id} /\ sending' = sending \cup {id})
      /\ (out # "ok" => due' = {} /\ sending' = sending)
  BY DEF Claim, NextDue
<1>2. /\ DOMAIN claimed = DOMAIN deliveries
      /\ claimed[id].attempts = deliveries[id].attempts + 1
      /\ \A x \in DOMAIN deliveries : x # id => claimed[x] = deliveries[x]
  BY <1>0 DEF Delivery
<1> HIDE DEF claimed
<1>3. Lost' = Lost
  BY <1>1 DEF Lost
<1>4. Within(deliveries[id].attempts + 1, Lost)
  BY DEF BoundInv, TypeInv, TypeOK
<1>5. \A x \in DOMAIN claimed : Within(claimed[x].attempts, Lost)
  BY <1>2, <1>4 DEF BoundInv
<1>6. \A x \in DOMAIN disk'.deliveries : Within(disk'.deliveries[x].attempts, Lost)
  <2>1. \A x \in DOMAIN disk.deliveries : Within(disk.deliveries[x].attempts, Lost)
    BY DEF BoundInv
  <2> QED
    BY <1>1, <1>5, <2>1, PersistBound
<1>7. CASE out = "ok"
  <2>1. deliveries' = claimed /\ due' = due \ {id} /\ sending' = sending \cup {id}
    BY <1>1, <1>7
  <2>2. \A x \in due' : Waiting(deliveries', x) /\ x \notin sending'
    BY <1>0, <1>2, <2>1 DEF BoundInv, Waiting, Undelivered
  <2>3. \A x \in DOMAIN deliveries' \ sending' : Waiting(deliveries', x) => Within(deliveries'[x].attempts + 1, Lost)
    BY <1>0, <1>2, <2>1 DEF BoundInv, Waiting, Undelivered
  <2> QED
    BY <1>1, <1>3, <1>5, <1>6, <2>1, <2>2, <2>3 DEF BoundInv
<1>8. CASE out # "ok"
  <2>1. deliveries' = deliveries /\ due' = {} /\ sending' = sending
    BY <1>1, <1>8
  <2> QED
    BY <1>1, <1>3, <1>6, <2>1 DEF BoundInv
<1> QED
  BY <1>7, <1>8

\* A result either closes the item or leaves it an attempt.
LEMMA FinishBound ==
  ASSUME TypeInv, BoundInv, NEW id \in sending, NEW answer \in Answers, NEW out \in Outcomes,
         Finish(id, answer, out)
  PROVE  BoundInv'
<1> DEFINE item == IF answer = "accepted" THEN Sent(deliveries[id])
                   ELSE Failed(deliveries[id], answer = "refused")
           d == [deliveries EXCEPT ![id] = item]
<1>0. /\ Lost \in Nat /\ \A x \in DOMAIN deliveries : deliveries[x] \in Delivery /\ deliveries[x].attempts \in Nat
      /\ due \cup sending \subseteq DOMAIN deliveries
      /\ clock \in Nat \ {0} /\ cfg \in Configs /\ cfg.retryMax \in Nat
  BY BoundTypes, ConstantsAssumption DEF TypeInv, TypeOK, Config
<1>1. /\ deliveries' = d /\ persist(out, conditions, d, refreshDeliveryError(d))
      /\ sending' = sending \ {id} /\ scan' = scan /\ crashes' = crashes /\ due' = due
  BY DEF Finish
<1>2. item.attempts = deliveries[id].attempts
  BY <1>0 DEF Failed, Sent, Delivery
<1>3. \/ item.deliveredAt # 0 \/ item.deadLetter \/ deliveries[id].attempts < cfg.retryMax
  <2>1. CASE answer = "accepted"
    <3>1. item = Sent(deliveries[id]) /\ deliveries[id] \in Delivery
      BY <1>0, <2>1
    <3> HIDE DEF item
    <3>2. item.deliveredAt = clock
      BY <3>1 DEF Sent, Delivery
    <3> QED
      BY <1>0, <3>2
  <2>2. CASE answer # "accepted" /\ (answer = "refused" \/ deliveries[id].attempts >= cfg.retryMax)
    <3>1. item = [deliveries[id] EXCEPT !.lastError = TRUE, !.deadLetter = TRUE] /\ deliveries[id] \in Delivery
      BY <1>0, <2>2 DEF Failed
    <3> HIDE DEF item
    <3>2. item.deadLetter = TRUE
      BY <3>1 DEF Delivery
    <3> QED
      BY <3>2
  <2>3. CASE ~(deliveries[id].attempts >= cfg.retryMax)
    BY <1>0, <2>3
  <2> QED
    BY <2>1, <2>2, <2>3
<1>4. /\ DOMAIN d = DOMAIN deliveries /\ d[id] = item
      /\ \A x \in DOMAIN deliveries : x # id => d[x] = deliveries[x]
  BY <1>0
<1> HIDE DEF item, d
<1>5. Lost' = Lost
  BY <1>1 DEF Lost
<1>6. \A x \in DOMAIN d : Within(d[x].attempts, Lost)
  BY <1>2, <1>4 DEF BoundInv
<1>7. Waiting(d, id) => Within(d[id].attempts + 1, Lost)
  <2> SUFFICES ASSUME Waiting(d, id) PROVE Within(d[id].attempts + 1, Lost)
    OBVIOUS
  <2>1. deliveries[id].attempts < cfg.retryMax /\ deliveries[id].attempts \in Nat
    BY <1>0, <1>3, <1>4 DEF Waiting, Undelivered
  <2>2. deliveries[id].attempts + 1 <= cfg.retryMax + Lost
    BY <1>0, <2>1
  <2>3. Within(deliveries[id].attempts + 1, Lost)
    BY <1>0, <2>2 DEF Within
  <2> QED
    BY <1>2, <1>4, <2>3
<1>8. \A x \in DOMAIN disk'.deliveries : Within(disk'.deliveries[x].attempts, Lost)
  <2>1. \A x \in DOMAIN disk.deliveries : Within(disk.deliveries[x].attempts, Lost)
    BY DEF BoundInv
  <2> QED
    BY <1>1, <1>6, <2>1, PersistBound
<1>9. \A x \in due : Waiting(d, x) /\ x \notin sending'
  BY <1>0, <1>1, <1>4 DEF BoundInv, Waiting, Undelivered
<1>10. \A x \in DOMAIN d \ sending' : Waiting(d, x) => Within(d[x].attempts + 1, Lost)
  BY <1>1, <1>4, <1>7 DEF BoundInv, Waiting, Undelivered
<1> QED
  BY <1>1, <1>5, <1>6, <1>8, <1>9, <1>10 DEF BoundInv

\* A dead letter that is queued again starts from nothing.
LEMMA UpdateConfigBound ==
  ASSUME TypeInv, BoundInv, NEW new \in Configs, NEW out \in Outcomes, UpdateConfig(new, out)
  PROVE  BoundInv'
<1>0. /\ Lost \in Nat /\ \A x \in DOMAIN deliveries : deliveries[x] \in Delivery
  BY BoundTypes
<1>1. PICK R : LET d == [id \in DOMAIN deliveries |->
                           IF id \in R THEN Requeued(deliveries[id]) ELSE deliveries[id]]
               IN  /\ persist(out, conditions, d, refreshDeliveryError(d))
                   /\ deliveries' = (IF out = "ok" THEN d ELSE deliveries)
                   /\ sending' = {} /\ sending = {} /\ due' = {} /\ scan' = scan /\ crashes' = crashes
  BY DEF UpdateConfig
<1> DEFINE d == [id \in DOMAIN deliveries |->
                   IF id \in R THEN Requeued(deliveries[id]) ELSE deliveries[id]]
<1>2. /\ persist(out, conditions, d, refreshDeliveryError(d))
      /\ deliveries' = (IF out = "ok" THEN d ELSE deliveries)
      /\ sending' = {} /\ sending = {} /\ due' = {} /\ scan' = scan /\ crashes' = crashes
  BY <1>1
<1>3. DOMAIN d = DOMAIN deliveries /\ \A id \in DOMAIN d : d[id].attempts = 0 \/ d[id] = deliveries[id]
  BY <1>0 DEF Requeued, Delivery
<1> HIDE DEF d
<1>4. Lost' = Lost
  BY <1>2 DEF Lost
<1>5. Within(0, Lost) /\ Within(0 + 1, Lost)
  BY <1>0, WithinFirst
<1>6. \A id \in DOMAIN d : Within(d[id].attempts, Lost)
  BY <1>3, <1>5 DEF BoundInv
<1>7. \A id \in DOMAIN d : Waiting(d, id) => Within(d[id].attempts + 1, Lost)
  BY <1>2, <1>3, <1>5 DEF BoundInv, Waiting, Undelivered
<1>8. \A x \in DOMAIN disk'.deliveries : Within(disk'.deliveries[x].attempts, Lost)
  <2>1. \A x \in DOMAIN disk.deliveries : Within(disk.deliveries[x].attempts, Lost)
    BY DEF BoundInv
  <2> QED
    BY <1>2, <1>6, <2>1, PersistBound
<1>9. CASE out = "ok"
  BY <1>2, <1>4, <1>6, <1>7, <1>8, <1>9 DEF BoundInv
<1>10. CASE out # "ok"
  BY <1>2, <1>4, <1>8, <1>10 DEF BoundInv
<1> QED
  BY <1>9, <1>10

\* A process that ends explains one attempt more of everything it leaves on disk.
LEMMA LossBound ==
  ASSUME TypeInv, BoundInv, Cancel \/ Restart \/ Crash
  PROVE  BoundInv'
<1>0. /\ Lost \in Nat /\ crashes \in Nat
      /\ \A x \in DOMAIN deliveries : deliveries[x].attempts \in Nat
      /\ \A x \in DOMAIN disk.deliveries : disk.deliveries[x].attempts \in Nat
  BY BoundTypes
<1>1. CASE Cancel
  <2>1. /\ scan' = "cancelled" /\ scan # "cancelled" /\ crashes' = crashes + 1 /\ due' = {}
        /\ deliveries' = deliveries /\ disk' = disk /\ sending' = sending
    BY <1>1 DEF Cancel, memory
  <2>2. Lost' = Lost /\ crashes' > 0
    BY <1>0, <2>1 DEF Lost
  <2> QED
    BY <2>1, <2>2 DEF BoundInv
<1>2. CASE Restart \/ Crash
  <2>1. /\ scan' = "idle" /\ due' = {} /\ sending' = {}
        /\ deliveries' = disk.deliveries /\ disk' = disk
    BY <1>2 DEF Restart, Crash, Load
  <2>2. Lost' = Lost + 1
    <3>1. CASE Restart
      BY <1>0, <2>1, <3>1 DEF Restart, Lost
    <3>2. CASE Crash
      BY <1>0, <2>1, <3>2 DEF Crash, Lost
    <3> QED
      BY <1>2, <3>1, <3>2
  <2>3. ASSUME NEW x \in DOMAIN disk.deliveries
        PROVE  /\ Within(disk.deliveries[x].attempts, Lost + 1)
               /\ Within(disk.deliveries[x].attempts + 1, Lost + 1)
    <3>1. Within(disk.deliveries[x].attempts, Lost) /\ disk.deliveries[x].attempts \in Nat
      BY <1>0 DEF BoundInv
    <3> DEFINE a == disk.deliveries[x].attempts
    <3>2. a \in Int /\ a + 1 \in Int /\ Lost \in Int /\ Lost + 1 \in Int /\ Within(a, Lost)
          /\ a - (Lost + 1) <= a - Lost /\ (a + 1) - (Lost + 1) <= a - Lost
      BY <1>0, <3>1
    <3> HIDE DEF a
    <3>3. Within(a, Lost + 1) /\ Within(a + 1, Lost + 1)
      BY <3>2, WithinMore
    <3> QED
      BY <3>3 DEF a
  <2> QED
    BY <2>1, <2>2, <2>3 DEF BoundInv
<1> QED
  BY <1>1, <1>2

\* Every step keeps the attempts within bounds.
LEMMA BoundStep == TypeInv /\ BoundInv /\ [Next]_vars => BoundInv'
<1> SUFFICES ASSUME TypeInv, BoundInv, [Next]_vars
             PROVE  BoundInv'
  OBVIOUS
<1>1. CASE Scan
  <2>1. CASE ScanDisabled \/ ScanSilenceUnavailable
    BY <2>1 DEF ScanDisabled, ScanSilenceUnavailable, vars, memory, BoundInv, Lost
  <2> QED
    BY <1>1, <2>1, ScanReconcileBound DEF Scan
<1>2. CASE TakeNext
  <2>1. PICK id \in due : \/ ClaimSilenceUnavailable(id)
                         \/ ClaimSkip(id)
                         \/ \E out \in Outcomes : Claim(id, out)
    BY <1>2 DEF TakeNext
  <2>2. CASE ClaimSilenceUnavailable(id) \/ ClaimSkip(id)
    BY <2>2 DEF ClaimSilenceUnavailable, ClaimSkip, memory, BoundInv, Lost
  <2> QED
    BY <2>1, <2>2, ClaimBound
<1>3. CASE Answer
  BY <1>3, FinishBound DEF Answer
<1>4. CASE \E new \in Configs, out \in Outcomes : UpdateConfig(new, out)
  BY <1>4, UpdateConfigBound
<1>5. CASE Cancel \/ Restart \/ Crash
  BY <1>5, LossBound
<1>6. CASE ScanEnd \/ Collect \/ Silence \/ Tick \/ UNCHANGED vars
  BY <1>6 DEF ScanEnd, Collect, Silence, Tick, vars, memory, BoundInv, Lost
<1> QED
  BY <1>1, <1>2, <1>3, <1>4, <1>5, <1>6 DEF Next

\* The engine starts with nothing to send.
LEMMA BoundInit == Init => BoundInv
  BY DEF Init, NoDeliveries, BoundInv, Lost

\* The bound of the claim is the bound of the property.
LEMMA BoundGives ==
  ASSUME TypeInv, BoundInv
  PROVE  RetryBounded
<1> SUFFICES ASSUME NEW id \in DOMAIN deliveries
             PROVE  \E c \in Configs : deliveries[id].attempts <= c.retryMax + crashes
  BY DEF RetryBounded
<1> DEFINE a == deliveries[id].attempts
<1>1. Lost \in Int /\ crashes \in Int /\ a \in Int /\ Within(a, Lost)
  BY BoundTypes DEF BoundInv
<1>2. a - crashes <= a - Lost
  BY <1>1 DEF Lost
<1>3. Within(a, crashes)
  BY <1>1, <1>2, WithinMore
<1> QED
  BY <1>3 DEF Within
-----------------------------------------------------------------------------
(* Nothing strays *)

\* The records of a condition start to age when it is resolved, and its
\* recovery is there only then.
Orderly(c, d) ==
    /\ \A k \in Keys : c[k].active => c[k].known
    /\ \A id \in DOMAIN d : CurrentActivation(c, id) =>
           d[id].inactiveAt = IF c[id.key].active THEN 0 ELSE c[id.key].lastSeen
    /\ \A id \in DOMAIN d : id.kind = "recovery" => ~Pinned(c, id)

\* What must not be forgotten: acceptances on disk, recoveries requested.
Kept(rec, req) == rec \cup {id \in req : id.kind = "recovery"}

HasRecord(d, id) == \E kind \in Kinds : deliveryID(id.key, kind, id.at) \in DOMAIN d

\* It is remembered: by a record of its activation, by its own as long as the
\* condition is; an acceptance is known as one, a resolved condition stays so.
Remembers(c, d, rec, req) ==
    /\ \A id \in Kept(rec, req) : HasRecord(d, id) /\ (CurrentActivation(c, id) => id \in DOMAIN d)
    /\ \A id \in rec \cap DOMAIN d : ~Undelivered(d, id)
    /\ \A id \in req : id.kind = "recovery" => ~Pinned(c, id)

\* What is being sent is open, and an alarm is of an active condition.
Sends == \A id \in sending :
    Undelivered(deliveries, id) /\ (id.kind \in Alarms => Pinned(conditions, id))

MemoryInv ==
    /\ Orderly(conditions, deliveries)
    /\ Orderly(disk.conditions, disk.deliveries)
    /\ Remembers(conditions, deliveries, recorded, DOMAIN requests)
    /\ Remembers(disk.conditions, disk.deliveries, recorded, DOMAIN requests)

\* A queue that a claim, a result or new settings make of another one.
Like(d, e) ==
    /\ DOMAIN e = DOMAIN d
    /\ \A id \in DOMAIN d : /\ e[id].inactiveAt = d[id].inactiveAt
                            /\ ~Undelivered(d, id) => ~Undelivered(e, id)

\* An ID is the delivery ID of its parts.
LEMMA OwnID == \A id \in ID : deliveryID(id.key, id.kind, id.at) = id /\ id.kind \in Kinds /\ id.key \in Keys
  BY DEF ID, deliveryID

\* Such a queue is as orderly.
LEMMA LikeOrderly ==
  ASSUME NEW c, NEW d, NEW e, Orderly(c, d), Like(d, e)
  PROVE  Orderly(c, e)
  BY DEF Orderly, Like

\* It remembers as much, what it newly records and what it holds included.
LEMMA LikeRemembers ==
  ASSUME NEW c, NEW d, NEW e, NEW rec, NEW req, NEW rec2, NEW req2,
         DOMAIN d \subseteq ID, Orderly(c, d), Remembers(c, d, rec, req), Like(d, e),
         rec2 \subseteq rec \cup {id \in DOMAIN e : ~Undelivered(e, id)},
         req2 \subseteq req \cup DOMAIN e
  PROVE  Remembers(c, e, rec2, req2)
<1>1. ASSUME NEW id \in Kept(rec2, req2)
      PROVE  HasRecord(e, id) /\ (CurrentActivation(c, id) => id \in DOMAIN e)
  <2>1. CASE id \in Kept(rec, req)
    BY <2>1 DEF Remembers, HasRecord, Like
  <2>2. CASE id \in DOMAIN e
    <3>1. id \in ID
      BY <2>2 DEF Like
    <3> QED
      BY <2>2, <3>1, OwnID DEF HasRecord
  <2> QED
    BY <1>1, <2>1, <2>2 DEF Kept
<1>2. ASSUME NEW id \in rec2 \cap DOMAIN e
      PROVE  ~Undelivered(e, id)
  BY DEF Remembers, Like
<1>3. ASSUME NEW id \in req2, id.kind = "recovery"
      PROVE  ~Pinned(c, id)
  BY <1>3 DEF Remembers, Orderly, Like
<1> QED
  BY <1>1, <1>2, <1>3 DEF Remembers

\* Fewer things to remember are remembered.
LEMMA RemembersLess ==
  ASSUME NEW c, NEW d, NEW rec, NEW req, NEW rec2, NEW req2,
         Remembers(c, d, rec, req), rec2 \subseteq rec, req2 \subseteq req
  PROVE  Remembers(c, d, rec2, req2)
<1>1. Kept(rec2, req2) \subseteq Kept(rec, req)
  BY DEF Kept
<1> QED
  BY <1>1 DEF Remembers

\* What a write leaves in the file and records.
LEMMA PersistRecords ==
  ASSUME NEW out \in Outcomes, NEW c, NEW d, NEW r, persist(out, c, d, r)
  PROVE  /\ out = "fail" => disk' = disk /\ recorded' \subseteq recorded
         /\ out # "fail" => /\ disk'.conditions = c /\ disk'.deliveries = d
                            /\ recorded' \subseteq recorded \cup {id \in DOMAIN d : ~Undelivered(d, id)}
         /\ \A id \in recorded' : ~Vanished(id)
<1>1. disk' = IF out = "fail" THEN disk ELSE [conditions |-> c, deliveries |-> d]
  BY DEF persist, writeState
<1>2. recorded' = {id \in recorded \cup (IF out = "fail" THEN {} ELSE Recorded(disk')) : ~Vanished(id)}
  BY DEF persist
<1>3. out # "fail" => disk'.conditions = c /\ disk'.deliveries = d
  BY <1>1
<1>4. out # "fail" => Recorded(disk') = {id \in DOMAIN d : ~Undelivered(d, id)}
  BY <1>3 DEF Recorded
<1> QED
  BY <1>1, <1>2, <1>3, <1>4

\* A write between two scans keeps the memory and the file in order.
LEMMA WriteKeeps ==
  ASSUME TypeOK, MemoryInv, NEW out \in Outcomes, NEW e, NEW r, persist(out, conditions, e, r),
         conditions' = conditions, Like(deliveries, e), Like(deliveries, deliveries'), Like(e, deliveries'),
         DOMAIN requests' \subseteq DOMAIN requests \cup (IF out = "ok" THEN DOMAIN deliveries ELSE {})
  PROVE  MemoryInv'
<1>1. DOMAIN deliveries \subseteq ID /\ DOMAIN e = DOMAIN deliveries /\ DOMAIN deliveries' = DOMAIN deliveries
  BY DEF TypeOK, IsQueue, Like
<1>2. Orderly(conditions, e) /\ Orderly(conditions, deliveries')
  BY LikeOrderly DEF MemoryInv
<1>3. CASE out = "fail"
  <2>1. disk' = disk /\ recorded' \subseteq recorded /\ DOMAIN requests' \subseteq DOMAIN requests
    BY <1>3, PersistRecords
  <2>2. Remembers(conditions, deliveries', recorded', DOMAIN requests')
    BY <1>1, <2>1, LikeRemembers DEF MemoryInv
  <2>3. Remembers(disk.conditions, disk.deliveries, recorded', DOMAIN requests')
    BY <2>1, RemembersLess DEF MemoryInv
  <2> QED
    BY <1>2, <2>1, <2>2, <2>3 DEF MemoryInv
<1>4. CASE out # "fail"
  <2>1. /\ disk'.conditions = conditions /\ disk'.deliveries = e
        /\ recorded' \subseteq recorded \cup {id \in DOMAIN e : ~Undelivered(e, id)}
    BY <1>4, PersistRecords
  <2>2. DOMAIN requests' \subseteq DOMAIN requests \cup DOMAIN e
    BY <1>1
  <2>3. Remembers(conditions, e, recorded', DOMAIN requests')
    BY <1>1, <2>1, <2>2, LikeRemembers DEF MemoryInv
  <2>4. recorded' \subseteq recorded \cup {id \in DOMAIN deliveries' : ~Undelivered(deliveries', id)}
    BY <1>1, <2>1 DEF Like
  <2>5. Remembers(conditions, deliveries', recorded', DOMAIN requests')
    BY <1>1, <2>2, <2>4, LikeRemembers DEF MemoryInv
  <2> QED
    BY <1>2, <2>1, <2>3, <2>5 DEF MemoryInv
<1> QED
  BY <1>3, <1>4

-----------------------------------------------------------------------------
(* A scan. *)

\* What reconciliation makes of a condition, case by case.
LEMMA ReconciledCases ==
  ASSUME TypeOK, ActivationsFit, NEW k \in Keys
  PROVE  LET c == conditions[k]
             n == ReconciledCondition(k) IN
         \/ n.known /\ n.active /\ ~c.active /\ ~Collides(k, n.firstSeen)
         \/ n.active /\ c.active /\ n.known = c.known /\ n.firstSeen = c.firstSeen
         \/ /\ Recovers(k) /\ n.active = FALSE /\ n.lastSeen = clock
            /\ n.known = c.known /\ n.firstSeen = c.firstSeen
         \/ n = Forgotten
         \/ n = c /\ ~Recovers(k) /\ (c.active \/ clock - c.lastSeen <= Retention)
<1>0. conditions[k] \in Condition /\ clock \in Nat /\ Retention \in Nat
  BY ConstantsAssumption DEF TypeOK
<1>1. CASE Starts(k)
  <2>1. ReconciledCondition(k) = [known |-> TRUE, firstSeen |-> Activation(k), lastSeen |-> clock, active |-> TRUE]
    BY <1>1 DEF ReconciledCondition
  <2>2. ~Collides(k, Activation(k))
    BY <1>1, ActivationType DEF IsActivation
  <2>3. ~conditions[k].active
    BY <1>1 DEF Starts
  <2>4. /\ ReconciledCondition(k).known = TRUE /\ ReconciledCondition(k).active = TRUE
        /\ ReconciledCondition(k).firstSeen = Activation(k)
    BY <2>1
  <2>5. ~Collides(k, ReconciledCondition(k).firstSeen)
    BY <2>2, <2>4
  <2> QED
    BY <2>3, <2>4, <2>5
<1>2. CASE ~Starts(k) /\ Observed(k)
  <2>1. ReconciledCondition(k) = [conditions[k] EXCEPT !.lastSeen = clock]
    BY <1>2 DEF ReconciledCondition
  <2>2. conditions[k].active
    BY <1>2 DEF Starts
  <2> QED
    BY <1>0, <2>1, <2>2 DEF Condition
<1>3. CASE ~Observed(k) /\ Recovers(k)
  <2>1. ReconciledCondition(k) = [conditions[k] EXCEPT !.active = FALSE, !.lastSeen = clock]
    BY <1>3 DEF ReconciledCondition, Starts
  <2> QED
    BY <1>0, <1>3, <2>1 DEF Condition
<1>4. CASE ~Observed(k) /\ ~Recovers(k)
  <2>1. CASE ~conditions[k].active /\ clock - conditions[k].lastSeen > Retention
    BY <1>4, <2>1 DEF ReconciledCondition, Starts
  <2>2. CASE ~(~conditions[k].active /\ clock - conditions[k].lastSeen > Retention)
    <3>1. ReconciledCondition(k) = conditions[k]
      BY <1>4, <2>2 DEF ReconciledCondition, Starts
    <3>2. conditions[k].active \/ clock - conditions[k].lastSeen <= Retention
      BY <1>0, <2>2 DEF Condition
    <3> QED
      BY <1>4, <3>1, <3>2
  <2> QED
    BY <2>1, <2>2
<1>5. Recovers(k) => ~Observed(k)
  BY DEF Recovers, Absent, Observed
<1> QED
  BY <1>1, <1>2, <1>3, <1>4

\* An activation that has a record is not begun anew: where it is the current
\* one it was so before, and not active unless it was.
LEMMA StaysCurrent ==
  ASSUME TypeOK, ActivationsFit, NEW k \in Keys, NEW t, Collides(k, t),
         ReconciledCondition(k).known, ReconciledCondition(k).firstSeen = t
  PROVE  LET c == conditions[k]
             n == ReconciledCondition(k) IN
         /\ c.known /\ c.firstSeen = t /\ (n.active => c.active)
         /\ ~n.active => clock - n.lastSeen <= Retention
         /\ ~n.active /\ ~c.active => n.lastSeen = c.lastSeen
<1>0. conditions[k] \in Condition /\ clock \in Nat /\ Retention \in Nat
  BY ConstantsAssumption DEF TypeOK
<1>1. Forgotten.known = FALSE
  BY DEF Forgotten
<1>2. clock - clock <= Retention
  BY <1>0
<1> QED
  BY <1>0, <1>1, <1>2, ReconciledCases DEF Recovers

\* When an item of the reconciled queue began to age.
LEMMA ReconciledAge ==
  ASSUME TypeOK, NEW c \in [Keys -> Condition], NEW id \in DOMAIN deliveries \cup Wanted(c)
  PROVE  LET old == IF id \in DOMAIN deliveries THEN deliveries[id].inactiveAt ELSE 0 IN
         /\ Aged(c, Enqueued(c), id).inactiveAt =
               IF Pinned(c, id) \/ old # 0 THEN old
               ELSE IF CurrentActivation(c, id) THEN c[id.key].lastSeen ELSE clock
         /\ id \in DOMAIN ReconciledDeliveries(c) =>
               ReconciledDeliveries(c)[id].inactiveAt = Aged(c, Enqueued(c), id).inactiveAt
<1> DEFINE q == Enqueued(c)
           K == {x \in DOMAIN q : ~Obsolete(c, q, x) /\ ~Expired(c, q, x)}
           old == IF id \in DOMAIN deliveries THEN deliveries[id].inactiveAt ELSE 0
<1>1. ReconciledDeliveries(c) = [x \in K |-> Aged(c, q, x)]
  BY DEF ReconciledDeliveries
<1>2. q[id] = IF id \in DOMAIN deliveries THEN deliveries[id] ELSE NewDelivery
  BY DEF Enqueued
<1>3. NewDelivery \in Delivery /\ NewDelivery.inactiveAt = 0
  BY DEF NewDelivery, Delivery, TypeOK
<1>4. q[id] \in Delivery /\ q[id].inactiveAt = old
  BY <1>2, <1>3 DEF TypeOK, IsQueue
<1>5. id \in DOMAIN ReconciledDeliveries(c) => ReconciledDeliveries(c)[id] = Aged(c, q, id)
  BY <1>1
<1> HIDE DEF q, old
<1>6. Aged(c, q, id).inactiveAt =
        IF Pinned(c, id) \/ old # 0 THEN old
        ELSE IF CurrentActivation(c, id) THEN c[id.key].lastSeen ELSE clock
  <2>1. CASE Pinned(c, id) \/ old # 0
    BY <1>4, <2>1 DEF Aged
  <2>2. CASE ~Pinned(c, id) /\ old = 0
    BY <1>4, <2>2 DEF Aged, Delivery
  <2> QED
    BY <2>1, <2>2
<1> QED
  BY <1>5, <1>6 DEF q, old

\* A record of the current activation that is delivered, or that is its
\* recovery, is not dropped before the condition is.
LEMMA CurrentIsKept ==
  ASSUME TypeOK, ActivationsFit, Orderly(conditions, deliveries), NEW id \in DOMAIN deliveries,
         id.kind = "recovery" \/ ~Undelivered(deliveries, id),
         CurrentActivation([k \in Keys |-> ReconciledCondition(k)], id)
  PROVE  id \in DOMAIN ReconciledDeliveries([k \in Keys |-> ReconciledCondition(k)])
<1> DEFINE c == [k \in Keys |-> ReconciledCondition(k)]
           q == Enqueued(c)
           K == {x \in DOMAIN q : ~Obsolete(c, q, x) /\ ~Expired(c, q, x)}
           n == ReconciledCondition(id.key)
           o == conditions[id.key]
<1>0. id \in ID /\ id.key \in Keys /\ id.at \in Nat /\ deliveries[id] \in Delivery /\ c \in [Keys -> Condition]
  BY ReconciledConditionType DEF TypeOK, IsQueue, ID
<1>1. n.known /\ n.firstSeen = id.at /\ c[id.key] = n
  BY <1>0 DEF CurrentActivation
<1>2. Collides(id.key, id.at)
  BY DEF Collides
<1> HIDE DEF n, o
<1>3. /\ o.known /\ o.firstSeen = id.at /\ (n.active => o.active)
      /\ ~n.active => clock - n.lastSeen <= Retention
      /\ ~n.active /\ ~o.active => n.lastSeen = o.lastSeen
  BY <1>0, <1>1, <1>2, StaysCurrent DEF n, o
<1>4. deliveries[id].inactiveAt = IF o.active THEN 0 ELSE o.lastSeen
  BY <1>3 DEF Orderly, CurrentActivation, o
<1> HIDE DEF c
<1>5. q[id] = deliveries[id] /\ id \in DOMAIN q
  BY DEF Enqueued
<1>6. ~Obsolete(c, q, id)
  BY <1>5 DEF Obsolete, Undelivered
<1>7. ~Expired(c, q, id)
  <2>1. CASE Pinned(c, id)
    BY <2>1 DEF Expired
  <2>2. CASE ~Pinned(c, id)
    <3>1. ~n.active /\ CurrentActivation(c, id)
      BY <1>1, <2>2 DEF Pinned, c
    <3>2. Aged(c, q, id).inactiveAt = n.lastSeen
      <4>1. Aged(c, q, id).inactiveAt =
              IF Pinned(c, id) \/ deliveries[id].inactiveAt # 0 THEN deliveries[id].inactiveAt
              ELSE IF CurrentActivation(c, id) THEN c[id.key].lastSeen ELSE clock
        BY <1>0, ReconciledAge
      <4> HIDE DEF q
      <4> QED
        BY <1>1, <1>3, <1>4, <2>2, <3>1, <4>1
    <3>3. clock - n.lastSeen <= Retention /\ clock \in Int /\ n.lastSeen \in Int /\ Retention \in Int
      BY <1>0, <1>1, <1>3, <3>1, ConstantsAssumption DEF TypeOK, Condition
    <3>4. ~(clock - Aged(c, q, id).inactiveAt > Retention)
      BY <3>2, <3>3
    <3> QED
      BY <3>4 DEF Expired
  <2> QED
    BY <2>1, <2>2
<1>8. ReconciledDeliveries(c) = [x \in K |-> Aged(c, q, x)]
  BY DEF ReconciledDeliveries
<1>9. id \in K
  BY <1>5, <1>6, <1>7
<1>10. id \in DOMAIN ReconciledDeliveries(c)
  BY <1>8, <1>9
<1> QED
  BY <1>10 DEF c

\* What is wanted belongs to the current activation, a recovery to a resolved one.
LEMMA WantedIsCurrent ==
  ASSUME TypeOK, ActivationsFit, Orderly(conditions, deliveries),
         NEW id \in Wanted([k \in Keys |-> ReconciledCondition(k)])
  PROVE  LET c == [k \in Keys |-> ReconciledCondition(k)] IN
         CurrentActivation(c, id) /\ (id.kind = "recovery" => ~Pinned(c, id))
<1> DEFINE c == [k \in Keys |-> ReconciledCondition(k)]
<1>1. PICK k \in Keys, kind \in Kinds :
        /\ id = deliveryID(k, kind, c[k].firstSeen)
        /\ \/ Observed(k) /\ kind # "recovery"
           \/ Recovers(k) /\ kind = "recovery"
  BY DEF Wanted, Kinds, MayAlarm
<1>2. id.key = k /\ id.at = c[k].firstSeen /\ id.kind = kind
  BY <1>1 DEF deliveryID
<1>3. c[k] = ReconciledCondition(k) /\ conditions[k] \in Condition
  BY DEF TypeOK
<1>4. CASE Observed(k) /\ kind # "recovery"
  <2>1. CASE Starts(k)
    <3>1. ReconciledCondition(k).known = TRUE
      BY <2>1 DEF ReconciledCondition
    <3> QED
      BY <1>2, <1>3, <1>4, <3>1 DEF CurrentActivation
  <2>2. CASE ~Starts(k)
    <3>1. ReconciledCondition(k) = [conditions[k] EXCEPT !.lastSeen = clock] /\ conditions[k].active
      BY <1>4, <2>2 DEF ReconciledCondition, Starts
    <3>2. conditions[k].known
      BY <3>1 DEF Orderly
    <3>3. ReconciledCondition(k).known
      BY <1>3, <3>1, <3>2 DEF Condition
    <3> QED
      BY <1>2, <1>3, <1>4, <3>3 DEF CurrentActivation
  <2> QED
    BY <2>1, <2>2
<1>5. CASE Recovers(k) /\ kind = "recovery"
  <2>1. ~Observed(k) /\ conditions[k].active
    BY <1>5 DEF Recovers, Absent, Observed
  <2>2. ReconciledCondition(k) = [conditions[k] EXCEPT !.active = FALSE, !.lastSeen = clock]
    BY <1>5, <2>1 DEF ReconciledCondition, Starts
  <2>3. ReconciledCondition(k).known = conditions[k].known /\ ReconciledCondition(k).active = FALSE
    BY <1>3, <2>2 DEF Condition
  <2>4. conditions[k].known
    BY <2>1 DEF Orderly
  <2> QED
    BY <1>2, <1>3, <2>3, <2>4 DEF CurrentActivation, Pinned
<1> QED
  BY <1>1, <1>4, <1>5

\* Reconciliation is orderly.
LEMMA ReconcileOrderly ==
  ASSUME TypeOK, ActivationsFit, Orderly(conditions, deliveries)
  PROVE  LET c == [k \in Keys |-> ReconciledCondition(k)] IN Orderly(c, ReconciledDeliveries(c))
<1> DEFINE c == [k \in Keys |-> ReconciledCondition(k)]
           d == ReconciledDeliveries(c)
<1>0. c \in [Keys -> Condition] /\ DOMAIN deliveries \subseteq ID
  BY ReconciledConditionType DEF TypeOK, IsQueue
<1>1. ASSUME NEW k \in Keys, c[k].active PROVE c[k].known
  <2>1. c[k] = ReconciledCondition(k) /\ Forgotten.active = FALSE
    BY DEF Forgotten
  <2>2. conditions[k].active => conditions[k].known
    BY DEF Orderly
  <2>3. ReconciledCondition(k).active
    BY <1>1, <2>1
  <2>4. ReconciledCondition(k).known
    BY <2>1, <2>2, <2>3, ReconciledCases
  <2> QED
    BY <2>1, <2>4
<1>2. ASSUME NEW id \in DOMAIN d
      PROVE  /\ id \in ID /\ id.key \in Keys /\ id \in DOMAIN deliveries \cup Wanted(c)
             /\ c[id.key] = ReconciledCondition(id.key)
  <2>1. IsQueue(d)
    BY <1>0, ReconciledDeliveriesType
  <2>2. id \in DOMAIN deliveries \cup Wanted(c)
    BY DEF ReconciledDeliveries, Enqueued
  <2> QED
    BY <2>1, <2>2, OwnID DEF IsQueue
<1>3. ASSUME NEW id \in DOMAIN d, id \in DOMAIN deliveries, CurrentActivation(c, id)
      PROVE  LET n == c[id.key]
                 o == conditions[id.key] IN
             /\ CurrentActivation(conditions, id) /\ (n.active => o.active)
             /\ ~n.active /\ ~o.active => n.lastSeen = o.lastSeen
  <2>1. Collides(id.key, id.at)
    BY <1>3 DEF Collides
  <2>2. id.key \in Keys /\ ReconciledCondition(id.key).known /\ ReconciledCondition(id.key).firstSeen = id.at
    BY <1>2, <1>3 DEF CurrentActivation
  <2>3. /\ conditions[id.key].known /\ conditions[id.key].firstSeen = id.at
        /\ (ReconciledCondition(id.key).active => conditions[id.key].active)
        /\ ~ReconciledCondition(id.key).active /\ ~conditions[id.key].active =>
              ReconciledCondition(id.key).lastSeen = conditions[id.key].lastSeen
    BY <2>1, <2>2, StaysCurrent
  <2>4. c[id.key] = ReconciledCondition(id.key)
    BY <2>2
  <2> HIDE DEF c
  <2> QED
    BY <2>3, <2>4 DEF CurrentActivation
<1>4. ASSUME NEW id \in DOMAIN d, CurrentActivation(c, id)
      PROVE  d[id].inactiveAt = IF c[id.key].active THEN 0 ELSE c[id.key].lastSeen
  <2> DEFINE old == IF id \in DOMAIN deliveries THEN deliveries[id].inactiveAt ELSE 0
  <2>1. d[id].inactiveAt = IF Pinned(c, id) \/ old # 0 THEN old ELSE c[id.key].lastSeen
    BY <1>0, <1>2, <1>4, ReconciledAge
  <2> HIDE DEF c, d
  <2>2. Pinned(c, id) <=> c[id.key].active
    BY <1>4 DEF Pinned
  <2>3. CASE id \in DOMAIN deliveries
    <3>1. /\ CurrentActivation(conditions, id) /\ (c[id.key].active => conditions[id.key].active)
          /\ ~c[id.key].active /\ ~conditions[id.key].active => c[id.key].lastSeen = conditions[id.key].lastSeen
      BY <1>3, <1>4, <2>3
    <3>2. old = IF conditions[id.key].active THEN 0 ELSE conditions[id.key].lastSeen
      BY <2>3, <3>1 DEF Orderly
    <3> QED
      BY <2>1, <2>2, <3>1, <3>2
  <2>4. CASE id \notin DOMAIN deliveries
    BY <2>1, <2>2, <2>4
  <2> QED
    BY <2>3, <2>4
<1>5. ASSUME NEW id \in DOMAIN d, id.kind = "recovery"
      PROVE  ~Pinned(c, id)
  <2>1. CASE id \in DOMAIN deliveries
    <3>1. ~Pinned(conditions, id)
      BY <1>5, <2>1 DEF Orderly
    <3> HIDE DEF c, d
    <3> QED
      BY <1>3, <2>1, <3>1 DEF Pinned
  <2>2. CASE id \in Wanted(c)
    BY <1>5, <2>2, WantedIsCurrent
  <2> QED
    BY <1>2, <2>1, <2>2
<1> HIDE DEF c, d
<1>6. Orderly(c, d)
  BY <1>1, <1>4, <1>5 DEF Orderly
<1> QED
  BY <1>6 DEF c, d

\* Reconciliation forgets nothing that must be kept, as long as it keeps
\* anything of its activation.
LEMMA ReconcileRemembers ==
  ASSUME TypeOK, ActivationsFit, Orderly(conditions, deliveries),
         Remembers(conditions, deliveries, recorded, DOMAIN requests),
         conditions' = [k \in Keys |-> ReconciledCondition(k)],
         deliveries' = ReconciledDeliveries([k \in Keys |-> ReconciledCondition(k)]),
         NEW rec, NEW req,
         rec \subseteq recorded \cup {id \in DOMAIN deliveries' : ~Undelivered(deliveries', id)},
         req \subseteq DOMAIN requests, \A id \in rec \cup req : ~Vanished(id)
  PROVE  Remembers(conditions', deliveries', rec, req)
<1> DEFINE c == [k \in Keys |-> ReconciledCondition(k)]
           d == ReconciledDeliveries(c)
<1>0. /\ c \in [Keys -> Condition] /\ DOMAIN deliveries \subseteq ID /\ DOMAIN d \subseteq ID
      /\ recorded \subseteq ID /\ DOMAIN requests \subseteq ID
  <2>1. c \in [Keys -> Condition]
    BY ReconciledConditionType
  <2>2. IsQueue(d)
    BY <2>1, ReconciledDeliveriesType
  <2> QED
    BY <2>1, <2>2 DEF TypeOK, IsQueue
<1>1. conditions' = c /\ deliveries' = d
  OBVIOUS
<1>2. ASSUME NEW id \in Kept(recorded, DOMAIN requests), CurrentActivation(c, id)
      PROVE  /\ CurrentActivation(conditions, id) /\ id \in DOMAIN deliveries /\ id \in DOMAIN d
             /\ Pinned(c, id) => Pinned(conditions, id)
  <2>0. id \in ID /\ id.key \in Keys
    BY <1>0, OwnID DEF Kept
  <2>1. Collides(id.key, id.at)
    <3>1. PICK kind \in Kinds : deliveryID(id.key, kind, id.at) \in DOMAIN deliveries
      BY DEF Remembers, HasRecord
    <3>2. deliveryID(id.key, kind, id.at).key = id.key /\ deliveryID(id.key, kind, id.at).at = id.at
      BY DEF deliveryID
    <3> QED
      BY <3>1, <3>2 DEF Collides
  <2>2. c[id.key] = ReconciledCondition(id.key)
    BY <2>0
  <2>3. ReconciledCondition(id.key).known /\ ReconciledCondition(id.key).firstSeen = id.at
    BY <1>2, <2>2 DEF CurrentActivation
  <2>4. /\ conditions[id.key].known /\ conditions[id.key].firstSeen = id.at
        /\ ReconciledCondition(id.key).active => conditions[id.key].active
    BY <2>0, <2>1, <2>3, StaysCurrent
  <2>5. CurrentActivation(conditions, id)
    BY <2>4 DEF CurrentActivation
  <2>6. id \in DOMAIN deliveries
    BY <2>5 DEF Remembers
  <2>7. id.kind = "recovery" \/ ~Undelivered(deliveries, id)
    BY <2>6 DEF Remembers, Kept
  <2>8. id \in DOMAIN d
    BY <1>2, <2>6, <2>7, CurrentIsKept
  <2>9. Pinned(c, id) => Pinned(conditions, id)
    BY <2>2, <2>4, <2>5 DEF Pinned
  <2> QED
    BY <2>5, <2>6, <2>8, <2>9
<1>3. ASSUME NEW id \in DOMAIN d, id \notin DOMAIN deliveries
      PROVE  CurrentActivation(c, id)
  <2>1. id \in Wanted(c)
    BY <1>3 DEF ReconciledDeliveries, Enqueued
  <2> QED
    BY <2>1, WantedIsCurrent
<1>4. ASSUME NEW id \in DOMAIN d, id \in DOMAIN deliveries
      PROVE  Undelivered(d, id) <=> Undelivered(deliveries, id)
  <2>1. d[id].deliveredAt = deliveries[id].deliveredAt
    BY <1>0, <1>4, ReconciledItem
  <2> QED
    BY <2>1 DEF Undelivered
<1> HIDE DEF c, d
<1>5. ASSUME NEW id \in Kept(rec, req)
      PROVE  HasRecord(d, id) /\ (CurrentActivation(c, id) => id \in DOMAIN d)
  <2>1. id \in Kept(recorded, DOMAIN requests) \cup DOMAIN d
    BY <1>1 DEF Kept
  <2>2. CurrentActivation(c, id) => id \in DOMAIN d
    BY <1>2, <2>1
  <2>3. id \in ID
    BY <1>0, <2>1 DEF Kept
  <2>4. HasRecord(d, id)
    <3>1. ~Vanished(id)
      BY DEF Kept
    <3>2. CASE id \in DOMAIN d
      BY <2>3, <3>2, OwnID DEF HasRecord
    <3>3. CASE id \notin DOMAIN d
      BY <1>1, <2>2, <3>1, <3>3 DEF Vanished, HasRecord, CurrentActivation
    <3> QED
      BY <3>2, <3>3
  <2> QED
    BY <2>2, <2>4
<1>6. ASSUME NEW id \in rec \cap DOMAIN d
      PROVE  ~Undelivered(d, id)
  <2>1. CASE id \in recorded
    <3>1. id \in Kept(recorded, DOMAIN requests)
      BY <2>1 DEF Kept
    <3>2. id \in DOMAIN deliveries
      BY <1>2, <1>3, <3>1
    <3>3. ~Undelivered(deliveries, id)
      BY <2>1, <3>2 DEF Remembers
    <3> QED
      BY <1>4, <3>2, <3>3
  <2>2. CASE id \notin recorded
    BY <1>1, <2>2
  <2> QED
    BY <2>1, <2>2
<1>7. ASSUME NEW id \in req, id.kind = "recovery"
      PROVE  ~Pinned(c, id)
  <2>1. id \in Kept(recorded, DOMAIN requests) /\ ~Pinned(conditions, id)
    BY <1>7 DEF Kept, Remembers
  <2> QED
    BY <1>2, <2>1 DEF Pinned
<1>8. Remembers(c, d, rec, req)
  BY <1>5, <1>6, <1>7 DEF Remembers
<1> QED
  BY <1>1, <1>8

\* A scan keeps memory and file in order, written or not.
LEMMA ScanReconcileMemory ==
  ASSUME TypeInv, MemoryInv, NEW out \in Outcomes, ScanReconcile(out)
  PROVE  MemoryInv'
<1> DEFINE c == [k \in Keys |-> ReconciledCondition(k)]
           d == ReconciledDeliveries(c)
<1>1. /\ TypeOK /\ ActivationsFit /\ conditions' = c /\ deliveries' = d
      /\ persist(out, c, d, refreshDeliveryError(d))
      /\ DOMAIN requests' \subseteq DOMAIN requests /\ \A id \in DOMAIN requests' : ~Vanished(id)
  BY DEF ScanReconcile, TypeInv
<1>2. /\ out = "fail" => disk' = disk /\ recorded' \subseteq recorded
      /\ out # "fail" => /\ disk'.conditions = c /\ disk'.deliveries = d
                         /\ recorded' \subseteq recorded \cup {id \in DOMAIN d : ~Undelivered(d, id)}
      /\ \A id \in recorded' : ~Vanished(id)
  BY <1>1, PersistRecords
<1>3. /\ recorded' \subseteq recorded \cup {id \in DOMAIN deliveries' : ~Undelivered(deliveries', id)}
      /\ \A id \in recorded' \cup DOMAIN requests' : ~Vanished(id)
  <2> HIDE DEF c, d
  <2> QED
    BY <1>1, <1>2
<1>4. Orderly(conditions', deliveries')
  BY <1>1, ReconcileOrderly DEF MemoryInv
<1>5. Remembers(conditions', deliveries', recorded', DOMAIN requests')
  <2> HIDE DEF MemoryInv
  <2>1. Orderly(conditions, deliveries) /\ Remembers(conditions, deliveries, recorded, DOMAIN requests)
    BY DEF MemoryInv
  <2> QED
    BY <1>1, <1>3, <2>1, ReconcileRemembers
<1> HIDE DEF c, d
<1>6. CASE out = "fail"
  <2>1. Remembers(disk.conditions, disk.deliveries, recorded', DOMAIN requests')
    BY <1>1, <1>2, <1>6, RemembersLess DEF MemoryInv
  <2> QED
    BY <1>2, <1>4, <1>5, <1>6, <2>1 DEF MemoryInv
<1>7. CASE out # "fail"
  BY <1>1, <1>2, <1>4, <1>5, <1>7 DEF MemoryInv
<1> QED
  BY <1>6, <1>7

\* So does a claim.
LEMMA ClaimMemory ==
  ASSUME TypeInv, MemoryInv, NEW id \in due, NEW out \in Outcomes, Claim(id, out)
  PROVE  MemoryInv'
<1> DEFINE claimed == [deliveries EXCEPT ![id].attempts = @ + 1]
<1>0. TypeOK /\ id \in DOMAIN deliveries /\ \A x \in DOMAIN deliveries : deliveries[x] \in Delivery
  BY DEF TypeInv, TypeOK, IsQueue
<1>1. /\ persist(out, conditions, claimed, lastError) /\ conditions' = conditions
      /\ deliveries' = (IF out = "ok" THEN claimed ELSE deliveries)
  BY DEF Claim
<1>2. DOMAIN requests' \subseteq DOMAIN requests \cup (IF out = "ok" THEN DOMAIN deliveries ELSE {})
  <2>1. CASE out = "ok"
    BY <1>0, <2>1 DEF Claim
  <2>2. CASE out # "ok"
    BY <2>2 DEF Claim
  <2> QED
    BY <2>1, <2>2
<1>3. Like(deliveries, claimed) /\ Like(claimed, deliveries) /\ Like(claimed, claimed) /\ Like(deliveries, deliveries)
  BY <1>0 DEF Like, Undelivered, Delivery
<1> HIDE DEF claimed
<1>4. Like(deliveries, deliveries') /\ Like(claimed, deliveries')
  BY <1>1, <1>3
<1> QED
  BY <1>0, <1>1, <1>2, <1>3, <1>4, WriteKeeps

\* And a result.
LEMMA FinishMemory ==
  ASSUME TypeInv, MemoryInv, NEW id \in sending, NEW answer \in Answers, NEW out \in Outcomes,
         Finish(id, answer, out)
  PROVE  MemoryInv'
<1> DEFINE item == IF answer = "accepted" THEN Sent(deliveries[id])
                   ELSE Failed(deliveries[id], answer = "refused")
           d == [deliveries EXCEPT ![id] = item]
<1>0. /\ TypeOK /\ id \in DOMAIN deliveries /\ deliveries[id] \in Delivery /\ clock \in Nat \ {0}
      /\ Undelivered(deliveries, id)
  BY DEF Finish, TypeInv, TypeOK, IsQueue
<1>1. /\ deliveries' = d /\ conditions' = conditions /\ requests' = requests
      /\ persist(out, conditions, d, refreshDeliveryError(d))
  BY DEF Finish
<1>2. item.inactiveAt = deliveries[id].inactiveAt
  BY <1>0 DEF Failed, Sent, Delivery
<1>3. /\ DOMAIN d = DOMAIN deliveries /\ d[id] = item
      /\ \A x \in DOMAIN deliveries : x # id => d[x] = deliveries[x]
  BY <1>0
<1> HIDE DEF item, d
<1>4. Like(deliveries, d) /\ Like(d, d)
  BY <1>0, <1>2, <1>3 DEF Like, Undelivered
<1> QED
  BY <1>0, <1>1, <1>4, WriteKeeps

\* And new settings.
LEMMA UpdateConfigMemory ==
  ASSUME TypeInv, MemoryInv, NEW new \in Configs, NEW out \in Outcomes, UpdateConfig(new, out)
  PROVE  MemoryInv'
<1>0. TypeOK /\ \A x \in DOMAIN deliveries : deliveries[x] \in Delivery
  BY DEF TypeInv, TypeOK, IsQueue
<1>1. PICK R : LET d == [id \in DOMAIN deliveries |->
                           IF id \in R THEN Requeued(deliveries[id]) ELSE deliveries[id]]
               IN  /\ persist(out, conditions, d, refreshDeliveryError(d)) /\ conditions' = conditions
                   /\ deliveries' = (IF out = "ok" THEN d ELSE deliveries)
                   /\ DOMAIN requests' = DOMAIN requests
  BY DEF UpdateConfig
<1> DEFINE d == [id \in DOMAIN deliveries |->
                   IF id \in R THEN Requeued(deliveries[id]) ELSE deliveries[id]]
<1>2. /\ persist(out, conditions, d, refreshDeliveryError(d)) /\ conditions' = conditions
      /\ deliveries' = (IF out = "ok" THEN d ELSE deliveries)
      /\ DOMAIN requests' = DOMAIN requests
  BY <1>1
<1>3. /\ DOMAIN d = DOMAIN deliveries
      /\ \A x \in DOMAIN d : d[x].inactiveAt = deliveries[x].inactiveAt /\ d[x].deliveredAt = deliveries[x].deliveredAt
  BY <1>0 DEF Requeued, Delivery
<1> HIDE DEF d
<1>4. Like(deliveries, d) /\ Like(d, deliveries) /\ Like(d, d) /\ Like(deliveries, deliveries)
  BY <1>3 DEF Like, Undelivered
<1>5. Like(deliveries, deliveries') /\ Like(d, deliveries')
  BY <1>2, <1>4
<1> QED
  BY <1>0, <1>2, <1>4, <1>5, WriteKeeps

\* Every step keeps memory and file in order.
LEMMA MemoryStep == TypeInv /\ MemoryInv /\ [Next]_vars => MemoryInv'
<1> SUFFICES ASSUME TypeInv, MemoryInv, [Next]_vars
             PROVE  MemoryInv'
  OBVIOUS
<1>1. CASE Scan
  <2>1. CASE ScanDisabled \/ ScanSilenceUnavailable
    BY <2>1 DEF ScanDisabled, ScanSilenceUnavailable, vars, memory, history, MemoryInv
  <2> QED
    BY <1>1, <2>1, ScanReconcileMemory DEF Scan
<1>2. CASE TakeNext
  <2>1. PICK id \in due : \/ ClaimSilenceUnavailable(id)
                         \/ ClaimSkip(id)
                         \/ \E out \in Outcomes : Claim(id, out)
    BY <1>2 DEF TakeNext
  <2>2. CASE ClaimSilenceUnavailable(id) \/ ClaimSkip(id)
    BY <2>2 DEF ClaimSilenceUnavailable, ClaimSkip, memory, history, MemoryInv
  <2> QED
    BY <2>1, <2>2, ClaimMemory
<1>3. CASE Answer
  BY <1>3, FinishMemory DEF Answer
<1>4. CASE \E new \in Configs, out \in Outcomes : UpdateConfig(new, out)
  BY <1>4, UpdateConfigMemory
<1>5. CASE Restart \/ Crash
  BY <1>5 DEF Restart, Crash, Load, history, MemoryInv
<1>6. CASE ScanEnd \/ Cancel \/ Collect \/ Silence \/ Tick \/ UNCHANGED vars
  BY <1>6 DEF ScanEnd, Cancel, Collect, Silence, Tick, vars, memory, history, MemoryInv
<1> QED
  BY <1>1, <1>2, <1>3, <1>4, <1>5, <1>6 DEF Next

\* What is being sent stays open, and its condition active, until it ends.
LEMMA SendsStep == TypeInv /\ BoundInv /\ Sends /\ [Next]_vars => Sends'
<1> SUFFICES ASSUME TypeInv, BoundInv, Sends, [Next]_vars
             PROVE  Sends'
  OBVIOUS
<1>1. CASE Scan
  <2>1. CASE ScanDisabled \/ ScanSilenceUnavailable
    BY <2>1 DEF ScanDisabled, ScanSilenceUnavailable, vars, memory, Sends, Pinned, CurrentActivation
  <2>2. ASSUME NEW out \in Outcomes, ScanReconcile(out) PROVE Sends'
    <3>1. sending' = {}
      BY <2>2 DEF ScanReconcile, TypeInv, ScanDiscipline
    <3> QED
      BY <3>1 DEF Sends
  <2> QED
    BY <1>1, <2>1, <2>2 DEF Scan
<1>2. CASE TakeNext
  <2>1. PICK id \in due : \/ ClaimSilenceUnavailable(id)
                         \/ ClaimSkip(id)
                         \/ \E out \in Outcomes : Claim(id, out)
    BY <1>2 DEF TakeNext
  <2>2. CASE ClaimSilenceUnavailable(id) \/ ClaimSkip(id)
    BY <2>2 DEF ClaimSilenceUnavailable, ClaimSkip, memory, Sends, Pinned, CurrentActivation
  <2>3. ASSUME NEW out \in Outcomes, Claim(id, out) PROVE Sends'
    <3> DEFINE claimed == [deliveries EXCEPT ![id].attempts = @ + 1]
    <3>1. /\ deliveries' = (IF out = "ok" THEN claimed ELSE deliveries) /\ conditions' = conditions
          /\ sending' \subseteq sending \cup {id} /\ deliveryAllowed(conditions, id)
      BY <2>3 DEF Claim
    <3>2. \A x \in DOMAIN deliveries : deliveries[x] \in Delivery
      BY DEF TypeInv, TypeOK, IsQueue
    <3>3. \A x \in DOMAIN deliveries : claimed[x].deliveredAt = deliveries[x].deliveredAt
      BY <3>2 DEF Delivery
    <3>4. sending \cup {id} \subseteq DOMAIN deliveries
      BY DEF TypeInv, TypeOK
    <3> HIDE DEF claimed
    <3>5. Undelivered(deliveries, id) /\ (id.kind \in Alarms => Pinned(conditions, id))
      BY <3>1 DEF BoundInv, Waiting, deliveryAllowed, Alarms, Pinned
    <3>6. \A x \in sending' : Undelivered(deliveries', x) /\ (x.kind \in Alarms => Pinned(conditions, x))
      BY <3>1, <3>3, <3>4, <3>5 DEF Sends, Undelivered
    <3> QED
      BY <3>1, <3>6 DEF Sends, Pinned, CurrentActivation
  <2> QED
    BY <2>1, <2>2, <2>3
<1>3. CASE Answer
  <2>1. PICK id \in sending, answer \in Answers, out \in Outcomes : Finish(id, answer, out)
    BY <1>3 DEF Answer
  <2>2. /\ sending' = sending \ {id} /\ conditions' = conditions
        /\ \A x \in DOMAIN deliveries : x # id => deliveries'[x] = deliveries[x]
    BY <2>1 DEF Finish
  <2>3. sending \subseteq DOMAIN deliveries
    BY DEF TypeInv, TypeOK
  <2> QED
    BY <2>2, <2>3 DEF Sends, Undelivered, Pinned, CurrentActivation
<1>4. CASE \E new \in Configs, out \in Outcomes : UpdateConfig(new, out)
  BY <1>4 DEF UpdateConfig, Sends
<1>5. CASE Restart \/ Crash
  BY <1>5 DEF Restart, Crash, Load, Sends
<1>6. CASE ScanEnd \/ Cancel \/ Collect \/ Silence \/ Tick \/ UNCHANGED vars
  BY <1>6 DEF ScanEnd, Cancel, Collect, Silence, Tick, vars, memory, Sends, Undelivered, Pinned, CurrentActivation
<1> QED
  BY <1>1, <1>2, <1>3, <1>4, <1>5, <1>6 DEF Next

\* The engine starts with nothing to remember.
LEMMA MemoryInit == Init => MemoryInv /\ Sends
<1> SUFFICES ASSUME Init PROVE MemoryInv /\ Sends
  OBVIOUS
<1>1. /\ DOMAIN deliveries = {} /\ DOMAIN requests = {} /\ recorded = {} /\ sending = {}
      /\ \A k \in Keys : conditions[k].active = FALSE
      /\ disk.conditions = conditions /\ disk.deliveries = deliveries
  BY DEF Init, NoDeliveries, Forgotten
<1>2. Orderly(conditions, deliveries)
  BY <1>1 DEF Orderly
<1>3. Remembers(conditions, deliveries, recorded, DOMAIN requests)
  BY <1>1 DEF Remembers, Kept
<1> QED
  BY <1>1, <1>2, <1>3 DEF MemoryInv, Sends

\* Across write faults, crashes, restarts, recurrences and expiry: no alarm is
\* sent after the recovery of its activation, nothing is sent again whose
\* acceptance is on disk, and no ID is tried more often than the settings and
\* the lost processes explain.
THEOREM NothingStrays == Spec => []NoStrayDelivery
<1>1. TypeInv /\ BoundInv /\ MemoryInv /\ Sends => NoStrayDelivery
  <2> SUFFICES ASSUME TypeInv, BoundInv, MemoryInv, Sends PROVE NoStrayDelivery
    OBVIOUS
  <2>1. RetryBounded
    BY BoundGives
  <2>2. NoResend
    <3> SUFFICES ASSUME NEW id \in sending, id \in recorded PROVE FALSE
      BY DEF NoResend
    <3>1. id \in DOMAIN deliveries
      BY DEF TypeInv, TypeOK
    <3> QED
      BY <3>1 DEF Sends, MemoryInv, Remembers
  <2>3. NoAlarmAfterRecovery
    <3> SUFFICES ASSUME NEW id \in sending, id.kind \in Alarms,
                        deliveryID(id.key, "recovery", id.at) \in DOMAIN requests
                 PROVE  FALSE
      BY DEF NoAlarmAfterRecovery
    <3> DEFINE rid == deliveryID(id.key, "recovery", id.at)
    <3>1. rid.kind = "recovery" /\ rid.key = id.key /\ rid.at = id.at
      BY DEF deliveryID
    <3> HIDE DEF rid
    <3>2. ~Pinned(conditions, rid)
      BY <3>1 DEF MemoryInv, Remembers, rid
    <3>3. Pinned(conditions, id)
      BY DEF Sends
    <3> QED
      BY <3>1, <3>2, <3>3 DEF Pinned, CurrentActivation
  <2> QED
    BY <2>1, <2>2, <2>3 DEF NoStrayDelivery
<1> QED
  BY <1>1, BoundInit, BoundStep, MemoryInit, MemoryStep, SendsStep, TypeInvAlways, PTL DEF Spec
=============================================================================
