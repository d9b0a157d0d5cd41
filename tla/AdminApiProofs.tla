--------------------------- MODULE AdminApiProofs ---------------------------
(***************************************************************************)
(* Proofs about AdminApi, for any requests, devices, faults and restarts:  *)
(* the audit trail brackets every destructive change, and what the         *)
(* requests were told is what is in force.                                 *)
(***************************************************************************)
EXTENDS AdminApi, TLAPS

-----------------------------------------------------------------------------
(* The inductive invariants.                                               *)

\* The records that are in memory and in the file, which no failure removes.
Kept == trail \cap saved

\* The steps of each kind of request.
NotifySteps == {"save", "update", "restore", "restoring", "checkpoint", "checkpointing", "runtime"}
AuditSteps == {"replace", "failed", "live", "ui", "commit", "rollback", "uiback", "undone"}

AllSteps == NotifySteps \union AuditSteps \union {"new", "snapshot", "prepare", "apply", "done"}
Answers == {"none", "ok", "error", "conflict", "refused", "rolledback", "broken"}

DeviceOps == {"add", "put", "del"}

\* A request of kind op can be at step p.
Right(op, p) ==
    /\ p \in NotifySteps => op = "notify"
    /\ p \in AuditSteps \union {"snapshot", "prepare"} => op \in {"del", "import"}
    /\ p \in {"snapshot", "live", "ui", "uiback"} => op = "import"
    /\ p = "apply" => op \in {"add", "put", "del", "thr"}

\* Where a request is, and the mutex it then holds.
Stages(i) ==
    /\ Right(Op(i), pc[i])
    /\ Op(i) \in DeviceOps /\ pc[i] \notin {"new", "done"} => deviceMu = i
    /\ Op(i) = "notify" /\ pc[i] \notin {"new", "done"} => notifyMu = i
    /\ pc[i] # "done" => reply[i] = "none"

\* Past its preparation an audited request has its first record, past its commit both.
Bracketed(i) ==
    Audited(i) =>
        /\ i \in wrote \/ pc[i] \in AuditSteps \union {"apply"} => Record(i, "prepared") \in Kept
        /\ reply[i] = "ok" \/ pc[i] = "apply" => Record(i, "committed") \in Kept

AuditInv ==
    /\ req \in Plans /\ wrote \subseteq Ids
    /\ pc \in [Ids -> AllSteps] /\ reply \in [Ids -> Answers]
    /\ \A i \in Ids : Stages(i) /\ Bracketed(i)

\* The documents are documents, and those that were in the file are sealed.
IsSealed(d) == \A k \in Keys : Seal[d.dev[k]] = d.dev[k]

WasType == [th : Levels, hook : Hooks, ui : Ids \union {0, -1}, doc : Doc]

Docs ==
    /\ file \in Doc /\ IsSealed(file)
    /\ live \in Doc
    /\ before \in [Ids -> Doc] /\ \A i \in Ids : IsSealed(before[i])
    /\ was \in [Ids -> WasType] /\ ui \in Ids \union {0, -1}
    /\ undo \in [Ids -> SUBSET {"config", "ui"}]
    /\ owner \in [Items -> Ids \union {0}]
    /\ touched \in [Ids -> SUBSET Items]
    /\ restart \subseteq Keys /\ taken \subseteq Keys

\* The notification settings: only the request that holds notifyMu changes them.
InForce(i) ==
    LET old == before[i].hook
    IN  /\ pc[i] = "save" => file.hook = live.hook /\ was[i].hook = live.hook /\ old = file.hook
        /\ pc[i] = "update" => file.hook = req[i].to
        /\ pc[i] \in {"update", "restore", "restoring"} => was[i].hook = old /\ live.hook = old
        /\ pc[i] \in {"checkpoint", "checkpointing"} => was[i].hook = old /\ file.hook = old
        /\ pc[i] = "runtime" /\ undo[i] = {} => was[i].hook = old /\ file.hook = old

HookInv ==
    ~broken => /\ (\A i \in Ids : pc[i] \notin NotifySteps) => live.hook = file.hook
               /\ \A i \in Ids : InForce(i)

\* The device k as it runs once the request that has saved it has applied it.
Target(i) == IF Op(i) = "del" THEN NoDevice ELSE req[i].to
Pending(i, k) == Op(i) \in {"add", "put", "del"} /\ pc[i] = "apply" /\ req[i].key = k
Effective(k) ==
    IF \E i \in Ids : Pending(i, k) THEN Target(deviceMu) ELSE live.dev[k]

\* The open request j has changed the device k in the file.
Changed(j, k) == before[j].dev[k] # Seal[After(j).dev[k]]

\* The file fits a running device k with value v, or an open request other than x
\* accounts for the difference; and it would after the rollback of an open request.
Fits(k, v, x) ==
    /\ \/ Seal[v] = file.dev[k]
       \/ \E j \in Ids \ x : Open(j) /\ Changed(j, k)
    /\ \A j \in Ids \ x :
          Open(j) /\ k \notin touched[j] =>
              \/ Seal[v] = before[j].dev[k]
              \/ \E h \in Ids \ (x \union {j}) : Open(h) /\ Changed(h, k)

\* A rollback has failed: it will be reported.
Doomed == broken \/ \E i \in Ids : pc[i] \in {"uiback", "undone"} /\ undo[i] # {}

DeviceInv ==
    ~Doomed => \A k \in Keys \ (restart \union taken) :
        /\ Fits(k, Effective(k), {})
        /\ \A i \in Ids : Op(i) = "del" /\ Open(i) /\ req[i].key = k => Fits(k, NoDevice, {i})

\* A deletion that is under way has read a device to delete.
DelInv ==
    \A i \in Ids :
        Op(i) = "del" /\ pc[i] \notin {"new", "done"} => before[i].dev[req[i].key] # NoDevice

\* The write of a request that has answered ok, or still may, stands.
Stands(i) == pc[i] \in {"apply", "live", "ui", "commit", "update"} \/ reply[i] = "ok"

Wanted(i, x) ==
    CASE Op(i) = "del"            -> NoDevice
      [] Op(i) = "import"         -> Item(Sealed(req[i].to), x)
      [] Op(i) \in {"add", "put"} -> Seal[req[i].to]
      [] OTHER                    -> req[i].to

\* The steps of a request before it has written the file, and those in which its
\* notification settings may be in the file.
Unwritten == {"new", "snapshot", "prepare", "replace", "save"}
HookSteps == {"update", "restore", "restoring"}

OwnerInv ==
    /\ \A i \in Ids, x \in Items : owner[x] = i => pc[i] \notin Unwritten
    /\ \A i \in Ids, x \in Items : owner[x] = i /\ Stands(i) => Item(file, x) = Wanted(i, x)
    /\ \A j \in Ids, x \in Items :
          Open(j) /\ x \notin touched[j] =>
              owner[x] = j \/ Item(before[j], x) = Item(Sealed(After(j)), x)
    /\ \A i \in Ids : pc[i] \in HookSteps =>
          owner["hook"] = i \/ before[i].hook = file.hook

AnswersInv == AuditInv /\ Docs /\ HookInv /\ DelInv /\ DeviceInv /\ OwnerInv

-----------------------------------------------------------------------------
(* The audit trail.                                                        *)

\* What RecordAudit leaves: a record that is in memory and in the file stays in both.
LEMMA RecordFacts ==
    ASSUME NEW i, NEW ph
    PROVE  /\ Quiet => Kept' = Kept
           /\ Recorded(i, ph) => Kept \subseteq Kept' /\ Record(i, ph) \in Kept'
           /\ NotRecorded(i, ph) => Kept \subseteq Kept'
BY DEF Quiet, Recorded, NotRecorded, Kept

\* A step of request i in the control state: its own place, its answer and the mutexes.
Controls(i) ==
    /\ req' = req
    /\ \E p \in AllSteps, a \in Answers :
          /\ pc' = [pc EXCEPT ![i] = p]
          /\ reply' = IF p = "done" THEN [reply EXCEPT ![i] = a] ELSE reply
          /\ Right(Op(i), p)
          /\ p # "done" /\ Op(i) \in DeviceOps => deviceMu' = i
          /\ p # "done" /\ Op(i) = "notify" => notifyMu' = i
    /\ \A j \in Ids \ {i} : (deviceMu = j => deviceMu' = j) /\ (notifyMu = j => notifyMu' = j)

\* The request goes on.
LEMMA GotoControls ==
    ASSUME NEW i \in Ids, NEW p \in AllSteps \ {"done"}, Goto(i, p), req' = req, Right(Op(i), p),
           Op(i) \in DeviceOps => deviceMu' = i, Op(i) = "notify" => notifyMu' = i,
           \A j \in Ids \ {i} : (deviceMu = j => deviceMu' = j) /\ (notifyMu = j => notifyMu' = j)
    PROVE  Controls(i)
<1>1. "none" \in Answers
    BY DEF Answers
<1> QED BY <1>1 DEF Goto, Controls

\* The request answers.
LEMMA AnswerControls ==
    ASSUME NEW i \in Ids, NEW a \in Answers, Answer(i, a), req' = req
    PROVE  Controls(i)
<1>1. "done" \in AllSteps /\ Right(Op(i), "done")
    BY DEF AllSteps, NotifySteps, AuditSteps, Right
<1>2. \A j \in Ids \ {i} : (deviceMu = j => deviceMu' = j) /\ (notifyMu = j => notifyMu' = j)
    BY DEF Answer
<1>3. pc' = [pc EXCEPT ![i] = "done"] /\ reply' = [reply EXCEPT ![i] = a]
    BY DEF Answer
<1> QED BY <1>1, <1>2, <1>3 DEF Controls

\* A step that keeps the mutexes, of a request that has what it needs.
LEMMA GotoKeeps ==
    ASSUME AuditInv, NEW i \in Ids, NEW p \in AllSteps \ {"done"}, Goto(i, p), KeepLocks, req' = req,
           Right(Op(i), p), pc[i] \notin {"new", "done"} \/ Op(i) \notin DeviceOps \union {"notify"}
    PROVE  Controls(i)
<1>1. /\ Op(i) \in DeviceOps => deviceMu' = i
      /\ Op(i) = "notify" => notifyMu' = i
      /\ \A j \in Ids \ {i} : (deviceMu = j => deviceMu' = j) /\ (notifyMu = j => notifyMu' = j)
    BY DEF AuditInv, Stages, KeepLocks
<1> QED BY <1>1, GotoControls

\* A step that takes the mutex of the devices.
LEMMA GotoTakes ==
    ASSUME AuditInv, NEW i \in Ids, NEW p \in AllSteps \ {"done"}, Goto(i, p), req' = req,
           Right(Op(i), p),
           \/ deviceMu = 0 /\ deviceMu' = i /\ notifyMu' = notifyMu /\ Op(i) # "notify"
           \/ notifyMu = 0 /\ notifyMu' = i /\ deviceMu' = deviceMu /\ Op(i) \notin DeviceOps
    PROVE  Controls(i)
<1>1. 0 \notin Ids
    BY PlansAssumption DEF AuditInv, Ids
<1>2. \A j \in Ids \ {i} : (deviceMu = j => deviceMu' = j) /\ (notifyMu = j => notifyMu' = j)
    BY <1>1
<1> QED BY <1>2, GotoControls

\* Every step of a request moves that request alone, and by the steps of its kind.
LEMMA StepControls ==
    ASSUME AuditInv, NEW i \in Ids, Step(i) PROVE Controls(i)
<1>0. Right(Op(i), pc[i]) /\ pc[i] \in AllSteps
    BY DEF AuditInv, Stages
<1> DEFINE Ends == \E a \in Answers : Answer(i, a)
           Goes == \E p \in AllSteps \ {"done"} : Goto(i, p) /\ Right(Op(i), p) /\ KeepLocks
           Takes == \E p \in AllSteps \ {"done"} :
                        /\ Goto(i, p) /\ Right(Op(i), p)
                        /\ \/ deviceMu = 0 /\ deviceMu' = i /\ notifyMu' = notifyMu /\ Op(i) # "notify"
                           \/ notifyMu = 0 /\ notifyMu' = i /\ deviceMu' = deviceMu /\ Op(i) \notin DeviceOps
<1>1. ASSUME req' = req, Ends PROVE Controls(i)
    BY <1>1, AnswerControls
<1>2. ASSUME req' = req, Goes, pc[i] \notin {"new", "done"} \/ Op(i) \notin DeviceOps \union {"notify"}
      PROVE  Controls(i)
    BY <1>2, GotoKeeps
<1>3. ASSUME req' = req, Takes PROVE Controls(i)
    BY <1>3, GotoTakes
<1> USE DEF Answers, AllSteps, NotifySteps, AuditSteps, Right, DeviceOps
<1>4. CASE ThrSave(i)
  <2>1. req' = req /\ (pc[i] \notin {"new", "done"} \/ Op(i) \notin DeviceOps \union {"notify"})
      BY <1>4 DEF ThrSave
  <2>2. Goes \/ Ends
      BY <1>0, <1>4 DEF ThrSave
  <2> QED BY <2>1, <2>2, <1>2, <1>1
<1>5. CASE ThrApply(i)
  <2>1. req' = req
      BY <1>5 DEF ThrApply
  <2>2. Ends
      BY <1>0, <1>5 DEF ThrApply
  <2> QED BY <2>1, <2>2, <1>1
<1>6. CASE AddSave(i)
  <2>1. req' = req
      BY <1>6 DEF AddSave
  <2>2. Takes \/ Ends
      BY <1>0, <1>6 DEF AddSave
  <2> QED BY <2>1, <2>2, <1>3, <1>1
<1>7. CASE PutSave(i)
  <2>1. req' = req
      BY <1>7 DEF PutSave
  <2>2. Takes \/ Ends
      BY <1>0, <1>7 DEF PutSave
  <2> QED BY <2>1, <2>2, <1>3, <1>1
<1>8. CASE DeviceApply(i)
  <2>1. req' = req
      BY <1>8 DEF DeviceApply
  <2>2. Ends
      BY <1>0, <1>8 DEF DeviceApply
  <2> QED BY <2>1, <2>2, <1>1
<1>9. CASE DelRead(i)
  <2>1. req' = req
      BY <1>9 DEF DelRead
  <2>2. Takes \/ Ends
      BY <1>0, <1>9 DEF DelRead
  <2> QED BY <2>1, <2>2, <1>3, <1>1
<1>10. CASE ImportRead(i)
  <2>1. req' = req /\ (pc[i] \notin {"new", "done"} \/ Op(i) \notin DeviceOps \union {"notify"})
      BY <1>10 DEF ImportRead
  <2>2. Goes \/ Ends
      BY <1>0, <1>10 DEF ImportRead
  <2> QED BY <2>1, <2>2, <1>2, <1>1
<1>11. CASE ImportSnapshot(i)
  <2>1. req' = req /\ (pc[i] \notin {"new", "done"} \/ Op(i) \notin DeviceOps \union {"notify"})
      BY <1>11 DEF ImportSnapshot
  <2>2. Goes \/ Ends
      BY <1>0, <1>11 DEF ImportSnapshot
  <2> QED BY <2>1, <2>2, <1>2, <1>1
<1>12. CASE Prepare(i)
  <2>1. req' = req /\ (pc[i] \notin {"new", "done"} \/ Op(i) \notin DeviceOps \union {"notify"})
      BY <1>12 DEF Prepare
  <2>2. Goes \/ Ends
      BY <1>0, <1>12 DEF Prepare
  <2> QED BY <2>1, <2>2, <1>2, <1>1
<1>13. CASE Replace(i)
  <2>1. req' = req /\ (pc[i] \notin {"new", "done"} \/ Op(i) \notin DeviceOps \union {"notify"})
      BY <1>13 DEF Replace
  <2>2. Goes
      BY <1>0, <1>13 DEF Replace
  <2> QED BY <2>1, <2>2, <1>2
<1>14. CASE Failed(i)
  <2>1. req' = req
      BY <1>14 DEF Failed
  <2>2. Ends
      BY <1>0, <1>14 DEF Failed
  <2> QED BY <2>1, <2>2, <1>1
<1>15. CASE ImportLive(i)
  <2>1. req' = req /\ (pc[i] \notin {"new", "done"} \/ Op(i) \notin DeviceOps \union {"notify"})
      BY <1>15 DEF ImportLive
  <2>2. Goes
      BY <1>0, <1>15 DEF ImportLive
  <2> QED BY <2>1, <2>2, <1>2
<1>16. CASE ImportUI(i)
  <2>1. req' = req /\ (pc[i] \notin {"new", "done"} \/ Op(i) \notin DeviceOps \union {"notify"})
      BY <1>16 DEF ImportUI
  <2>2. Goes
      BY <1>0, <1>16 DEF ImportUI
  <2> QED BY <2>1, <2>2, <1>2
<1>17. CASE Commit(i)
  <2>1. req' = req /\ (pc[i] \notin {"new", "done"} \/ Op(i) \notin DeviceOps \union {"notify"})
      BY <1>17 DEF Commit
  <2>2. Goes \/ Ends
      BY <1>0, <1>17 DEF Commit
  <2> QED BY <2>1, <2>2, <1>2, <1>1
<1>18. CASE Rollback(i)
  <2>1. req' = req /\ (pc[i] \notin {"new", "done"} \/ Op(i) \notin DeviceOps \union {"notify"})
      BY <1>18 DEF Rollback
  <2>2. Goes
      BY <1>0, <1>18 DEF Rollback
  <2> QED BY <2>1, <2>2, <1>2
<1>19. CASE ImportUIBack(i)
  <2>1. req' = req /\ (pc[i] \notin {"new", "done"} \/ Op(i) \notin DeviceOps \union {"notify"})
      BY <1>19 DEF ImportUIBack
  <2>2. Goes
      BY <1>0, <1>19 DEF ImportUIBack
  <2> QED BY <2>1, <2>2, <1>2
<1>20. CASE Undone(i)
  <2>1. req' = req
      BY <1>20 DEF Undone
  <2>2. Ends
      BY <1>0, <1>20 DEF Undone
  <2> QED BY <2>1, <2>2, <1>1
<1>21. CASE NotifyRead(i)
  <2>1. req' = req
      BY <1>21 DEF NotifyRead
  <2>2. Takes \/ Ends
      BY <1>0, <1>21 DEF NotifyRead
  <2> QED BY <2>1, <2>2, <1>3, <1>1
<1>22. CASE NotifySave(i)
  <2>1. req' = req /\ (pc[i] \notin {"new", "done"} \/ Op(i) \notin DeviceOps \union {"notify"})
      BY <1>22 DEF NotifySave
  <2>2. Goes \/ Ends
      BY <1>0, <1>22 DEF NotifySave
  <2> QED BY <2>1, <2>2, <1>2, <1>1
<1>23. CASE NotifyUpdate(i)
  <2>1. req' = req /\ (pc[i] \notin {"new", "done"} \/ Op(i) \notin DeviceOps \union {"notify"})
      BY <1>23 DEF NotifyUpdate
  <2>2. Goes \/ Ends
      BY <1>0, <1>23 DEF NotifyUpdate
  <2> QED BY <2>1, <2>2, <1>2, <1>1
<1>24. CASE RestoreRead(i)
  <2>1. req' = req /\ (pc[i] \notin {"new", "done"} \/ Op(i) \notin DeviceOps \union {"notify"})
      BY <1>24 DEF RestoreRead
  <2>2. Goes
      BY <1>0, <1>24 DEF RestoreRead
  <2> QED BY <2>1, <2>2, <1>2
<1>25. CASE RestoreWrite(i)
  <2>1. req' = req /\ (pc[i] \notin {"new", "done"} \/ Op(i) \notin DeviceOps \union {"notify"})
      BY <1>25 DEF RestoreWrite
  <2>2. Goes
      BY <1>0, <1>25 DEF RestoreWrite
  <2> QED BY <2>1, <2>2, <1>2
<1>26. CASE NotifyUndone(i)
  <2>1. req' = req
      BY <1>26 DEF NotifyUndone
  <2>2. Ends
      BY <1>0, <1>26 DEF NotifyUndone
  <2> QED BY <2>1, <2>2, <1>1
<1> QED BY <1>4, <1>5, <1>6, <1>7, <1>8, <1>9, <1>10, <1>11, <1>12, <1>13, <1>14, <1>15, <1>16, <1>17, <1>18, <1>19, <1>20, <1>21, <1>22, <1>23, <1>24, <1>25, <1>26 DEF Step

\* What a step of request i does to the audit trail and to what must be in it.
Audits(i) ==
    /\ Kept \subseteq Kept' /\ wrote' \subseteq wrote \union {i}
    /\ Audited(i) =>
        /\ i \in wrote' \/ pc'[i] \in AuditSteps \union {"apply"} => Record(i, "prepared") \in Kept'
        /\ reply'[i] = "ok" \/ pc'[i] = "apply" => Record(i, "committed") \in Kept'

\* Goto and Answer, and the writes, as far as one request sees them.
LEMMA EndsFacts ==
    ASSUME AuditInv, NEW i \in Ids
    PROVE  /\ \A p : Goto(i, p) => pc'[i] = p /\ reply' = reply
           /\ \A a : Answer(i, a) => pc'[i] = "done" /\ reply'[i] = a
           /\ \A d : Write(i, d) => wrote' = wrote \union {i}
           /\ TakeBack(i) => wrote' = wrote
           /\ NoWrite => wrote' = wrote
BY DEF AuditInv, Goto, Answer, Write, TakeBack, NoWrite

\* No step of a destructive request goes ahead of its records.
LEMMA StepAudits ==
    ASSUME AuditInv, NEW i \in Ids, Step(i) PROVE Audits(i)
<1>0. Stages(i) /\ Bracketed(i)
    BY DEF AuditInv
<1> USE EndsFacts, RecordFacts
<1>1. CASE ThrSave(i)
    BY <1>0, <1>1 DEF ThrSave, Audits, Audited, Stages, Right, Bracketed, AuditSteps, NotifySteps
<1>2. CASE ThrApply(i)
    BY <1>0, <1>2 DEF ThrApply, Audits, Audited, Stages, Right, Bracketed, AuditSteps, NotifySteps
<1>3. CASE AddSave(i)
    BY <1>0, <1>3 DEF AddSave, Audits, Audited, Stages, Right, Bracketed, AuditSteps, NotifySteps
<1>4. CASE PutSave(i)
    BY <1>0, <1>4 DEF PutSave, Audits, Audited, Stages, Right, Bracketed, AuditSteps, NotifySteps
<1>5. CASE DeviceApply(i)
    BY <1>0, <1>5 DEF DeviceApply, Audits, Audited, Stages, Right, Bracketed, AuditSteps, NotifySteps
<1>6. CASE DelRead(i)
    BY <1>0, <1>6 DEF DelRead, Audits, Audited, Stages, Right, Bracketed, AuditSteps, NotifySteps
<1>7. CASE ImportRead(i)
    BY <1>0, <1>7 DEF ImportRead, Audits, Audited, Stages, Right, Bracketed, AuditSteps, NotifySteps
<1>8. CASE ImportSnapshot(i)
    BY <1>0, <1>8 DEF ImportSnapshot, Audits, Audited, Stages, Right, Bracketed, AuditSteps, NotifySteps
<1>9. CASE Prepare(i)
    BY <1>0, <1>9 DEF Prepare, Audits, Audited, Stages, Right, Bracketed, AuditSteps, NotifySteps
<1>10. CASE Replace(i)
    BY <1>0, <1>10 DEF Replace, Audits, Audited, Stages, Right, Bracketed, AuditSteps, NotifySteps
<1>11. CASE Failed(i)
    BY <1>0, <1>11 DEF Failed, Audits, Audited, Stages, Right, Bracketed, AuditSteps, NotifySteps
<1>12. CASE ImportLive(i)
    BY <1>0, <1>12 DEF ImportLive, Audits, Audited, Stages, Right, Bracketed, AuditSteps, NotifySteps
<1>13. CASE ImportUI(i)
    BY <1>0, <1>13 DEF ImportUI, Audits, Audited, Stages, Right, Bracketed, AuditSteps, NotifySteps
<1>14. CASE Commit(i)
    BY <1>0, <1>14 DEF Commit, Audits, Audited, Stages, Right, Bracketed, AuditSteps, NotifySteps
<1>15. CASE Rollback(i)
    BY <1>0, <1>15 DEF Rollback, Audits, Audited, Stages, Right, Bracketed, AuditSteps, NotifySteps
<1>16. CASE ImportUIBack(i)
    BY <1>0, <1>16 DEF ImportUIBack, Audits, Audited, Stages, Right, Bracketed, AuditSteps, NotifySteps
<1>17. CASE Undone(i)
    BY <1>0, <1>17 DEF Undone, Audits, Audited, Stages, Right, Bracketed, AuditSteps, NotifySteps
<1>18. CASE NotifyRead(i)
    BY <1>0, <1>18 DEF NotifyRead, Audits, Audited, Stages, Right, Bracketed, AuditSteps, NotifySteps
<1>19. CASE NotifySave(i)
    BY <1>0, <1>19 DEF NotifySave, Audits, Audited, Stages, Right, Bracketed, AuditSteps, NotifySteps
<1>20. CASE NotifyUpdate(i)
    BY <1>0, <1>20 DEF NotifyUpdate, Audits, Audited, Stages, Right, Bracketed, AuditSteps, NotifySteps
<1>21. CASE RestoreRead(i)
    BY <1>0, <1>21 DEF RestoreRead, Audits, Audited, Stages, Right, Bracketed, AuditSteps, NotifySteps
<1>22. CASE RestoreWrite(i)
    BY <1>0, <1>22 DEF RestoreWrite, Audits, Audited, Stages, Right, Bracketed, AuditSteps, NotifySteps
<1>23. CASE NotifyUndone(i)
    BY <1>0, <1>23 DEF NotifyUndone, Audits, Audited, Stages, Right, Bracketed, AuditSteps, NotifySteps
<1> QED BY <1>1, <1>2, <1>3, <1>4, <1>5, <1>6, <1>7, <1>8, <1>9, <1>10, <1>11, <1>12, <1>13, <1>14, <1>15, <1>16, <1>17, <1>18, <1>19, <1>20, <1>21, <1>22, <1>23 DEF Step

\* The initial state.
LEMMA AuditStart == Init => AuditInv
<1> SUFFICES ASSUME Init PROVE AuditInv
    OBVIOUS
<1>1. /\ req \in Plans /\ pc \in [Ids -> AllSteps] /\ reply \in [Ids -> Answers]
      /\ \A i \in Ids : pc[i] = "new" /\ reply[i] = "none"
    BY DEF Init, AllSteps, Answers
<1>2. wrote = {}
    BY DEF Init
<1> QED BY <1>1, <1>2
        DEF AuditInv, Stages, Bracketed, Right, AuditSteps, NotifySteps

\* A step of request i keeps the audit invariant.
LEMMA AuditRequestStep ==
    ASSUME AuditInv, NEW i \in Ids, Step(i) PROVE AuditInv'
<1>1. Controls(i) /\ Audits(i)
    BY StepControls, StepAudits
<1>2. PICK p \in AllSteps, a \in Answers :
          /\ pc' = [pc EXCEPT ![i] = p]
          /\ reply' = IF p = "done" THEN [reply EXCEPT ![i] = a] ELSE reply
          /\ Right(Op(i), p)
          /\ p # "done" /\ Op(i) \in DeviceOps => deviceMu' = i
          /\ p # "done" /\ Op(i) = "notify" => notifyMu' = i
    BY <1>1 DEF Controls
<1>3. /\ req' = req /\ Ids' = Ids /\ \A j \in Ids : Op(j)' = Op(j)
    BY <1>1 DEF Controls, Ids, Op
<1>4. pc \in [Ids -> AllSteps] /\ reply \in [Ids -> Answers]
    BY DEF AuditInv
<1>5. pc' \in [Ids -> AllSteps] /\ reply' \in [Ids -> Answers]
    BY <1>2, <1>4
<1>6. pc[i] # "done"
    BY DEF AuditInv, Step, ThrSave, ThrApply, AddSave, PutSave, DeviceApply, DelRead,
           ImportRead, ImportSnapshot, Prepare, Replace, Failed, ImportLive, ImportUI, Commit,
           Rollback, ImportUIBack, Undone, NotifyRead, NotifySave, NotifyUpdate, RestoreRead,
           RestoreWrite, NotifyUndone
<1>7. Stages(i)'
  <2>1. pc'[i] = p
      BY <1>2, <1>4
  <2>2. p # "done" => reply'[i] = "none"
      BY <1>2, <1>6 DEF AuditInv, Stages
  <2> QED BY <1>2, <1>3, <2>1, <2>2 DEF Stages
<1>8. Bracketed(i)'
    BY <1>1, <1>3 DEF Audits, Bracketed, Audited, Record
<1>9. ASSUME NEW j \in Ids \ {i} PROVE Stages(j)' /\ Bracketed(j)'
  <2>1. pc'[j] = pc[j] /\ reply'[j] = reply[j]
      BY <1>2, <1>4
  <2>2. Stages(j) /\ Bracketed(j)
      BY DEF AuditInv
  <2>3. /\ deviceMu = j => deviceMu' = j
        /\ notifyMu = j => notifyMu' = j
      BY <1>1 DEF Controls
  <2>4. Stages(j)'
      BY <1>3, <2>1, <2>2, <2>3 DEF Stages
  <2>5. Bracketed(j)'
      BY <1>1, <1>3, <2>1, <2>2 DEF Audits, Bracketed, Audited, Record
  <2> QED BY <2>4, <2>5
<1>10. wrote' \subseteq Ids
    BY <1>1 DEF AuditInv, Audits
<1> QED BY <1>3, <1>5, <1>7, <1>8, <1>9, <1>10 DEF AuditInv

\* Every step of the system keeps it.
LEMMA AuditNext == AuditInv /\ [Next]_vars => AuditInv'
<1> SUFFICES ASSUME AuditInv, [Next]_vars PROVE AuditInv'
    OBVIOUS
<1>1. CASE \E i \in Ids : Step(i)
    BY <1>1, AuditRequestStep
<1>2. CASE LogEvent
  <2>1. Kept \subseteq Kept' /\ UNCHANGED <<req, pc, reply, deviceMu, notifyMu, wrote>>
      BY <1>2 DEF LogEvent, Kept
  <2> QED BY <2>1 DEF AuditInv, Stages, Bracketed, Audited, Record, Ids, Op
<1>3. CASE Restart
  <2>1. Kept \subseteq Kept' /\ UNCHANGED <<req, wrote>>
      BY <1>3 DEF Restart, Kept
  <2>2. Ids' = Ids /\ \A j \in Ids : Op(j)' = Op(j)
      BY <2>1 DEF Ids, Op
  <2>3. /\ pc' = [i \in Ids |-> IF pc[i] = "new" THEN "new" ELSE "done"]
        /\ reply' = [i \in Ids |-> IF pc[i] = "done" THEN reply[i] ELSE "none"]
      BY <1>3 DEF Restart
  <2>4. pc' \in [Ids -> AllSteps] /\ reply' \in [Ids -> Answers]
      BY <2>3 DEF AuditInv, AllSteps, Answers
  <2>5. ASSUME NEW j \in Ids PROVE Stages(j)' /\ Bracketed(j)'
    <3>1. Stages(j) /\ Bracketed(j)
        BY DEF AuditInv
    <3>2. pc'[j] \in {"new", "done"} /\ reply'[j] \in {reply[j], "none"} /\ (pc'[j] = "new" => pc[j] = "new")
        BY <2>3
    <3>3. pc'[j] # "done" => reply'[j] = "none"
        BY <2>3
    <3>4. Stages(j)'
        BY <2>2, <3>2, <3>3 DEF Stages, Right, NotifySteps, AuditSteps
    <3>5. Bracketed(j)'
        BY <2>1, <2>2, <3>1, <3>2 DEF Bracketed, Audited, Record, AuditSteps
    <3> QED BY <3>4, <3>5
  <2> QED BY <2>1, <2>2, <2>4, <2>5 DEF AuditInv
<1>4. CASE UNCHANGED vars
    BY <1>4 DEF vars, AuditInv, Stages, Bracketed, Audited, Record, Ids, Op, Kept
<1> QED BY <1>1, <1>2, <1>3, <1>4 DEF Next

\* admin.go, backup.go, audit.go: no destructive change reaches the config file before its
\* "prepared" record is durable, and none is answered ok without its "committed" record.
THEOREM AuditAlwaysBrackets == Spec => []AuditBrackets
<1>1. AuditInv => AuditBrackets
    BY DEF AuditInv, Bracketed, Kept, AuditBrackets, AuditPrecedesChange, OkIsRecorded
<1> QED BY <1>1, AuditStart, AuditNext, PTL DEF Spec

-----------------------------------------------------------------------------
(* Documents.                                                              *)

\* The parts of a request, by its kind.
LEMMA RequestFacts ==
    ASSUME AuditInv, NEW i \in Ids
    PROVE  /\ Op(i) \in {"add", "put", "del", "thr", "notify", "import"}
           /\ Op(i) \in {"add", "put"} => req[i].key \in Keys /\ req[i].to \in Metas
           /\ Op(i) = "del" => req[i].key \in Keys
           /\ Op(i) = "thr" => req[i].to \in Levels
           /\ Op(i) = "notify" => req[i].to \in Hooks
           /\ Op(i) = "import" => req[i].to \in Doc
<1>1. req[i] \in Request
    BY PlansAssumption DEF AuditInv, Ids
<1>2. CASE req[i] \in [op : {"add", "put"}, key : Keys, to : Metas]
    BY <1>2 DEF Op
<1>3. CASE req[i] \in [op : {"del"}, key : Keys]
    BY <1>3 DEF Op
<1>4. CASE req[i] \in [op : {"thr"}, to : Levels]
    BY <1>4 DEF Op
<1>5. CASE req[i] \in [op : {"notify"}, to : Hooks]
    BY <1>5 DEF Op
<1>6. CASE req[i] \in [op : {"import"}, to : Doc]
    BY <1>6 DEF Op
<1> QED BY <1>1, <1>2, <1>3, <1>4, <1>5, <1>6 DEF Request

Values == Metas \union {NoDevice}

\* Documents and their parts.
LEMMA DocFacts ==
    ASSUME NEW d \in Doc
    PROVE  /\ d.dev \in [Keys -> Values] /\ d.th \in Levels /\ d.hook \in Hooks
           /\ \A k \in Keys, m \in Values : [d EXCEPT !.dev[k] = m] \in Doc
                 /\ [d EXCEPT !.dev[k] = m].th = d.th /\ [d EXCEPT !.dev[k] = m].hook = d.hook
                 /\ [d EXCEPT !.dev[k] = m].dev = [d.dev EXCEPT ![k] = m]
           /\ \A v \in Levels : [d EXCEPT !.th = v] \in Doc /\ [d EXCEPT !.th = v].th = v
                 /\ [d EXCEPT !.th = v].dev = d.dev /\ [d EXCEPT !.th = v].hook = d.hook
           /\ \A h \in Hooks : [d EXCEPT !.hook = h] \in Doc /\ [d EXCEPT !.hook = h].hook = h
                 /\ [d EXCEPT !.hook = h].dev = d.dev /\ [d EXCEPT !.hook = h].th = d.th
BY DEF Doc, Values

\* A document as the file stores it.
LEMMA SealedFacts ==
    ASSUME NEW d \in Doc
    PROVE  /\ Sealed(d) \in Doc /\ IsSealed(Sealed(d))
           /\ Sealed(d).th = d.th /\ Sealed(d).hook = d.hook
           /\ \A k \in Keys : Sealed(d).dev[k] = Seal[d.dev[k]]
           /\ IsSealed(d) => Sealed(d) = d
<1>1. d.dev \in [Keys -> Values] /\ d.th \in Levels /\ d.hook \in Hooks
    BY DocFacts
<1>2. Seal \in [Values -> Values] /\ \A m \in Values : Seal[Seal[m]] = Seal[m]
    BY DocAssumption DEF Values
<1> DEFINE e == [k \in Keys |-> Seal[d.dev[k]]]
<1>3. e \in [Keys -> Values] /\ \A k \in Keys : e[k] = Seal[d.dev[k]] /\ Seal[e[k]] = e[k]
    BY <1>1, <1>2
<1>4. IsSealed(d) => e = d.dev
    BY <1>1, <1>3 DEF IsSealed
<1> HIDE DEF e
<1>5. Sealed(d) = [d EXCEPT !.dev = e]
    BY DEF Sealed, e
<1>6. /\ [d EXCEPT !.dev = e] \in Doc /\ [d EXCEPT !.dev = e].dev = e
      /\ [d EXCEPT !.dev = e].th = d.th /\ [d EXCEPT !.dev = e].hook = d.hook
      /\ d.dev = e => [d EXCEPT !.dev = e] = d
    BY <1>3 DEF Doc, Values
<1> QED BY <1>3, <1>4, <1>5, <1>6 DEF IsSealed, e

\* What a request wants, from the document it read.
LEMMA AfterFacts ==
    ASSUME AuditInv, Docs, NEW i \in Ids
    PROVE  /\ Op(i) \in {"del", "import", "notify"} => After(i) \in Doc
           /\ Op(i) = "del" =>
                 /\ After(i).dev = [before[i].dev EXCEPT ![req[i].key] = NoDevice]
                 /\ After(i).th = before[i].th /\ After(i).hook = before[i].hook
           /\ Op(i) = "import" =>
                 /\ After(i).dev = req[i].to.dev /\ After(i).th = req[i].to.th
                 /\ After(i).hook = before[i].hook
           /\ Op(i) = "notify" =>
                 /\ After(i).dev = before[i].dev /\ After(i).th = before[i].th
                 /\ After(i).hook = req[i].to
<1> DEFINE d == before[i]
<1>1. d \in Doc
    BY DEF Docs
<1>2. CASE Op(i) = "del"
  <2>1. After(i) = [d EXCEPT !.dev[req[i].key] = NoDevice]
      BY <1>2 DEF After
  <2>2. req[i].key \in Keys /\ NoDevice \in Values
      BY <1>2, RequestFacts DEF Values
  <2> HIDE DEF d
  <2>3. /\ [d EXCEPT !.dev[req[i].key] = NoDevice] \in Doc
        /\ [d EXCEPT !.dev[req[i].key] = NoDevice].th = d.th
        /\ [d EXCEPT !.dev[req[i].key] = NoDevice].hook = d.hook
        /\ [d EXCEPT !.dev[req[i].key] = NoDevice].dev = [d.dev EXCEPT ![req[i].key] = NoDevice]
      BY <1>1, <2>2, DocFacts
  <2> QED BY <1>2, <2>1, <2>3 DEF d
<1>3. CASE Op(i) = "import"
  <2>1. After(i) = [d EXCEPT !.dev = req[i].to.dev, !.th = req[i].to.th]
      BY <1>3 DEF After
  <2>2. req[i].to.dev \in [Keys -> Values] /\ req[i].to.th \in Levels
      BY <1>3, RequestFacts, DocFacts
  <2> QED BY <1>1, <1>3, <2>1, <2>2 DEF Doc, Values
<1>4. CASE Op(i) = "notify"
  <2>1. After(i) = [d EXCEPT !.hook = req[i].to]
      BY <1>4 DEF After
  <2> QED BY <1>1, <1>4, <2>1, RequestFacts, DocFacts
<1> QED BY <1>2, <1>3, <1>4

\* The items of a document.
LEMMA ItemFacts ==
    /\ "th" \in Items /\ "hook" \in Items /\ Keys \subseteq Items
    /\ \A d : Item(d, "th") = d.th /\ Item(d, "hook") = d.hook
    /\ \A d, k : k \in Keys => Item(d, k) = d.dev[k]
    /\ \A x \in Items : x = "th" \/ x = "hook" \/ x \in Keys
BY DocAssumption DEF Items, Item

\* The file after Store.rmw: what changed belongs to the request, and every open request
\* has it among the items that others touched.
LEMMA WriteFacts ==
    ASSUME AuditInv, Docs, NEW i \in Ids, NEW d \in Doc, Write(i, d)
    PROVE  /\ file' = Sealed(d) /\ file' \in Doc /\ IsSealed(file')
           /\ file'.th = d.th /\ file'.hook = d.hook /\ \A k \in Keys : file'.dev[k] = Seal[d.dev[k]]
           /\ owner' \in [Items -> Ids \union {0}] /\ touched' \in [Ids -> SUBSET Items]
           /\ \A x \in Items : IF Item(file', x) # Item(file, x) THEN owner'[x] = i ELSE owner'[x] = owner[x]
           /\ \A j \in Ids : Open(j) => /\ touched[j] \subseteq touched'[j]
                                        /\ \A x \in Items : Item(file', x) # Item(file, x) => x \in touched'[j]
                                        /\ Op(i) = "put" => req[i].key \in touched'[j]
           /\ \A j \in Ids : ~Open(j) => touched'[j] = {}
<1> DEFINE changed == Differ(file, Sealed(d))
           xs == changed \union IF Op(i) = "put" THEN {req[i].key} ELSE {}
<1>1. /\ file' = Sealed(d)
      /\ owner' = [x \in Items |-> IF x \in changed THEN i ELSE owner[x]]
      /\ Touch(xs)
    BY DEF Write
<1>2. \A x \in Items : x \in changed <=> Item(file', x) # Item(file, x)
    BY <1>1 DEF Differ
<1>3. xs \subseteq Items
    BY RequestFacts, ItemFacts DEF Differ
<1>4. touched \in [Ids -> SUBSET Items] /\ owner \in [Items -> Ids \union {0}]
    BY DEF Docs
<1>5. Sealed(d) \in Doc /\ IsSealed(Sealed(d)) /\ Sealed(d).th = d.th /\ Sealed(d).hook = d.hook
      /\ \A k \in Keys : Sealed(d).dev[k] = Seal[d.dev[k]]
    BY SealedFacts
<1>6. changed \subseteq xs /\ (Op(i) = "put" => req[i].key \in xs)
    OBVIOUS
<1> HIDE DEF changed, xs
<1>7. touched' = [j \in Ids |-> IF Open(j) THEN touched[j] \union xs ELSE {}]
    BY <1>1 DEF Touch
<1>8. touched' \in [Ids -> SUBSET Items]
    BY <1>3, <1>4, <1>7
<1>9. owner' \in [Items -> Ids \union {0}]
    BY <1>1, <1>4
<1> QED BY <1>1, <1>2, <1>4, <1>5, <1>6, <1>7, <1>8, <1>9

\* The file after a rollback.
LEMMA TakeBackFacts ==
    ASSUME AuditInv, Docs, NEW i \in Ids, TakeBack(i)
    PROVE  /\ file' = before[i] /\ file' \in Doc /\ IsSealed(file')
           /\ owner' \in [Items -> Ids \union {0}] /\ touched' \in [Ids -> SUBSET Items]
           /\ taken \subseteq taken' /\ taken' \subseteq Keys
           /\ \A x \in Items :
                 IF Item(file', x) # Item(file, x) /\ x \in touched[i]
                 THEN owner'[x] = 0 /\ (x \in Keys => x \in taken') ELSE owner'[x] = owner[x]
           /\ \A j \in Ids : Open(j) => /\ touched[j] \subseteq touched'[j]
                                        /\ \A x \in Items : Item(file', x) # Item(file, x) => x \in touched'[j]
<1> DEFINE changed == Differ(file, before[i])
           lost == changed \cap touched[i]
<1>1. /\ file' = before[i]
      /\ owner' = [x \in Items |-> IF x \in lost THEN 0 ELSE owner[x]]
      /\ taken' = taken \union (lost \cap Keys)
      /\ Touch(changed)
    BY DEF TakeBack
<1>2. \A x \in Items : x \in changed <=> Item(file', x) # Item(file, x)
    BY <1>1 DEF Differ
<1>3. changed \subseteq Items
    BY DEF Differ
<1>4. /\ touched \in [Ids -> SUBSET Items] /\ owner \in [Items -> Ids \union {0}]
      /\ taken \subseteq Keys /\ before[i] \in Doc /\ IsSealed(before[i])
    BY DEF Docs
<1> HIDE DEF changed
<1>7. touched' = [j \in Ids |-> IF Open(j) THEN touched[j] \union changed ELSE {}]
    BY <1>1 DEF Touch
<1>8. touched' \in [Ids -> SUBSET Items]
    BY <1>3, <1>4, <1>7
<1>9. owner' \in [Items -> Ids \union {0}]
    BY <1>1, <1>4
<1> QED BY <1>1, <1>2, <1>4, <1>7, <1>8, <1>9

\* The effect of a step on the file and its ghosts keeps their types.
FileTyped ==
    /\ file' \in Doc /\ IsSealed(file') /\ owner' \in [Items -> Ids \union {0}]
    /\ touched' \in [Ids -> SUBSET Items] /\ taken' \subseteq Keys

\* The effect of a step on the rest.
RestTyped ==
    /\ live' \in Doc /\ before' \in [Ids -> Doc] /\ \A i \in Ids : IsSealed(before'[i])
    /\ was' \in [Ids -> WasType] /\ ui' \in Ids \union {0, -1}
    /\ undo' \in [Ids -> SUBSET {"config", "ui"}] /\ restart' \subseteq Keys

\* The documents a request writes.
LEMMA WrittenTyped ==
    ASSUME AuditInv, Docs, NEW i \in Ids
    PROVE  /\ \A d \in Doc : Write(i, d) /\ taken' = taken => FileTyped
           /\ NoWrite /\ taken' = taken => FileTyped
           /\ TakeBack(i) => FileTyped
<1>1. ASSUME NEW d \in Doc, Write(i, d), taken' = taken PROVE FileTyped
    BY <1>1, WriteFacts DEF FileTyped, Docs
<1>2. ASSUME NoWrite, taken' = taken PROVE FileTyped
    BY <1>2 DEF NoWrite, FileTyped, Docs
<1>3. ASSUME TakeBack(i) PROVE FileTyped
    BY <1>3, TakeBackFacts DEF FileTyped
<1> QED BY <1>1, <1>2, <1>3

\* The file.
LEMMA StepFileTyped ==
    ASSUME AuditInv, Docs, NEW i \in Ids, Step(i) PROVE FileTyped
<1>0. file \in Doc
    BY DEF Docs
<1> USE WrittenTyped
<1>1. CASE ThrSave(i)
  <2>1. req[i].to \in Levels
      BY <1>1, RequestFacts DEF ThrSave
  <2>2. [file EXCEPT !.th = req[i].to] \in Doc
      BY <1>0, <2>1, DocFacts
  <2> QED BY <1>1, <2>2 DEF ThrSave
<1>2. CASE ThrApply(i)
    BY <1>2 DEF ThrApply
<1>3. CASE AddSave(i)
  <2>1. req[i].key \in Keys /\ req[i].to \in Values
      BY <1>3, RequestFacts DEF AddSave, Values
  <2>2. [file EXCEPT !.dev[req[i].key] = req[i].to] \in Doc
      BY <1>0, <2>1, DocFacts
  <2> QED BY <1>3, <2>2 DEF AddSave
<1>4. CASE PutSave(i)
  <2>1. req[i].key \in Keys /\ req[i].to \in Values
      BY <1>4, RequestFacts DEF PutSave, Values
  <2>2. [file EXCEPT !.dev[req[i].key] = req[i].to] \in Doc
      BY <1>0, <2>1, DocFacts
  <2> QED BY <1>4, <2>2 DEF PutSave
<1>5. CASE DeviceApply(i)
    BY <1>5 DEF DeviceApply
<1>6. CASE DelRead(i)
    BY <1>6 DEF DelRead
<1>7. CASE ImportRead(i)
    BY <1>7 DEF ImportRead
<1>8. CASE ImportSnapshot(i)
    BY <1>8 DEF ImportSnapshot
<1>9. CASE Prepare(i)
    BY <1>9 DEF Prepare
<1>10. CASE Replace(i)
  <2>1. After(i) \in Doc
      BY <1>10, AfterFacts DEF Replace, AuditInv, Stages, Right, AuditSteps
  <2> QED BY <1>10, <2>1 DEF Replace
<1>11. CASE Failed(i)
    BY <1>11 DEF Failed
<1>12. CASE ImportLive(i)
    BY <1>12 DEF ImportLive
<1>13. CASE ImportUI(i)
    BY <1>13 DEF ImportUI
<1>14. CASE Commit(i)
    BY <1>14 DEF Commit
<1>15. CASE Rollback(i)
    BY <1>15 DEF Rollback
<1>16. CASE ImportUIBack(i)
    BY <1>16 DEF ImportUIBack
<1>17. CASE Undone(i)
    BY <1>17 DEF Undone
<1>18. CASE NotifyRead(i)
    BY <1>18 DEF NotifyRead
<1>19. CASE NotifySave(i)
  <2>1. After(i) \in Doc
      BY <1>19, AfterFacts DEF NotifySave, AuditInv, Stages, Right, NotifySteps
  <2> QED BY <1>19, <2>1 DEF NotifySave
<1>20. CASE NotifyUpdate(i)
    BY <1>20 DEF NotifyUpdate
<1>21. CASE RestoreRead(i)
    BY <1>21 DEF RestoreRead
<1>22. CASE RestoreWrite(i)
  <2>1. NoWrite \/ file' = file \/ file' = [file EXCEPT !.hook = before[i].hook]
      BY <1>22 DEF RestoreWrite, Replaces
  <2>2. UNCHANGED <<owner, touched, taken>>
      BY <1>22 DEF RestoreWrite, NoWrite
  <2>3. before[i].hook \in Hooks
      BY DocFacts DEF Docs
  <2>4. PICK h \in Hooks : h = before[i].hook
      BY <2>3
  <2>5. [file EXCEPT !.hook = h] \in Doc /\ [file EXCEPT !.hook = h].dev = file.dev
      BY <1>0, DocFacts
  <2>6. file' \in Doc /\ file'.dev = file.dev
      BY <1>0, <2>1, <2>4, <2>5 DEF NoWrite
  <2> QED BY <2>2, <2>6 DEF Docs, FileTyped, IsSealed
<1>23. CASE NotifyUndone(i)
    BY <1>23 DEF NotifyUndone
<1> QED BY <1>1, <1>2, <1>3, <1>4, <1>5, <1>6, <1>7, <1>8, <1>9, <1>10, <1>11, <1>12, <1>13, <1>14, <1>15, <1>16, <1>17, <1>18, <1>19, <1>20, <1>21, <1>22, <1>23 DEF Step

\* The rest.
LEMMA StepRestTyped ==
    ASSUME AuditInv, Docs, NEW i \in Ids, Step(i) PROVE RestTyped
<1>0. /\ file \in Doc /\ IsSealed(file) /\ live \in Doc /\ before \in [Ids -> Doc]
      /\ \A j \in Ids : IsSealed(before[j])
      /\ was \in [Ids -> WasType] /\ ui \in Ids \union {0, -1}
      /\ undo \in [Ids -> SUBSET {"config", "ui"}] /\ restart \subseteq Keys
    BY DEF Docs
<1>a. live.th \in Levels /\ live.hook \in Hooks
    BY <1>0, DocFacts
<1>b. was[i].th \in Levels /\ was[i].hook \in Hooks /\ was[i].ui \in Ids \union {0, -1}
    BY <1>0 DEF WasType
<1>c. /\ \A k \in Keys, m \in Values : [live EXCEPT !.dev[k] = m] \in Doc
      /\ \A v \in Levels : [live EXCEPT !.th = v] \in Doc
      /\ \A h \in Hooks : [live EXCEPT !.hook = h] \in Doc
    BY <1>0, DocFacts
<1>d. /\ \A d \in Doc : IsSealed(d) => /\ [before EXCEPT ![i] = d] \in [Ids -> Doc]
                                       /\ \A j \in Ids : IsSealed([before EXCEPT ![i] = d][j])
    BY <1>0
<1> USE DEF RestTyped
<1>1. CASE ThrSave(i)
    BY <1>0, <1>1 DEF ThrSave
<1>2. CASE ThrApply(i)
  <2>1. req[i].to \in Levels
      BY <1>2, RequestFacts DEF ThrApply
  <2> QED BY <1>0, <1>c, <1>2, <2>1 DEF ThrApply
<1>3. CASE AddSave(i)
  <2>1. req[i].key \in Keys
      BY <1>3, RequestFacts DEF AddSave
  <2> QED BY <1>0, <1>3, <2>1 DEF AddSave
<1>4. CASE PutSave(i)
    BY <1>0, <1>4 DEF PutSave
<1>5. CASE DeviceApply(i)
  <2>1. req[i].key \in Keys /\ (IF Op(i) = "del" THEN NoDevice ELSE req[i].to) \in Values
      BY <1>5, RequestFacts DEF DeviceApply, Values
  <2> QED BY <1>0, <1>c, <1>5, <2>1 DEF DeviceApply
<1>6. CASE DelRead(i)
    BY <1>0, <1>d, <1>6 DEF DelRead
<1>7. CASE ImportRead(i)
    BY <1>0, <1>d, <1>7 DEF ImportRead
<1>8. CASE ImportSnapshot(i)
  <2>1. [was EXCEPT ![i].th = live.th, ![i].ui = ui] \in [Ids -> WasType]
      BY <1>0, <1>a DEF WasType
  <2> QED BY <1>0, <1>8, <2>1 DEF ImportSnapshot
<1>9. CASE Prepare(i)
    BY <1>0, <1>9 DEF Prepare
<1>10. CASE Replace(i)
    BY <1>0, <1>10 DEF Replace
<1>11. CASE Failed(i)
    BY <1>0, <1>11 DEF Failed
<1>12. CASE ImportLive(i)
  <2>1. req[i].to.th \in Levels
      BY <1>12, RequestFacts, DocFacts DEF ImportLive, AuditInv, Stages, Right
  <2> QED BY <1>0, <1>c, <1>12, <2>1 DEF ImportLive
<1>13. CASE ImportUI(i)
    BY <1>0, <1>13 DEF ImportUI
<1>14. CASE Commit(i)
    BY <1>0, <1>14 DEF Commit
<1>15. CASE Rollback(i)
  <2>2. [undo EXCEPT ![i] = @ \union {"config"}] \in [Ids -> SUBSET {"config", "ui"}]
      BY <1>0
  <2> QED BY <1>0, <1>15, <2>2 DEF Rollback
<1>16. CASE ImportUIBack(i)
  <2>2. [undo EXCEPT ![i] = @ \union {"ui"}] \in [Ids -> SUBSET {"config", "ui"}]
      BY <1>0
  <2> QED BY <1>0, <1>b, <1>c, <1>16, <2>2 DEF ImportUIBack
<1>17. CASE Undone(i)
    BY <1>0, <1>17 DEF Undone
<1>18. CASE NotifyRead(i)
  <2>1. [was EXCEPT ![i].hook = live.hook] \in [Ids -> WasType]
      BY <1>0, <1>a DEF WasType
  <2> QED BY <1>0, <1>d, <1>18, <2>1 DEF NotifyRead
<1>19. CASE NotifySave(i)
    BY <1>0, <1>19 DEF NotifySave
<1>20. CASE NotifyUpdate(i)
  <2>1. req[i].to \in Hooks
      BY <1>20, RequestFacts DEF NotifyUpdate, AuditInv, Stages, Right, NotifySteps
  <2> QED BY <1>0, <1>c, <1>20, <2>1 DEF NotifyUpdate
<1>21. CASE RestoreRead(i)
  <2>1. [was EXCEPT ![i].doc = file] \in [Ids -> WasType]
      BY <1>0 DEF WasType
  <2>2. [undo EXCEPT ![i] = @ \union {"config"}] \in [Ids -> SUBSET {"config", "ui"}]
      BY <1>0
  <2> QED BY <1>0, <1>21, <2>1, <2>2 DEF RestoreRead
<1>22. CASE RestoreWrite(i)
  <2>2. [undo EXCEPT ![i] = @ \union {"config"}] \in [Ids -> SUBSET {"config", "ui"}]
      BY <1>0
  <2> QED BY <1>0, <1>22, <2>2 DEF RestoreWrite
<1>23. CASE NotifyUndone(i)
  <2> QED BY <1>0, <1>b, <1>c, <1>23 DEF NotifyUndone
<1> QED BY <1>1, <1>2, <1>3, <1>4, <1>5, <1>6, <1>7, <1>8, <1>9, <1>10, <1>11, <1>12, <1>13, <1>14, <1>15, <1>16, <1>17, <1>18, <1>19, <1>20, <1>21, <1>22, <1>23 DEF Step

\* Every step of a request keeps the documents.
LEMMA DocsStep ==
    ASSUME AuditInv, Docs, NEW i \in Ids, Step(i) PROVE Docs'
<1>1. FileTyped /\ RestTyped
    BY StepFileTyped, StepRestTyped
<1>2. Ids' = Ids /\ WasType' = WasType
    BY StepControls DEF Controls, Ids, WasType
<1> QED BY <1>1, <1>2 DEF FileTyped, RestTyped, Docs, IsSealed

-----------------------------------------------------------------------------
(* What a step of one request leaves to the others.                        *)

\* The private state of the other requests.
LEMMA OthersStay ==
    ASSUME AuditInv, Docs, NEW i \in Ids, Step(i)
    PROVE  /\ req' = req /\ Ids' = Ids /\ \A j \in Ids : Op(j)' = Op(j)
           /\ \A j \in Ids \ {i} : /\ pc'[j] = pc[j] /\ reply'[j] = reply[j]
                                   /\ before'[j] = before[j] /\ was'[j] = was[j] /\ undo'[j] = undo[j]
<1>1. Controls(i)
    BY StepControls
<1>2. req' = req /\ Ids' = Ids /\ \A j \in Ids : Op(j)' = Op(j)
    BY <1>1 DEF Controls, Ids, Op
<1>3. \A j \in Ids \ {i} : pc'[j] = pc[j] /\ reply'[j] = reply[j]
    BY <1>1 DEF Controls, AuditInv
<1>4. /\ before \in [Ids -> Doc] /\ was \in [Ids -> WasType] /\ undo \in [Ids -> SUBSET {"config", "ui"}]
    BY DEF Docs
<1>5. before' = before \/ \E d : before' = [before EXCEPT ![i] = d]
    BY DEF Step, ThrSave, ThrApply, AddSave, PutSave, DeviceApply, DelRead,
           ImportRead, ImportSnapshot, Prepare, Replace, Failed, ImportLive, ImportUI, Commit,
           Rollback, ImportUIBack, Undone, NotifyRead, NotifySave, NotifyUpdate, RestoreRead,
           RestoreWrite, NotifyUndone
<1>6. undo' = undo \/ \E d : undo' = [undo EXCEPT ![i] = d]
    BY DEF Step, ThrSave, ThrApply, AddSave, PutSave, DeviceApply, DelRead,
           ImportRead, ImportSnapshot, Prepare, Replace, Failed, ImportLive, ImportUI, Commit,
           Rollback, ImportUIBack, Undone, NotifyRead, NotifySave, NotifyUpdate, RestoreRead,
           RestoreWrite, NotifyUndone
<1>7. was' = was \/ \E d : was' = [was EXCEPT ![i] = d]
  <2>1. CASE ImportSnapshot(i)
      BY <2>1 DEF ImportSnapshot
  <2>2. CASE ~ImportSnapshot(i)
      BY <2>2 DEF Step, ThrSave, ThrApply, AddSave, PutSave, DeviceApply, DelRead,
           ImportRead, Prepare, Replace, Failed, ImportLive, ImportUI, Commit,
           Rollback, ImportUIBack, Undone, NotifyRead, NotifySave, NotifyUpdate, RestoreRead,
           RestoreWrite, NotifyUndone
  <2> QED BY <2>1, <2>2
<1>8. \A j \in Ids \ {i} : before'[j] = before[j] /\ undo'[j] = undo[j]
    BY <1>4, <1>5, <1>6
<1>9. \A j \in Ids \ {i} : was'[j] = was[j]
    BY <1>4, <1>7
<1> QED BY <1>2, <1>3, <1>8, <1>9

\* A step that leaves the file alone.
Still(i) ==
    /\ UNCHANGED <<file, owner, touched, taken>>
    /\ Stands(i)' => Stands(i)
    /\ Open(i)' => Open(i)
    /\ pc'[i] \in HookSteps => pc[i] \in HookSteps
    /\ pc'[i] \in Unwritten => pc[i] \in Unwritten
    /\ Open(i)' \/ pc'[i] \in HookSteps => before'[i] = before[i]

\* A step that writes the document d.
Saves(i, d) ==
    /\ d \in Doc /\ Write(i, d) /\ taken' = taken
    /\ pc[i] \in Unwritten /\ pc'[i] \notin Unwritten
    /\ before' = before
    /\ Op(i) # "notify" => file'.hook = file.hook
    /\ \A x \in Items : Item(file', x) # Item(file, x) => Item(file', x) = Wanted(i, x)
    /\ Open(i)' \/ pc'[i] \in HookSteps => file = before[i] /\ d = After(i)

\* A rollback that succeeds.
Returns(i) ==
    /\ pc[i] = "rollback" /\ pc'[i] \in {"uiback", "undone"} /\ reply' = reply
    /\ file = After(i) /\ TakeBack(i) /\ before' = before

\* The notification section is put back.
Restores(i) ==
    /\ pc[i] = "restoring" /\ pc'[i] = "checkpoint" /\ reply' = reply
    /\ file' \in Doc /\ file'.dev = file.dev /\ file'.th = file.th /\ file'.hook = before[i].hook
    /\ UNCHANGED <<owner, touched, taken, before>>

\* A step of request i is of one of these four kinds.
LEMMA StepKinds ==
    ASSUME AuditInv, Docs, NEW i \in Ids, Step(i)
    PROVE  Still(i) \/ (\E d : Saves(i, d)) \/ Returns(i) \/ Restores(i)
<1>0. Stages(i)
    BY DEF AuditInv
<1>a. /\ \A p : Goto(i, p) => pc'[i] = p /\ reply'[i] = reply[i]
      /\ \A a : Answer(i, a) => pc'[i] = "done" /\ reply'[i] = a
    BY EndsFacts
<1>b. /\ NoWrite /\ taken' = taken => UNCHANGED <<file, owner, touched, taken>>
    BY DEF NoWrite
<1>c. file \in Doc /\ IsSealed(file) /\ before \in [Ids -> Doc]
    BY DEF Docs
<1>d. ASSUME NEW d \in Doc, Write(i, d), taken' = taken, pc[i] \in Unwritten, pc'[i] \notin Unwritten,
             before' = before,
             d.th # file.th => d.th = Wanted(i, "th"),
             d.hook # file.hook => Op(i) = "notify" /\ d.hook = Wanted(i, "hook"),
             \A k \in Keys : Seal[d.dev[k]] # file.dev[k] => Seal[d.dev[k]] = Wanted(i, k),
             Open(i)' \/ pc'[i] \in HookSteps => file = before[i] /\ d = After(i)
      PROVE  \E e : Saves(i, e)
  <2>1. file'.th = d.th /\ file'.hook = d.hook /\ \A k \in Keys : file'.dev[k] = Seal[d.dev[k]]
      BY <1>d, WriteFacts
  <2>2. ASSUME NEW x \in Items, Item(file', x) # Item(file, x)
        PROVE  Item(file', x) = Wanted(i, x)
    <3>1. CASE x = "th"
        BY <1>d, <2>1, <2>2, <3>1, ItemFacts
    <3>2. CASE x = "hook"
        BY <1>d, <2>1, <2>2, <3>2, ItemFacts
    <3>3. CASE x \in Keys
        BY <1>d, <2>1, <2>2, <3>3, ItemFacts
    <3> QED BY <3>1, <3>2, <3>3, ItemFacts
  <2>3. Saves(i, d)
      BY <1>d, <2>1, <2>2 DEF Saves
  <2> QED BY <2>3
<1>1. CASE ThrSave(i)
  <2>1. /\ Op(i) = "thr" /\ pc[i] = "new" /\ before' = before /\ taken' = taken
        /\ \/ NoWrite /\ Answer(i, "error")
           \/ Write(i, [file EXCEPT !.th = req[i].to]) /\ Goto(i, "apply")
      BY <1>1 DEF ThrSave
  <2>2. CASE NoWrite /\ Answer(i, "error")
      BY <1>0, <1>a, <1>b, <2>1, <2>2 DEF Still, Stands, Open, HookSteps, Unwritten, Stages, Right, AuditSteps, NotifySteps
  <2>3. CASE Write(i, [file EXCEPT !.th = req[i].to]) /\ Goto(i, "apply")
    <3>1. PICK v \in Levels : v = req[i].to
        BY <2>1, RequestFacts
    <3> DEFINE d == [file EXCEPT !.th = v]
    <3>2. d \in Doc /\ d.th = v /\ d.hook = file.hook /\ d.dev = file.dev
        BY <1>c, DocFacts
    <3>3. Wanted(i, "th") = v
        BY <2>1, <3>1 DEF Wanted
    <3>4. Write(i, d)
        BY <2>3, <3>1
    <3> HIDE DEF d
    <3>5. \A k \in Keys : Seal[d.dev[k]] = file.dev[k]
        BY <1>c, <3>2 DEF IsSealed
    <3>6. pc[i] \in Unwritten /\ pc'[i] \notin Unwritten \union HookSteps /\ ~Open(i)'
        BY <1>a, <2>1, <2>3 DEF Unwritten, HookSteps, Open
    <3> QED BY <1>d, <2>1, <3>2, <3>3, <3>4, <3>5, <3>6
  <2> QED BY <2>1, <2>2, <2>3
<1>2. CASE ThrApply(i)
    BY <1>0, <1>a, <1>b, <1>2 DEF ThrApply, Still, Stands, Open, HookSteps, Unwritten, Stages, Right, AuditSteps, NotifySteps
<1>3. CASE AddSave(i)
  <2>1. /\ Op(i) = "add" /\ pc[i] = "new" /\ before' = before /\ taken' = taken
        /\ \/ NoWrite /\ \E a \in {"conflict", "error"} : Answer(i, a)
           \/ /\ Write(i, [file EXCEPT !.dev[req[i].key] = req[i].to])
              /\ Goto(i, "apply") \/ Answer(i, "ok")
      BY <1>3 DEF AddSave
  <2>2. CASE NoWrite /\ \E a \in {"conflict", "error"} : Answer(i, a)
      BY <1>0, <1>a, <1>b, <2>1, <2>2 DEF Still, Stands, Open, HookSteps, Unwritten, Stages, Right, AuditSteps, NotifySteps
  <2>3. CASE /\ Write(i, [file EXCEPT !.dev[req[i].key] = req[i].to])
             /\ Goto(i, "apply") \/ Answer(i, "ok")
    <3>1. PICK k \in Keys, v \in Values : k = req[i].key /\ v = req[i].to
        BY <2>1, RequestFacts DEF Values
    <3> DEFINE d == [file EXCEPT !.dev[k] = v]
    <3>2. d \in Doc /\ d.th = file.th /\ d.hook = file.hook /\ d.dev = [file.dev EXCEPT ![k] = v]
        BY <1>c, DocFacts
    <3>3. Wanted(i, k) = Seal[v]
        BY <2>1, <3>1 DEF Wanted
    <3>4. Write(i, d)
        BY <2>3, <3>1
    <3> HIDE DEF d
    <3>5. \A j \in Keys : Seal[d.dev[j]] # file.dev[j] => j = k /\ Seal[d.dev[j]] = Seal[v]
        BY <1>c, <3>2, DocFacts DEF IsSealed
    <3>6. pc[i] \in Unwritten /\ pc'[i] \notin Unwritten \union HookSteps /\ ~Open(i)'
        BY <1>a, <2>1, <2>3 DEF Unwritten, HookSteps, Open
    <3> QED BY <1>d, <2>1, <3>2, <3>3, <3>4, <3>5, <3>6
  <2> QED BY <2>1, <2>2, <2>3
<1>4. CASE PutSave(i)
  <2>1. /\ Op(i) = "put" /\ pc[i] = "new" /\ before' = before /\ taken' = taken
        /\ \/ NoWrite /\ \E a \in {"conflict", "error"} : Answer(i, a)
           \/ /\ Write(i, [file EXCEPT !.dev[req[i].key] = req[i].to])
              /\ Goto(i, "apply") \/ Answer(i, "ok")
      BY <1>4 DEF PutSave
  <2>2. CASE NoWrite /\ \E a \in {"conflict", "error"} : Answer(i, a)
      BY <1>0, <1>a, <1>b, <2>1, <2>2 DEF Still, Stands, Open, HookSteps, Unwritten, Stages, Right, AuditSteps, NotifySteps
  <2>3. CASE /\ Write(i, [file EXCEPT !.dev[req[i].key] = req[i].to])
             /\ Goto(i, "apply") \/ Answer(i, "ok")
    <3>1. PICK k \in Keys, v \in Values : k = req[i].key /\ v = req[i].to
        BY <2>1, RequestFacts DEF Values
    <3> DEFINE d == [file EXCEPT !.dev[k] = v]
    <3>2. d \in Doc /\ d.th = file.th /\ d.hook = file.hook /\ d.dev = [file.dev EXCEPT ![k] = v]
        BY <1>c, DocFacts
    <3>3. Wanted(i, k) = Seal[v]
        BY <2>1, <3>1 DEF Wanted
    <3>4. Write(i, d)
        BY <2>3, <3>1
    <3> HIDE DEF d
    <3>5. \A j \in Keys : Seal[d.dev[j]] # file.dev[j] => j = k /\ Seal[d.dev[j]] = Seal[v]
        BY <1>c, <3>2, DocFacts DEF IsSealed
    <3>6. pc[i] \in Unwritten /\ pc'[i] \notin Unwritten \union HookSteps /\ ~Open(i)'
        BY <1>a, <2>1, <2>3 DEF Unwritten, HookSteps, Open
    <3> QED BY <1>d, <2>1, <3>2, <3>3, <3>4, <3>5, <3>6
  <2> QED BY <2>1, <2>2, <2>3
<1>5. CASE DeviceApply(i)
    BY <1>0, <1>a, <1>b, <1>5 DEF DeviceApply, Still, Stands, Open, HookSteps, Unwritten, Stages, Right, AuditSteps, NotifySteps
<1>6. CASE DelRead(i)
    BY <1>0, <1>a, <1>b, <1>6 DEF DelRead, Still, Stands, Open, HookSteps, Unwritten, Stages, Right, AuditSteps, NotifySteps
<1>7. CASE ImportRead(i)
    BY <1>0, <1>a, <1>b, <1>7 DEF ImportRead, Still, Stands, Open, HookSteps, Unwritten, Stages, Right, AuditSteps, NotifySteps
<1>8. CASE ImportSnapshot(i)
    BY <1>0, <1>a, <1>b, <1>8 DEF ImportSnapshot, Still, Stands, Open, HookSteps, Unwritten, Stages, Right, AuditSteps, NotifySteps
<1>9. CASE Prepare(i)
    BY <1>0, <1>a, <1>b, <1>9 DEF Prepare, Still, Stands, Open, HookSteps, Unwritten, Stages, Right, AuditSteps, NotifySteps
<1>10. CASE Replace(i)
  <2>1. /\ Op(i) \in {"del", "import"} /\ pc[i] = "replace" /\ before' = before /\ taken' = taken
        /\ \/ NoWrite /\ Goto(i, "failed")
           \/ /\ file = before[i] /\ Write(i, After(i))
              /\ Goto(i, "live") \/ Goto(i, "commit")
      BY <1>0, <1>10 DEF Replace, Replaces, Stages, Right, AuditSteps
  <2>2. CASE NoWrite /\ Goto(i, "failed")
      BY <1>0, <1>a, <1>b, <2>1, <2>2 DEF Still, Stands, Open, HookSteps, Unwritten, Stages, Right, AuditSteps, NotifySteps
  <2>3. CASE file = before[i] /\ Write(i, After(i)) /\ (Goto(i, "live") \/ Goto(i, "commit"))
    <3> DEFINE d == After(i)
    <3>1. d \in Doc /\ d.hook = file.hook
        BY <2>1, <2>3, AfterFacts
    <3>2. d.th # file.th => d.th = Wanted(i, "th")
      <4>1. CASE Op(i) = "del"
          BY <2>3, <4>1, AfterFacts
      <4>2. CASE Op(i) = "import"
        <5>1. req[i].to \in Doc /\ d.th = req[i].to.th
            BY <4>2, AfterFacts, RequestFacts
        <5>2. Sealed(req[i].to).th = req[i].to.th
            BY <5>1, SealedFacts
        <5> QED BY <4>2, <5>1, <5>2, ItemFacts DEF Wanted
      <4> QED BY <2>1, <4>1, <4>2
    <3>3. ASSUME NEW k \in Keys, Seal[d.dev[k]] # file.dev[k] PROVE Seal[d.dev[k]] = Wanted(i, k)
      <4>1. CASE Op(i) = "del"
        <5>1. d.dev = [file.dev EXCEPT ![req[i].key] = NoDevice]
            BY <2>3, <4>1, AfterFacts
        <5>2. file.dev \in [Keys -> Values] /\ Seal[file.dev[k]] = file.dev[k]
            BY <1>c, DocFacts DEF IsSealed
        <5>3. k = req[i].key /\ d.dev[k] = NoDevice
            BY <3>3, <5>1, <5>2
        <5> QED BY <4>1, <5>3, DocAssumption DEF Wanted
      <4>2. CASE Op(i) = "import"
        <5>1. req[i].to \in Doc /\ d.dev = req[i].to.dev
            BY <4>2, AfterFacts, RequestFacts
        <5>2. Sealed(req[i].to).dev[k] = Seal[req[i].to.dev[k]]
            BY <5>1, SealedFacts
        <5> QED BY <4>2, <5>1, <5>2, ItemFacts DEF Wanted
      <4> QED BY <2>1, <4>1, <4>2
    <3>4. pc[i] \in Unwritten /\ pc'[i] \notin Unwritten
        BY <1>a, <2>1, <2>3 DEF Unwritten
    <3> HIDE DEF d
    <3>5. Write(i, d) /\ d = After(i)
        BY <2>3 DEF d
    <3> QED BY <1>d, <2>1, <2>3, <3>1, <3>2, <3>3, <3>4, <3>5
  <2> QED BY <2>1, <2>2, <2>3
<1>11. CASE Failed(i)
    BY <1>0, <1>a, <1>b, <1>11 DEF Failed, Still, Stands, Open, HookSteps, Unwritten, Stages, Right, AuditSteps, NotifySteps
<1>12. CASE ImportLive(i)
    BY <1>0, <1>a, <1>b, <1>12 DEF ImportLive, Still, Stands, Open, HookSteps, Unwritten, Stages, Right, AuditSteps, NotifySteps
<1>13. CASE ImportUI(i)
    BY <1>0, <1>a, <1>b, <1>13 DEF ImportUI, Still, Stands, Open, HookSteps, Unwritten, Stages, Right, AuditSteps, NotifySteps
<1>14. CASE Commit(i)
    BY <1>0, <1>a, <1>b, <1>14 DEF Commit, Still, Stands, Open, HookSteps, Unwritten, Stages, Right, AuditSteps, NotifySteps
<1>15. CASE Rollback(i)
  <2>1. CASE TakeBack(i) /\ file = After(i)
    <3>1. pc[i] = "rollback" /\ before' = before /\ \E p \in {"uiback", "undone"} : Goto(i, p)
        BY <1>15 DEF Rollback
    <3>2. pc'[i] \in {"uiback", "undone"} /\ reply' = reply
        BY <1>a, <3>1 DEF Goto
    <3> QED BY <2>1, <3>1, <3>2 DEF Returns
  <2>2. CASE ~(TakeBack(i) /\ file = After(i))
    <3>1. /\ pc[i] = "rollback" /\ before' = before /\ NoWrite /\ taken' = taken
          /\ \E p \in {"uiback", "undone"} : Goto(i, p)
        BY <1>15, <2>2 DEF Rollback, Replaces
    <3> QED BY <1>0, <1>a, <1>b, <3>1 DEF Still, Stands, Open, HookSteps, Unwritten, Stages, Right, AuditSteps, NotifySteps
  <2> QED BY <2>1, <2>2
<1>16. CASE ImportUIBack(i)
    BY <1>0, <1>a, <1>b, <1>16 DEF ImportUIBack, Still, Stands, Open, HookSteps, Unwritten, Stages, Right, AuditSteps, NotifySteps
<1>17. CASE Undone(i)
    BY <1>0, <1>a, <1>b, <1>17 DEF Undone, Still, Stands, Open, HookSteps, Unwritten, Stages, Right, AuditSteps, NotifySteps
<1>18. CASE NotifyRead(i)
    BY <1>0, <1>a, <1>b, <1>18 DEF NotifyRead, Still, Stands, Open, HookSteps, Unwritten, Stages, Right, AuditSteps, NotifySteps
<1>19. CASE NotifySave(i)
  <2>1. /\ Op(i) = "notify" /\ pc[i] = "save" /\ before' = before /\ taken' = taken
        /\ \/ NoWrite /\ Answer(i, "error")
           \/ file = before[i] /\ Write(i, After(i)) /\ Goto(i, "update")
      BY <1>0, <1>19 DEF NotifySave, Replaces, Stages, Right, NotifySteps
  <2>2. CASE NoWrite /\ Answer(i, "error")
      BY <1>0, <1>a, <1>b, <2>1, <2>2 DEF Still, Stands, Open, HookSteps, Unwritten, Stages, Right, AuditSteps, NotifySteps
  <2>3. CASE file = before[i] /\ Write(i, After(i)) /\ Goto(i, "update")
    <3> DEFINE d == After(i)
    <3>1. d \in Doc /\ d.hook = req[i].to /\ d.th = file.th /\ d.dev = file.dev
        BY <2>1, <2>3, AfterFacts
    <3>2. Wanted(i, "hook") = req[i].to
        BY <2>1 DEF Wanted
    <3>3. \A k \in Keys : Seal[d.dev[k]] = file.dev[k]
        BY <1>c, <3>1 DEF IsSealed
    <3>4. pc[i] \in Unwritten /\ pc'[i] \notin Unwritten
        BY <1>a, <2>1, <2>3 DEF Unwritten
    <3> HIDE DEF d
    <3>5. Write(i, d) /\ d = After(i)
        BY <2>3 DEF d
    <3> QED BY <1>d, <2>1, <2>3, <3>1, <3>2, <3>3, <3>4, <3>5
  <2> QED BY <2>1, <2>2, <2>3
<1>20. CASE NotifyUpdate(i)
    BY <1>0, <1>a, <1>b, <1>20 DEF NotifyUpdate, Still, Stands, Open, HookSteps, Unwritten, Stages, Right, AuditSteps, NotifySteps
<1>21. CASE RestoreRead(i)
    BY <1>0, <1>a, <1>b, <1>21 DEF RestoreRead, Still, Stands, Open, HookSteps, Unwritten, Stages, Right, AuditSteps, NotifySteps
<1>22. CASE RestoreWrite(i)
  <2>0. /\ pc[i] \in {"restoring", "checkpointing"} /\ before' = before /\ taken' = taken
        /\ \E p \in {"checkpoint", "runtime", "restore"} : Goto(i, p)
      BY <1>22 DEF RestoreWrite
  <2>1. CASE pc[i] = "restoring" /\ file = was[i].doc /\ ~NoWrite
    <3>1. /\ file' = [file EXCEPT !.hook = before[i].hook] /\ UNCHANGED <<owner, touched>>
          /\ Goto(i, "checkpoint")
        BY <1>22, <2>1 DEF RestoreWrite, Replaces
    <3>2. PICK h \in Hooks : h = before[i].hook
        BY <1>c, DocFacts
    <3>3. /\ [file EXCEPT !.hook = h] \in Doc /\ [file EXCEPT !.hook = h].dev = file.dev
          /\ [file EXCEPT !.hook = h].th = file.th /\ [file EXCEPT !.hook = h].hook = h
        BY <1>c, DocFacts
    <3> QED BY <1>a, <2>0, <2>1, <3>1, <3>2, <3>3 DEF Restores, Goto
  <2>2. CASE ~(pc[i] = "restoring" /\ file = was[i].doc /\ ~NoWrite)
    <3>1. UNCHANGED <<file, owner, touched>>
        BY <1>22, <2>2 DEF RestoreWrite, Replaces, NoWrite
    <3>2. pc[i] = "checkpointing" => ~Goto(i, "restore")
        BY <1>a, <1>22 DEF RestoreWrite
    <3> QED BY <1>0, <1>a, <2>0, <3>1, <3>2 DEF Still, Stands, Open, HookSteps, Unwritten, Stages, Right, AuditSteps, NotifySteps
  <2> QED BY <2>1, <2>2
<1>23. CASE NotifyUndone(i)
    BY <1>0, <1>a, <1>b, <1>23 DEF NotifyUndone, Still, Stands, Open, HookSteps, Unwritten, Stages, Right, AuditSteps, NotifySteps
<1> QED BY <1>1, <1>2, <1>3, <1>4, <1>5, <1>6, <1>7, <1>8, <1>9, <1>10, <1>11, <1>12, <1>13, <1>14, <1>15, <1>16, <1>17, <1>18, <1>19, <1>20, <1>21, <1>22, <1>23 DEF Step

\* While a request is at its notification settings no other one is.
LEMMA OneNotifier ==
    ASSUME AuditInv, NEW i \in Ids, Step(i), Op(i) = "notify", NEW j \in Ids \ {i}
    PROVE  pc[j] \notin NotifySteps
<1>1. 0 \notin Ids
    BY PlansAssumption DEF AuditInv, Ids
<1>2. Stages(i) /\ Stages(j)
    BY DEF AuditInv
<1>3. pc[j] \in NotifySteps => notifyMu = j
    BY <1>2 DEF Stages, Right, NotifySteps
<1>4. pc[i] = "new" => NotifyRead(i)
    BY DEF Step, ThrSave, ThrApply, AddSave, PutSave, DeviceApply, DelRead,
           ImportRead, ImportSnapshot, Prepare, Replace, Failed, ImportLive, ImportUI, Commit,
           Rollback, ImportUIBack, Undone, NotifySave, NotifyUpdate, RestoreRead,
           RestoreWrite, NotifyUndone
<1>5. notifyMu \in {0, i}
  <2>1. CASE pc[i] = "new"
      BY <1>4, <2>1 DEF NotifyRead
  <2>2. CASE pc[i] # "new"
    <3>1. pc[i] # "done"
        BY DEF Step, ThrSave, ThrApply, AddSave, PutSave, DeviceApply, DelRead,
           ImportRead, ImportSnapshot, Prepare, Replace, Failed, ImportLive, ImportUI, Commit,
           Rollback, ImportUIBack, Undone, NotifyRead, NotifySave, NotifyUpdate, RestoreRead,
           RestoreWrite, NotifyUndone
    <3> QED BY <1>2, <2>2, <3>1 DEF Stages
  <2> QED BY <2>1, <2>2
<1> QED BY <1>1, <1>3, <1>5

\* The document a rollback finds and the one it brings back have the same settings.
LEMMA ReturnsFacts ==
    ASSUME AuditInv, Docs, NEW i \in Ids, Returns(i)
    PROVE  /\ Op(i) \in {"del", "import"} /\ After(i) \in Doc
           /\ file = Sealed(After(i)) /\ file' = before[i] /\ file'.hook = file.hook
<1>1. Op(i) \in {"del", "import"}
    BY DEF Returns, AuditInv, Stages, Right, AuditSteps
<1>2. After(i) \in Doc /\ After(i).hook = before[i].hook
    BY <1>1, AfterFacts
<1>3. file = After(i) /\ IsSealed(file)
    BY DEF Returns, Docs
<1>4. file' = before[i]
    BY TakeBackFacts DEF Returns
<1> QED BY <1>1, <1>2, <1>3, <1>4, SealedFacts

-----------------------------------------------------------------------------
(* Accepted changes.                                                       *)

\* The other requests keep what they want and their place.
LEMMA Steady ==
    ASSUME AuditInv, Docs, NEW i \in Ids, Step(i)
    PROVE  /\ \A j \in Ids, x \in Items : Wanted(j, x)' = Wanted(j, x)
           /\ \A j \in Ids : before'[j] = before[j] => After(j)' = After(j)
           /\ \A j \in Ids \ {i} : /\ Stands(j)' <=> Stands(j)
                                   /\ Open(j)' <=> Open(j)
                                   /\ After(j)' = After(j)
<1>1. /\ req' = req /\ Ids' = Ids /\ \A j \in Ids : Op(j)' = Op(j)
      /\ \A j \in Ids \ {i} : pc'[j] = pc[j] /\ reply'[j] = reply[j] /\ before'[j] = before[j]
    BY OthersStay
<1>2. \A j \in Ids, x \in Items : Wanted(j, x)' = Wanted(j, x)
    BY <1>1 DEF Wanted, Item, Sealed
<1>3. \A j \in Ids : before'[j] = before[j] => After(j)' = After(j)
    BY <1>1 DEF After
<1>4. \A j \in Ids \ {i} : (Stands(j)' <=> Stands(j)) /\ (Open(j)' <=> Open(j))
    BY <1>1 DEF Stands, Open
<1> QED BY <1>1, <1>2, <1>3, <1>4

\* Every step of a request keeps the claims of the owners.
LEMMA OwnerStep ==
    ASSUME AuditInv, Docs, OwnerInv, NEW i \in Ids, Step(i) PROVE OwnerInv'
<1>0. /\ req' = req /\ Ids' = Ids /\ Items' = Items
      /\ \A j \in Ids \ {i} : pc'[j] = pc[j] /\ before'[j] = before[j]
    BY OthersStay DEF Items
<1>a. /\ \A j \in Ids, x \in Items : Wanted(j, x)' = Wanted(j, x)
      /\ \A j \in Ids : before'[j] = before[j] => After(j)' = After(j)
      /\ \A j \in Ids \ {i} : /\ Stands(j)' <=> Stands(j)
                              /\ Open(j)' <=> Open(j)
                              /\ After(j)' = After(j)
    BY Steady
<1>b. /\ \A j \in Ids, x \in Items : owner[x] = j => pc[j] \notin Unwritten
      /\ \A j \in Ids, x \in Items : owner[x] = j /\ Stands(j) => Item(file, x) = Wanted(j, x)
      /\ \A j \in Ids, x \in Items :
            Open(j) /\ x \notin touched[j] =>
                owner[x] = j \/ Item(before[j], x) = Item(Sealed(After(j)), x)
      /\ \A j \in Ids : pc[j] \in HookSteps => owner["hook"] = j \/ before[j].hook = file.hook
    BY DEF OwnerInv
<1>c. 0 \notin Ids
    BY PlansAssumption DEF AuditInv, Ids
\* The four parts, in the terms of this state.
<1> DEFINE A == \A j \in Ids, x \in Items : owner'[x] = j => pc'[j] \notin Unwritten
           B == \A j \in Ids, x \in Items : owner'[x] = j /\ Stands(j)' => Item(file', x) = Wanted(j, x)
           C == \A j \in Ids, x \in Items :
                    Open(j)' /\ x \notin touched'[j] =>
                        owner'[x] = j \/ Item(before'[j], x) = Item(Sealed(After(j)'), x)
           D == \A j \in Ids : pc'[j] \in HookSteps => owner'["hook"] = j \/ before'[j].hook = file'.hook
<1>d. ASSUME A, B, C, D PROVE OwnerInv'
  <2>1. \A d, x : Item(d, x)' = Item(d', x)
      BY DEF Item
  <2>2. \A j \in Ids : Sealed(After(j))' = Sealed(After(j)')
      BY DEF Sealed
  <2>3. (\A j \in Ids, x \in Items : owner[x] = j => pc[j] \notin Unwritten)'
      BY <1>0, <1>d
  <2>4. (\A j \in Ids, x \in Items : owner[x] = j /\ Stands(j) => Item(file, x) = Wanted(j, x))'
    <3>1. \A x : Item(file, x)' = Item(file', x)
        BY DEF Item
    <3> QED BY <1>0, <1>a, <1>d, <3>1
  <2>5. (\A j \in Ids, x \in Items :
            Open(j) /\ x \notin touched[j] =>
                owner[x] = j \/ Item(before[j], x) = Item(Sealed(After(j)), x))'
    <3>1. \A j, x : Item(before[j], x)' = Item(before'[j], x)
        BY DEF Item
    <3>2. \A j, x : Item(Sealed(After(j)), x)' = Item(Sealed(After(j)'), x)
        BY DEF Item, Sealed
    <3> QED BY <1>0, <1>d, <3>1, <3>2
  <2>6. (\A j \in Ids : pc[j] \in HookSteps => owner["hook"] = j \/ before[j].hook = file.hook)'
      BY <1>0, <1>d
  <2> QED BY <2>3, <2>4, <2>5, <2>6 DEF OwnerInv
<1> HIDE DEF A, B, C, D
<1>1. CASE Still(i)
  <2>1. /\ file' = file /\ owner' = owner /\ touched' = touched
        /\ Stands(i)' => Stands(i)
        /\ Open(i)' => Open(i)
        /\ pc'[i] \in HookSteps => pc[i] \in HookSteps
        /\ pc'[i] \in Unwritten => pc[i] \in Unwritten
        /\ Open(i)' \/ pc'[i] \in HookSteps => before'[i] = before[i]
      BY <1>1 DEF Still
  <2>2. A
      BY <1>0, <1>b, <2>1 DEF A
  <2>3. B
      BY <1>a, <1>b, <2>1 DEF B
  <2>4. C
    <3> SUFFICES ASSUME NEW j \in Ids, NEW x \in Items, Open(j)', x \notin touched'[j]
                 PROVE  owner'[x] = j \/ Item(before'[j], x) = Item(Sealed(After(j)'), x)
        BY DEF C
    <3>1. before'[j] = before[j] /\ After(j)' = After(j) /\ Open(j)
        BY <1>0, <1>a, <2>1
    <3> QED BY <1>b, <2>1, <3>1
  <2>5. D
      BY <1>0, <1>b, <2>1 DEF D
  <2> QED BY <1>d, <2>2, <2>3, <2>4, <2>5
<1>2. CASE \E d : Saves(i, d)
  <2>0. PICK d : Saves(i, d)
      BY <1>2
  <2>1. /\ pc[i] \in Unwritten /\ pc'[i] \notin Unwritten /\ before' = before /\ d \in Doc
        /\ Op(i) # "notify" => file'.hook = file.hook
        /\ \A x \in Items : Item(file', x) # Item(file, x) => Item(file', x) = Wanted(i, x)
        /\ Open(i)' \/ pc'[i] \in HookSteps => file = before[i] /\ d = After(i)
        /\ Write(i, d)
      BY <2>0 DEF Saves
  <2>2. /\ file' = Sealed(d)
        /\ \A x \in Items : IF Item(file', x) # Item(file, x) THEN owner'[x] = i ELSE owner'[x] = owner[x]
        /\ \A j \in Ids : Open(j) => /\ touched[j] \subseteq touched'[j]
                                     /\ \A x \in Items : Item(file', x) # Item(file, x) => x \in touched'[j]
      BY <2>1, WriteFacts
  <2>3. A
      BY <1>0, <1>b, <2>1, <2>2 DEF A
  <2>4. B
    <3> SUFFICES ASSUME NEW j \in Ids, NEW x \in Items, owner'[x] = j, Stands(j)'
                 PROVE  Item(file', x) = Wanted(j, x)
        BY DEF B
    <3>1. CASE Item(file', x) # Item(file, x)
        BY <2>1, <2>2, <3>1
    <3>2. CASE Item(file', x) = Item(file, x)
      <4>1. owner[x] = j
          BY <2>2, <3>2
      <4>2. j # i
          BY <1>b, <2>1, <4>1
      <4> QED BY <1>a, <1>b, <3>2, <4>1, <4>2
    <3> QED BY <3>1, <3>2
  <2>5. C
    <3> SUFFICES ASSUME NEW j \in Ids, NEW x \in Items, Open(j)', x \notin touched'[j]
                 PROVE  owner'[x] = j \/ Item(before'[j], x) = Item(Sealed(After(j)'), x)
        BY DEF C
    <3>0. before'[j] = before[j] /\ After(j)' = After(j)
        BY <1>a, <2>1
    <3>1. CASE j = i
      <4>1. file = before[i] /\ file' = Sealed(After(i))
          BY <2>1, <2>2, <3>1
      <4> QED BY <2>2, <3>0, <3>1, <4>1
    <3>2. CASE j # i
      <4>1. Open(j)
          BY <1>a, <3>2
      <4>2. owner'[x] = owner[x] /\ x \notin touched[j]
          BY <2>2, <4>1
      <4> QED BY <1>b, <3>0, <4>1, <4>2
    <3> QED BY <3>1, <3>2
  <2>6. D
    <3> SUFFICES ASSUME NEW j \in Ids, pc'[j] \in HookSteps
                 PROVE  owner'["hook"] = j \/ before'[j].hook = file'.hook
        BY DEF D
    <3>0. /\ "hook" \in Items /\ Item(file', "hook") = file'.hook /\ Item(file, "hook") = file.hook
        BY ItemFacts
    <3>1. CASE j = i
        BY <2>1, <2>2, <3>0, <3>1
    <3>2. CASE j # i
      <4>1. pc[j] \in HookSteps
          BY <1>0, <3>2
      <4>2. Op(i) # "notify"
          BY <3>2, <4>1, OneNotifier DEF HookSteps, NotifySteps
      <4>3. owner'["hook"] = owner["hook"]
          BY <2>1, <2>2, <3>0, <4>2
      <4> QED BY <1>b, <2>1, <4>1, <4>2, <4>3
    <3> QED BY <3>1, <3>2
  <2> QED BY <1>d, <2>3, <2>4, <2>5, <2>6
<1>3. CASE Returns(i)
  <2>1. /\ pc[i] = "rollback" /\ pc'[i] \in {"uiback", "undone"} /\ reply' = reply
        /\ TakeBack(i) /\ before' = before
      BY <1>3 DEF Returns
  <2>2. file = Sealed(After(i)) /\ file' = before[i] /\ file'.hook = file.hook
      BY <1>3, ReturnsFacts
  <2>3. /\ \A x \in Items :
              IF Item(file', x) # Item(file, x) /\ x \in touched[i]
              THEN owner'[x] = 0 ELSE owner'[x] = owner[x]
        /\ \A j \in Ids : Open(j) => /\ touched[j] \subseteq touched'[j]
                                     /\ \A x \in Items : Item(file', x) # Item(file, x) => x \in touched'[j]
      BY <2>1, TakeBackFacts
  <2>4. Open(i) /\ ~Open(i)' /\ ~Stands(i)' /\ pc'[i] \notin HookSteps \union Unwritten
    <3>1. reply[i] = "none"
        BY <2>1 DEF AuditInv, Stages
    <3> QED BY <2>1, <3>1 DEF Open, Stands, HookSteps, Unwritten
  <2>5. A
      BY <1>0, <1>b, <1>c, <2>3, <2>4 DEF A
  <2>6. B
    <3> SUFFICES ASSUME NEW j \in Ids, NEW x \in Items, owner'[x] = j, Stands(j)'
                 PROVE  Item(file', x) = Wanted(j, x)
        BY DEF B
    <3>1. owner[x] = j /\ j # i /\ Stands(j)
        BY <1>a, <1>c, <2>3, <2>4
    <3>2. Item(file', x) = Item(file, x)
      <4>1. CASE x \in touched[i]
          BY <1>c, <2>3, <4>1
      <4>2. CASE x \notin touched[i]
          BY <1>b, <2>2, <2>4, <3>1, <4>2
      <4> QED BY <4>1, <4>2
    <3> QED BY <1>b, <3>1, <3>2
  <2>7. C
    <3> SUFFICES ASSUME NEW j \in Ids, NEW x \in Items, Open(j)', x \notin touched'[j]
                 PROVE  owner'[x] = j \/ Item(before'[j], x) = Item(Sealed(After(j)'), x)
        BY DEF C
    <3>1. j # i /\ Open(j) /\ before'[j] = before[j] /\ After(j)' = After(j)
        BY <1>a, <2>1, <2>4
    <3>2. owner'[x] = owner[x] /\ x \notin touched[j]
        BY <2>3, <3>1
    <3> QED BY <1>b, <3>1, <3>2
  <2>8. D
    <3> SUFFICES ASSUME NEW j \in Ids, pc'[j] \in HookSteps
                 PROVE  owner'["hook"] = j \/ before'[j].hook = file'.hook
        BY DEF D
    <3>1. j # i /\ pc[j] \in HookSteps
        BY <1>0, <2>4
    <3>2. owner'["hook"] = owner["hook"]
        BY <2>2, <2>3, ItemFacts
    <3> QED BY <1>b, <2>1, <2>2, <3>1, <3>2
  <2> QED BY <1>d, <2>5, <2>6, <2>7, <2>8
<1>4. CASE Restores(i)
  <2>1. /\ pc[i] = "restoring" /\ pc'[i] = "checkpoint" /\ reply' = reply
        /\ file'.dev = file.dev /\ file'.th = file.th /\ file'.hook = before[i].hook
        /\ owner' = owner /\ touched' = touched /\ before' = before
      BY <1>4 DEF Restores
  <2>2. ~Open(i)' /\ ~Stands(i)' /\ pc'[i] \notin HookSteps \union Unwritten
    <3>1. reply[i] = "none"
        BY <2>1 DEF AuditInv, Stages
    <3> QED BY <2>1, <3>1 DEF Open, Stands, HookSteps, Unwritten
  <2>3. Op(i) = "notify"
      BY <2>1 DEF AuditInv, Stages, Right, NotifySteps
  <2>4. A
      BY <1>0, <1>b, <2>1, <2>2 DEF A
  <2>5. B
    <3> SUFFICES ASSUME NEW j \in Ids, NEW x \in Items, owner'[x] = j, Stands(j)'
                 PROVE  Item(file', x) = Wanted(j, x)
        BY DEF B
    <3>1. j # i /\ Stands(j) /\ owner[x] = j
        BY <1>a, <2>1, <2>2
    <3>2. Item(file', x) = Item(file, x)
      <4>1. CASE x = "hook"
        <5>1. before[i].hook = file.hook
            BY <1>b, <2>1, <3>1, <4>1 DEF HookSteps
        <5> QED BY <2>1, <4>1, <5>1, ItemFacts
      <4>2. CASE x # "hook"
          BY <2>1, <4>2, ItemFacts
      <4> QED BY <4>1, <4>2
    <3> QED BY <1>b, <3>1, <3>2
  <2>6. C
    <3> SUFFICES ASSUME NEW j \in Ids, NEW x \in Items, Open(j)', x \notin touched'[j]
                 PROVE  owner'[x] = j \/ Item(before'[j], x) = Item(Sealed(After(j)'), x)
        BY DEF C
    <3>1. j # i /\ Open(j) /\ before'[j] = before[j] /\ After(j)' = After(j)
        BY <1>a, <2>1, <2>2
    <3> QED BY <1>b, <2>1, <3>1
  <2>7. D
    <3> SUFFICES ASSUME NEW j \in Ids, pc'[j] \in HookSteps
                 PROVE  FALSE
        BY DEF D
    <3>1. j # i /\ pc[j] \in HookSteps
        BY <1>0, <2>2
    <3> QED BY <2>3, <3>1, OneNotifier DEF HookSteps, NotifySteps
  <2> QED BY <1>d, <2>4, <2>5, <2>6, <2>7
<1> QED BY <1>1, <1>2, <1>3, <1>4, StepKinds

-----------------------------------------------------------------------------
(* The notification settings.                                              *)

\* A failed rollback that was reported stays reported.
LEMMA BrokenStays ==
    ASSUME NEW i \in Ids, Step(i), ~broken' PROVE ~broken
BY DEF Step, ThrSave, ThrApply, AddSave, PutSave, DeviceApply, DelRead,
       ImportRead, ImportSnapshot, Prepare, Replace, Failed, ImportLive, ImportUI, Commit,
       Rollback, ImportUIBack, Undone, NotifyRead, NotifySave, NotifyUpdate, RestoreRead,
       RestoreWrite, NotifyUndone

\* Only a notification request changes the running settings or those of the file.
LEMMA HookStays ==
    ASSUME AuditInv, Docs, NEW i \in Ids, Step(i), Op(i) # "notify"
    PROVE  live'.hook = live.hook /\ file'.hook = file.hook
<1>1. Right(Op(i), pc[i])
    BY DEF AuditInv, Stages
<1>2. pc[i] \notin {"update", "runtime", "restoring"}
    BY <1>1 DEF Right, NotifySteps
<1>3. live \in Doc
    BY DEF Docs
<1>5. \/ live' = live
      \/ \E m : live' = [live EXCEPT !.th = m]
      \/ \E k, m : live' = [live EXCEPT !.dev[k] = m]
    BY <1>2 DEF Step, ThrSave, ThrApply, AddSave, PutSave, DeviceApply, DelRead,
       ImportRead, ImportSnapshot, Prepare, Replace, Failed, ImportLive, ImportUI, Commit,
       Rollback, ImportUIBack, Undone, NotifyRead, NotifySave, NotifyUpdate, RestoreRead,
       RestoreWrite, NotifyUndone
<1>6. live'.hook = live.hook
  <2>1. CASE \E m : live' = [live EXCEPT !.th = m]
    <3>1. PICK m : live' = [live EXCEPT !.th = m]
        BY <2>1
    <3> QED BY <1>3, <3>1 DEF Doc
  <2>2. CASE \E k, m : live' = [live EXCEPT !.dev[k] = m]
    <3>1. PICK k, m : live' = [live EXCEPT !.dev[k] = m]
        BY <2>2
    <3> QED BY <1>3, <3>1 DEF Doc
  <2> QED BY <1>5, <2>1, <2>2
<1>7. file'.hook = file.hook
  <2>1. CASE Still(i)
      BY <2>1 DEF Still
  <2>2. CASE \E d : Saves(i, d)
      BY <2>2 DEF Saves
  <2>3. CASE Returns(i)
      BY <2>3, ReturnsFacts
  <2>4. CASE Restores(i)
      BY <1>2, <2>4 DEF Restores
  <2> QED BY <2>1, <2>2, <2>3, <2>4, StepKinds
<1> QED BY <1>6, <1>7

\* The steps of a notification request.
LEMMA NotifyStep ==
    ASSUME AuditInv, Docs, HookInv, NEW i \in Ids, Step(i), Op(i) = "notify", ~broken'
    PROVE  /\ pc'[i] \notin NotifySteps => live'.hook = file'.hook
           /\ InForce(i)'
<1>0. Right(Op(i), pc[i])
    BY DEF AuditInv, Stages
<1>a. /\ \A p : Goto(i, p) => pc'[i] = p
      /\ \A a : Answer(i, a) => pc'[i] = "done"
    BY EndsFacts
<1>b. ~broken /\ InForce(i)
    BY BrokenStays DEF HookInv
<1>c. pc[i] \notin NotifySteps => live.hook = file.hook
    BY <1>b, OneNotifier DEF HookInv
<1>d. /\ file \in Doc /\ live \in Doc /\ before \in [Ids -> Doc] /\ was \in [Ids -> WasType]
      /\ undo \in [Ids -> SUBSET {"config", "ui"}]
    BY DEF Docs
<1>e. req' = req
    BY OthersStay
<1> DEFINE old == before'[i].hook
           Goal == /\ pc'[i] \notin NotifySteps => live'.hook = file'.hook
                   /\ pc'[i] = "save" => file'.hook = live'.hook /\ was'[i].hook = live'.hook /\ old = file'.hook
                   /\ pc'[i] = "update" => file'.hook = req[i].to
                   /\ pc'[i] \in {"update", "restore", "restoring"} => was'[i].hook = old /\ live'.hook = old
                   /\ pc'[i] \in {"checkpoint", "checkpointing"} => was'[i].hook = old /\ file'.hook = old
                   /\ pc'[i] = "runtime" /\ undo'[i] = {} => was'[i].hook = old /\ file'.hook = old
<1>f. SUFFICES Goal
    BY <1>e DEF InForce
<1>1. CASE NotifyRead(i)
  <2>1. [was EXCEPT ![i].hook = live.hook][i].hook = live.hook /\ [before EXCEPT ![i] = file][i] = file
      BY <1>d DEF WasType
  <2>2. pc[i] = "new" /\ file' = file /\ live' = live
      BY <1>1 DEF NotifyRead, NoWrite
  <2>3. live.hook = file.hook
      BY <1>c, <2>2 DEF NotifySteps
  <2>4. CASE Goto(i, "save")
    <3>1. pc'[i] = "save"
        BY <1>a, <2>4
    <3>2. was'[i].hook = live.hook /\ before'[i] = file
        BY <1>1, <1>a, <2>1, <3>1 DEF NotifyRead
    <3> QED BY <2>2, <2>3, <3>1, <3>2 DEF NotifySteps
  <2>5. CASE Answer(i, "error")
      BY <1>a, <2>2, <2>3, <2>5
  <2> QED BY <1>1, <2>4, <2>5 DEF NotifyRead
<1>2. CASE NotifySave(i)
  <2>1. pc[i] = "save" /\ live' = live /\ was' = was /\ before' = before
      BY <1>2 DEF NotifySave
  <2>2. file.hook = live.hook /\ was[i].hook = live.hook /\ before[i].hook = file.hook
      BY <1>b, <2>1 DEF InForce
  <2>3. CASE Write(i, After(i)) /\ Goto(i, "update")
    <3>1. After(i) \in Doc /\ After(i).hook = req[i].to
        BY AfterFacts
    <3>2. file'.hook = req[i].to
        BY <2>3, <3>1, WriteFacts
    <3> QED BY <1>a, <2>1, <2>2, <2>3, <3>2 DEF NotifySteps
  <2>4. CASE NoWrite /\ Answer(i, "error")
      BY <1>a, <2>1, <2>2, <2>4 DEF NoWrite
  <2> QED BY <1>2, <2>3, <2>4 DEF NotifySave
<1>3. CASE NotifyUpdate(i)
  <2>1. pc[i] = "update" /\ was' = was /\ before' = before /\ file' = file
      BY <1>3 DEF NotifyUpdate, NoWrite
  <2>2. file.hook = req[i].to /\ was[i].hook = before[i].hook /\ live.hook = before[i].hook
      BY <1>b, <2>1 DEF InForce
  <2>3. CASE live' = [live EXCEPT !.hook = req[i].to] /\ Answer(i, "ok")
    <3>1. live'.hook = req[i].to
        BY <1>d, <2>3 DEF Doc
    <3> QED BY <1>a, <2>1, <2>2, <2>3, <3>1
  <2>4. CASE live' = live /\ Goto(i, "restore")
      BY <1>a, <2>1, <2>2, <2>4 DEF NotifySteps
  <2> QED BY <1>3, <2>3, <2>4 DEF NotifyUpdate
<1>4. CASE RestoreRead(i)
  <2>1. /\ pc[i] \in {"restore", "checkpoint"} /\ live' = live /\ before' = before /\ file' = file
      BY <1>4 DEF RestoreRead, NoWrite
  <2>2. [was EXCEPT ![i].doc = file][i].hook = was[i].hook
      BY <1>d DEF WasType
  <2>3. CASE /\ was' = [was EXCEPT ![i].doc = file]
             /\ Goto(i, IF pc[i] = "restore" THEN "restoring" ELSE "checkpointing")
    <3>1. was'[i].hook = was[i].hook
        BY <2>2, <2>3
    <3> QED BY <1>a, <1>b, <2>1, <2>3, <3>1 DEF InForce, NotifySteps
  <2>4. CASE undo' = [undo EXCEPT ![i] = @ \union {"config"}] /\ Goto(i, "runtime")
    <3>1. undo'[i] # {}
        BY <1>d, <2>4
    <3> QED BY <1>a, <2>1, <2>4, <3>1 DEF NotifySteps
  <2> QED BY <1>4, <2>3, <2>4 DEF RestoreRead
<1>5. CASE RestoreWrite(i)
  <2>1. /\ pc[i] \in {"restoring", "checkpointing"} /\ live' = live /\ before' = before /\ was' = was
      BY <1>5 DEF RestoreWrite
  <2>2. [file EXCEPT !.hook = before[i].hook].hook = before[i].hook
      BY <1>d DEF Doc
  <2>3. CASE /\ file' = (IF pc[i] = "restoring" THEN [file EXCEPT !.hook = before[i].hook] ELSE file)
             /\ Goto(i, IF pc[i] = "restoring" THEN "checkpoint" ELSE "runtime")
      BY <1>a, <1>b, <2>1, <2>2, <2>3 DEF InForce, NotifySteps
  <2>4. CASE file' = file /\ Goto(i, IF pc[i] = "restoring" THEN "restore" ELSE "checkpoint")
      BY <1>a, <1>b, <2>1, <2>4 DEF InForce, NotifySteps
  <2>5. CASE undo' = [undo EXCEPT ![i] = @ \union {"config"}] /\ Goto(i, "runtime")
    <3>1. undo'[i] # {}
        BY <1>d, <2>5
    <3> QED BY <1>a, <2>1, <2>5, <3>1 DEF NotifySteps
  <2> QED BY <1>5, <2>3, <2>4, <2>5 DEF RestoreWrite, Replaces, NoWrite
<1>6. CASE NotifyUndone(i)
  <2>1. pc[i] = "runtime" /\ file' = file /\ pc'[i] = "done"
      BY <1>6, <1>a DEF NotifyUndone, NoWrite
  <2>2. live' = [live EXCEPT !.hook = was[i].hook] /\ undo[i] = {}
      BY <1>6 DEF NotifyUndone
  <2>3. live'.hook = was[i].hook
      BY <1>d, <2>2 DEF Doc
  <2> QED BY <1>b, <2>1, <2>2, <2>3 DEF InForce
<1> HIDE DEF Goal
<1> QED BY <1>0, <1>1, <1>2, <1>3, <1>4, <1>5, <1>6 DEF Right, NotifySteps, AuditSteps, Step, ThrSave,
       ThrApply, AddSave, PutSave, DeviceApply, DelRead, ImportRead, ImportSnapshot, Prepare, Replace,
       Failed, ImportLive, ImportUI, Commit, Rollback, ImportUIBack, Undone

\* Every step of a request keeps the notification settings.
LEMMA HookStep ==
    ASSUME AuditInv, Docs, HookInv, NEW i \in Ids, Step(i) PROVE HookInv'
<1>0. /\ req' = req /\ Ids' = Ids
      /\ \A j \in Ids \ {i} : /\ pc'[j] = pc[j] /\ before'[j] = before[j]
                              /\ was'[j] = was[j] /\ undo'[j] = undo[j]
    BY OthersStay
<1>1. SUFFICES ASSUME ~broken'
               PROVE  /\ (\A j \in Ids : pc'[j] \notin NotifySteps) => live'.hook = file'.hook
                      /\ \A j \in Ids : InForce(j)'
    BY <1>0 DEF HookInv
<1>2. /\ (\A j \in Ids : pc[j] \notin NotifySteps) => live.hook = file.hook
      /\ \A j \in Ids : InForce(j)
    BY <1>1, BrokenStays DEF HookInv
<1>3. ASSUME NEW j \in Ids, pc'[j] \notin NotifySteps PROVE InForce(j)'
    BY <1>3 DEF InForce, NotifySteps
<1>4. CASE Op(i) = "notify"
  <2>1. \A j \in Ids \ {i} : pc'[j] \notin NotifySteps
      BY <1>0, <1>4, OneNotifier
  <2> QED BY <1>1, <1>3, <1>4, <2>1, NotifyStep
<1>5. CASE Op(i) # "notify"
  <2>1. live'.hook = live.hook /\ file'.hook = file.hook
      BY <1>5, HookStays
  <2>2. pc[i] \notin NotifySteps
      BY <1>5 DEF AuditInv, Stages, Right
  <2>3. pc'[i] \notin NotifySteps
    <3>1. AuditInv' /\ Op(i)' = Op(i)
        BY AuditRequestStep, OthersStay
    <3> QED BY <1>0, <1>5, <3>1 DEF AuditInv, Stages, Right
  <2>4. \A j \in Ids \ {i} : InForce(j)'
      BY <1>0, <1>2, <2>1 DEF InForce
  <2> QED BY <1>0, <1>2, <1>3, <2>1, <2>2, <2>3, <2>4
<1> QED BY <1>4, <1>5

-----------------------------------------------------------------------------
(* The devices.                                                            *)

\* A request that changes one device, on its way from the file to the running configuration.
Applying(i) == Op(i) \in DeviceOps /\ pc[i] = "apply"

\* The running devices change when such a request arrives.
LEMMA LiveDevices ==
    ASSUME AuditInv, Docs, NEW i \in Ids, Step(i)
    PROVE  \/ /\ Applying(i) /\ pc'[i] = "done"
              /\ \A k \in Keys : live'.dev[k] = IF k = req[i].key THEN Target(i) ELSE live.dev[k]
           \/ ~Applying(i) /\ live'.dev = live.dev
<1>1. live \in Doc
    BY DEF Docs
<1>2. CASE DeviceApply(i)
  <2>1. /\ Applying(i) /\ Answer(i, "ok")
        /\ live' = [live EXCEPT !.dev[req[i].key] = Target(i)]
      BY <1>2 DEF DeviceApply, Applying, DeviceOps, Target
  <2>2. pc'[i] = "done"
      BY <2>1, EndsFacts
  <2>3. PICK m \in Values : m = Target(i)
      BY <2>1, RequestFacts DEF Applying, DeviceOps, Target, Values
  <2>4. PICK k \in Keys : k = req[i].key
      BY <2>1, RequestFacts DEF Applying, DeviceOps
  <2>5. live'.dev = [live.dev EXCEPT ![k] = m] /\ live.dev \in [Keys -> Values]
      BY <1>1, <2>1, <2>3, <2>4, DocFacts
  <2> QED BY <2>1, <2>2, <2>3, <2>4, <2>5
<1>3. CASE ~DeviceApply(i)
  <2>1. ~Applying(i)
      BY <1>3 DEF Applying, DeviceOps, Step, ThrSave, ThrApply, AddSave, PutSave, DelRead,
       ImportRead, ImportSnapshot, Prepare, Replace, Failed, ImportLive, ImportUI, Commit,
       Rollback, ImportUIBack, Undone, NotifyRead, NotifySave, NotifyUpdate, RestoreRead,
       RestoreWrite, NotifyUndone
  <2>2. \/ live' = live
        \/ \E m : live' = [live EXCEPT !.th = m]
        \/ \E m : live' = [live EXCEPT !.hook = m]
      BY <1>3 DEF Step, ThrSave, ThrApply, AddSave, PutSave, DelRead,
       ImportRead, ImportSnapshot, Prepare, Replace, Failed, ImportLive, ImportUI, Commit,
       Rollback, ImportUIBack, Undone, NotifyRead, NotifySave, NotifyUpdate, RestoreRead,
       RestoreWrite, NotifyUndone
  <2>3. live'.dev = live.dev
    <3>1. CASE \E m : live' = [live EXCEPT !.th = m]
      <4>1. PICK m : live' = [live EXCEPT !.th = m]
          BY <3>1
      <4> QED BY <1>1, <4>1 DEF Doc
    <3>2. CASE \E m : live' = [live EXCEPT !.hook = m]
      <4>1. PICK m : live' = [live EXCEPT !.hook = m]
          BY <3>2
      <4> QED BY <1>1, <4>1 DEF Doc
    <3> QED BY <2>2, <3>1, <3>2
  <2> QED BY <2>1, <2>3
<1> QED BY <1>2, <1>3

\* Only one device request is under way.
LEMMA OneDevice ==
    ASSUME AuditInv, NEW i \in Ids, Op(i) \in DeviceOps, pc[i] \notin {"new", "done"}
    PROVE  /\ deviceMu = i
           /\ \A j \in Ids \ {i} : Op(j) \in DeviceOps => pc[j] \in {"new", "done"}
BY DEF AuditInv, Stages

\* What the running device will be when the request under way is done with it.
EffectiveIs ==
    \A k \in Keys :
        /\ \A i \in Ids : Applying(i) => Effective(k) = IF k = req[i].key THEN Target(i) ELSE live.dev[k]
        /\ (\A i \in Ids : ~Applying(i)) => Effective(k) = live.dev[k]

\* It is so in every state of the invariant.
LEMMA EffectiveFacts == AuditInv => EffectiveIs
<1> SUFFICES ASSUME AuditInv, NEW k \in Keys
             PROVE  /\ \A i \in Ids : Applying(i) => Effective(k) = IF k = req[i].key THEN Target(i) ELSE live.dev[k]
                    /\ (\A i \in Ids : ~Applying(i)) => Effective(k) = live.dev[k]
    BY DEF EffectiveIs
<1>1. ASSUME NEW i \in Ids, Applying(i)
      PROVE  Effective(k) = IF k = req[i].key THEN Target(i) ELSE live.dev[k]
  <2>1. deviceMu = i /\ \A j \in Ids \ {i} : ~Applying(j)
      BY <1>1, OneDevice DEF Applying
  <2>2. \A j \in Ids : Pending(j, k) <=> j = i /\ k = req[i].key
      BY <1>1, <2>1 DEF Pending, Applying, DeviceOps
  <2> QED BY <2>1, <2>2 DEF Effective
<1>2. ASSUME \A i \in Ids : ~Applying(i) PROVE Effective(k) = live.dev[k]
    BY <1>2 DEF Effective, Pending, Applying, DeviceOps
<1> QED BY <1>1, <1>2

\* It changes when a request comes to its last step, and then only for its device.
LEMMA EffectiveStep ==
    ASSUME AuditInv, Docs, NEW i \in Ids, Step(i), NEW k \in Keys
    PROVE  Effective(k)' = IF ~Applying(i) /\ Applying(i)' /\ k = req[i].key
                           THEN Target(i) ELSE Effective(k)
<1>0. /\ req' = req /\ Ids' = Ids
      /\ \A j \in Ids : Target(j)' = Target(j)
      /\ \A j \in Ids \ {i} : Applying(j)' <=> Applying(j)
    BY OthersStay DEF Applying, Target
<1>1. EffectiveIs /\ EffectiveIs'
  <2>1. AuditInv'
      BY AuditRequestStep
  <2> QED BY <2>1, EffectiveFacts, PTL
<1>2. /\ \A j \in Ids : Applying(j) => Effective(k) = IF k = req[j].key THEN Target(j) ELSE live.dev[k]
      /\ (\A j \in Ids : ~Applying(j)) => Effective(k) = live.dev[k]
    BY <1>1 DEF EffectiveIs
<1>3. /\ \A j \in Ids : Applying(j)' => Effective(k)' = IF k = req[j].key THEN Target(j) ELSE live'.dev[k]
      /\ (\A j \in Ids : ~Applying(j)') => Effective(k)' = live'.dev[k]
  <2>1. /\ \A j \in Ids' : (Applying(j) => Effective(k) = IF k = req[j].key THEN Target(j) ELSE live.dev[k])'
        /\ ((\A j \in Ids : ~Applying(j)) => Effective(k) = live.dev[k])'
      BY <1>1 DEF EffectiveIs
  <2> QED BY <1>0, <2>1
<1>4. CASE Applying(i)
  <2>1. ~Applying(i)' /\ live'.dev[k] = IF k = req[i].key THEN Target(i) ELSE live.dev[k]
      BY <1>4, LiveDevices DEF Applying
  <2>2. \A j \in Ids \ {i} : ~Applying(j)
      BY <1>4, OneDevice DEF Applying
  <2>3. Effective(k)' = live'.dev[k]
      BY <1>0, <1>3, <2>1, <2>2
  <2>4. Effective(k) = IF k = req[i].key THEN Target(i) ELSE live.dev[k]
      BY <1>2, <1>4
  <2> QED BY <1>4, <2>1, <2>3, <2>4
<1>5. CASE ~Applying(i)
  <2>1. live'.dev[k] = live.dev[k]
      BY <1>5, LiveDevices
  <2>2. CASE Applying(i)'
    <3>1. \A j \in Ids \ {i} : ~Applying(j)
      <4>1. AuditInv' /\ Op(i)' = Op(i)
          BY AuditRequestStep, OthersStay
      <4>2. deviceMu' = i
          BY <1>0, <2>2, <4>1 DEF AuditInv, Stages, Applying
      <4>3. ASSUME NEW j \in Ids \ {i} PROVE ~Applying(j)
        <5>1. Applying(j)' => deviceMu' = j
            BY <1>0, <4>1 DEF AuditInv, Stages, Applying
        <5> QED BY <1>0, <4>2, <5>1
      <4> QED BY <4>3
    <3>2. Effective(k) = live.dev[k]
        BY <1>2, <1>5, <3>1
    <3>3. Effective(k)' = IF k = req[i].key THEN Target(i) ELSE live'.dev[k]
        BY <1>3, <2>2
    <3> QED BY <1>5, <2>1, <2>2, <3>2, <3>3
  <2>3. CASE ~Applying(i)'
    <3>1. CASE \E j \in Ids : Applying(j)
      <4>1. PICK j \in Ids : Applying(j)
          BY <3>1
      <4>2. Applying(j)'
          BY <1>0, <1>5, <4>1
      <4>3. Effective(k) = IF k = req[j].key THEN Target(j) ELSE live.dev[k]
          BY <1>2, <4>1
      <4>4. Effective(k)' = IF k = req[j].key THEN Target(j) ELSE live'.dev[k]
          BY <1>3, <4>2
      <4> QED BY <2>1, <2>3, <4>3, <4>4
    <3>2. CASE \A j \in Ids : ~Applying(j)
      <4>1. Effective(k) = live.dev[k] /\ \A j \in Ids : ~Applying(j)'
          BY <1>0, <1>2, <2>3, <3>2
      <4> QED BY <1>3, <2>1, <2>3, <4>1
    <3> QED BY <3>1, <3>2
  <2> QED BY <2>2, <2>3
<1> QED BY <1>4, <1>5

\* What was announced, taken or reported stays so in this lifetime.
LEMMA GhostsGrow ==
    ASSUME AuditInv, Docs, NEW i \in Ids, Step(i)
    PROVE  /\ restart \subseteq restart' /\ taken \subseteq taken'
           /\ ~Doomed' => ~Doomed
<1>1. restart \subseteq restart'
    BY DEF Step, ThrSave, ThrApply, AddSave, PutSave, DeviceApply, DelRead,
       ImportRead, ImportSnapshot, Prepare, Replace, Failed, ImportLive, ImportUI, Commit,
       Rollback, ImportUIBack, Undone, NotifyRead, NotifySave, NotifyUpdate, RestoreRead,
       RestoreWrite, NotifyUndone
<1>2. taken \subseteq taken'
    BY StepKinds, TakeBackFacts DEF Still, Saves, Returns, Restores
<1>3. ASSUME ~Doomed' PROVE ~Doomed
  <2>1. /\ Ids' = Ids /\ ~broken' /\ \A j \in Ids : ~(pc'[j] \in {"uiback", "undone"} /\ undo'[j] # {})
      BY <1>3, OthersStay DEF Doomed
  <2>2. ~broken
      BY <2>1, BrokenStays
  <2>3. \A j \in Ids \ {i} : ~(pc[j] \in {"uiback", "undone"} /\ undo[j] # {})
      BY <2>1, OthersStay
  <2>4. ASSUME pc[i] \in {"uiback", "undone"}, undo[i] # {} PROVE FALSE
    <3>1. CASE pc[i] = "uiback"
      <4>1. ImportUIBack(i)
          BY <3>1 DEF Step, ThrSave, ThrApply, AddSave, PutSave, DeviceApply, DelRead,
             ImportRead, ImportSnapshot, Prepare, Replace, Failed, ImportLive, ImportUI, Commit,
             Rollback, Undone, NotifyRead, NotifySave, NotifyUpdate, RestoreRead, RestoreWrite,
             NotifyUndone
      <4>2. pc'[i] = "undone"
          BY <4>1, EndsFacts DEF ImportUIBack
      <4>3. undo' = undo \/ undo' = [undo EXCEPT ![i] = @ \union {"ui"}]
          BY <4>1 DEF ImportUIBack
      <4>4. undo'[i] # {}
          BY <2>4, <4>3 DEF Docs
      <4> QED BY <2>1, <4>2, <4>4
    <3>2. CASE pc[i] = "undone"
      <4>1. Undone(i)
          BY <3>2 DEF Step, ThrSave, ThrApply, AddSave, PutSave, DeviceApply, DelRead,
             ImportRead, ImportSnapshot, Prepare, Replace, Failed, ImportLive, ImportUI, Commit,
             Rollback, ImportUIBack, NotifyRead, NotifySave, NotifyUpdate, RestoreRead,
             RestoreWrite, NotifyUndone
      <4> QED BY <2>1, <2>4, <4>1 DEF Undone
    <3> QED BY <2>4, <3>1, <3>2
  <2> QED BY <2>2, <2>3, <2>4 DEF Doomed
<1> QED BY <1>1, <1>2, <1>3

\* Every step of a request keeps what deletions have read.
LEMMA DelStep ==
    ASSUME AuditInv, Docs, DelInv, NEW i \in Ids, Step(i) PROVE DelInv'
<1>0. /\ req' = req /\ Ids' = Ids /\ \A j \in Ids : Op(j)' = Op(j)
      /\ \A j \in Ids \ {i} : pc'[j] = pc[j] /\ before'[j] = before[j]
    BY OthersStay
<1>1. \A j \in Ids : Op(j) = "del" /\ pc[j] \notin {"new", "done"} => before[j].dev[req[j].key] # NoDevice
    BY DEF DelInv
<1>2. ASSUME Op(i) = "del", pc'[i] \notin {"new", "done"} PROVE before'[i].dev[req[i].key] # NoDevice
  <2>1. CASE pc[i] = "new"
    <3>1. DelRead(i)
        BY <1>2, <2>1 DEF Step, ThrSave, ThrApply, AddSave, PutSave, DeviceApply,
           ImportRead, ImportSnapshot, Prepare, Replace, Failed, ImportLive, ImportUI, Commit,
           Rollback, ImportUIBack, Undone, NotifyRead, NotifySave, NotifyUpdate, RestoreRead,
           RestoreWrite, NotifyUndone
    <3>2. /\ ~Answer(i, "conflict") /\ ~Answer(i, "error")
        BY <1>2, EndsFacts
    <3>3. before' = [before EXCEPT ![i] = file] /\ file.dev[req[i].key] # NoDevice
        BY <3>1, <3>2 DEF DelRead
    <3> QED BY <3>3 DEF Docs
  <2>2. CASE pc[i] # "new"
    <3>1. pc[i] # "done" /\ before' = before
        BY <1>2, <2>2 DEF Step, ThrSave, ThrApply, AddSave, PutSave, DeviceApply, DelRead,
           ImportRead, ImportSnapshot, Prepare, Replace, Failed, ImportLive, ImportUI, Commit,
           Rollback, ImportUIBack, Undone, NotifyRead, NotifySave, NotifyUpdate, RestoreRead,
           RestoreWrite, NotifyUndone
    <3> QED BY <1>1, <1>2, <2>2, <3>1
  <2> QED BY <2>1, <2>2
<1> QED BY <1>0, <1>1, <1>2 DEF DelInv

\* A request that can no longer roll back has done so, or it has committed what it changed.
LEMMA Closes ==
    ASSUME AuditInv, Docs, NEW i \in Ids, Step(i), Open(i), ~Open(i)', ~Doomed', ~Returns(i)
    PROVE  \A k \in Keys \ restart' : Changed(i, k) => Op(i) = "del" /\ Applying(i)' /\ k = req[i].key
<1>0. /\ \A p : Goto(i, p) => pc'[i] = p
      /\ \A a : Answer(i, a) => pc'[i] = "done"
    BY EndsFacts
<1>a. req' = req /\ Ids' = Ids /\ Op(i)' = Op(i) /\ (Op(i) = "del" \/ Op(i) = "import")
    BY OthersStay DEF AuditInv, Stages, Right, AuditSteps, Open
<1>b. before[i] \in Doc /\ IsSealed(before[i])
    BY DEF Docs
<1>1. Commit(i) \/ Rollback(i)
  <2>1. \/ ImportLive(i) \/ ImportUI(i) \/ Commit(i) \/ Rollback(i)
      BY DEF Open, Step, ThrSave, ThrApply, AddSave, PutSave, DeviceApply, DelRead,
           ImportRead, ImportSnapshot, Prepare, Replace, Failed, ImportUIBack, Undone, NotifyRead,
           NotifySave, NotifyUpdate, RestoreRead, RestoreWrite, NotifyUndone
  <2>2. ~ImportLive(i)
      BY <1>0 DEF ImportLive, Open
  <2>3. ~ImportUI(i)
      BY <1>0 DEF ImportUI, Open
  <2> QED BY <2>1, <2>2, <2>3
<1>2. CASE Rollback(i)
  <2>1. pc[i] = "rollback" /\ pc'[i] \in {"uiback", "undone"} /\ reply' = reply /\ before' = before
    <3>1. \E p \in {"uiback", "undone"} : Goto(i, p)
        BY <1>2 DEF Rollback
    <3> QED BY <1>0, <1>2, <3>1 DEF Rollback, Goto
  <2>2. ~(file = After(i) /\ TakeBack(i))
      BY <2>1 DEF Returns
  <2>3. undo' = [undo EXCEPT ![i] = @ \union {"config"}]
      BY <1>2, <2>2 DEF Rollback, Replaces
  <2>4. undo'[i] # {}
      BY <2>3 DEF Docs
  <2> QED BY <1>a, <2>1, <2>4 DEF Doomed
<1>3. CASE Commit(i)
  <2>1. ~Goto(i, "rollback")
      BY <1>0 DEF Open
  <2>2. CASE Op(i) = "del"
    <3>1. Goto(i, "apply")
        BY <1>3, <2>1, <2>2 DEF Commit
    <3>2. Applying(i)'
        BY <1>0, <1>a, <2>2, <3>1 DEF Applying, DeviceOps
    <3>3. ASSUME NEW k \in Keys, k # req[i].key PROVE ~Changed(i, k)
      <4>1. After(i).dev = [before[i].dev EXCEPT ![req[i].key] = NoDevice]
          BY <2>2, AfterFacts
      <4>2. After(i).dev[k] = before[i].dev[k]
          BY <1>b, <3>3, <4>1, DocFacts
      <4> QED BY <1>b, <4>2 DEF Changed, IsSealed
    <3> QED BY <2>2, <3>2, <3>3
  <2>3. CASE Op(i) = "import"
    <3>1. restart' = restart \union {k \in Keys : before[i].dev[k] # req[i].to.dev[k]}
        BY <1>3, <2>1, <2>3 DEF Commit
    <3>2. ASSUME NEW k \in Keys, k \notin restart' PROVE ~Changed(i, k)
      <4>1. After(i).dev[k] = before[i].dev[k]
          BY <2>3, <3>1, <3>2, AfterFacts
      <4> QED BY <1>b, <4>1 DEF Changed, IsSealed
    <3> QED BY <3>2
  <2> QED BY <1>a, <2>2, <2>3
<1> QED BY <1>1, <1>2, <1>3

\* The devices of the file change when an open request replaces or restores it, or when a
\* request adds or edits one, which it then applies, or has announced a restart for.
LEMMA DeviceWrites ==
    ASSUME AuditInv, Docs, NEW i \in Ids, Step(i)
    PROVE  /\ \A k \in Keys : file'.dev[k] # file.dev[k] =>
                  \/ Open(i) \/ Open(i)'
                  \/ k = req[i].key /\ (Applying(i)' \/ k \in restart')
           /\ ~Applying(i) /\ Applying(i)' /\ Op(i) # "del" =>
                  /\ file'.dev[req[i].key] = Seal[Target(i)]
                  /\ \A j \in Ids : Open(j) => req[i].key \in touched'[j]
<1>0. /\ \A p : Goto(i, p) => pc'[i] = p
      /\ \A a : Answer(i, a) => pc'[i] = "done"
    BY EndsFacts
<1>a. Op(i)' = Op(i) /\ req' = req
    BY OthersStay
<1>b. file \in Doc /\ IsSealed(file) /\ file.dev \in [Keys -> Values]
    BY DocFacts DEF Docs
<1> DEFINE Entering == ~Applying(i) /\ Applying(i)' /\ Op(i) # "del"
\* A request that adds or edits the device k.
<1>1. ASSUME Op(i) \in {"add", "put"}, pc[i] = "new",
             Write(i, [file EXCEPT !.dev[req[i].key] = req[i].to]),
             Op(i) = "add" => file.dev[req[i].key] = NoDevice
      PROVE  /\ \A k \in Keys : file'.dev[k] # file.dev[k] => k = req[i].key
             /\ file'.dev[req[i].key] = Seal[Target(i)]
             /\ \A j \in Ids : Open(j) => req[i].key \in touched'[j]
  <2>1. PICK k \in Keys, v \in Metas : k = req[i].key /\ v = req[i].to
      BY <1>1, RequestFacts
  <2> DEFINE d == [file EXCEPT !.dev[k] = v]
  <2>2. v \in Values
      BY DEF Values
  <2>3. d \in Doc /\ d.dev = [file.dev EXCEPT ![k] = v]
      BY <1>b, <2>2, DocFacts
  <2>4. Write(i, d)
      BY <1>1, <2>1
  <2> HIDE DEF d
  <2>5. /\ \A j \in Keys : file'.dev[j] = Seal[d.dev[j]]
        /\ \A j \in Ids : Open(j) =>
              /\ \A x \in Items : Item(file', x) # Item(file, x) => x \in touched'[j]
              /\ Op(i) = "put" => req[i].key \in touched'[j]
      BY <2>3, <2>4, WriteFacts
  <2>6. d.dev[k] = v /\ \A j \in Keys \ {k} : d.dev[j] = file.dev[j]
      BY <1>b, <2>3
  <2>7. file'.dev[k] = Seal[v] /\ \A j \in Keys \ {k} : file'.dev[j] = file.dev[j]
      BY <1>b, <2>5, <2>6 DEF IsSealed
  <2>8. Op(i) = "add" => Item(file', k) # Item(file, k)
      BY <1>1, <2>1, <2>7, ItemFacts, DocAssumption
  <2>9. k \in Items
      BY ItemFacts
  <2> QED BY <1>1, <2>1, <2>5, <2>7, <2>8, <2>9 DEF Target
<1>2. CASE AddSave(i)
  <2>1. Op(i) = "add" /\ pc[i] = "new"
      BY <1>2 DEF AddSave
  <2>2. CASE NoWrite /\ \E a \in {"conflict", "error"} : Answer(i, a)
      BY <1>0, <1>a, <2>2 DEF NoWrite, Applying
  <2>3. CASE ~(NoWrite /\ \E a \in {"conflict", "error"} : Answer(i, a))
    <3>1. /\ file.dev[req[i].key] = NoDevice
          /\ Write(i, [file EXCEPT !.dev[req[i].key] = req[i].to])
          /\ Goto(i, "apply") \/ restart' = restart \union {req[i].key}
        BY <1>2, <2>3 DEF AddSave
    <3>2. Applying(i)' \/ req[i].key \in restart'
        BY <1>0, <1>a, <2>1, <3>1 DEF Applying, DeviceOps
    <3> QED BY <1>1, <2>1, <3>1, <3>2
  <2> QED BY <2>2, <2>3
<1>3. CASE PutSave(i)
  <2>1. Op(i) = "put" /\ pc[i] = "new"
      BY <1>3 DEF PutSave
  <2>2. CASE NoWrite /\ Answer(i, "error")
      BY <1>0, <1>a, <2>2 DEF NoWrite, Applying
  <2>3. CASE ~(NoWrite /\ Answer(i, "error"))
    <3>1. /\ Write(i, [file EXCEPT !.dev[req[i].key] = req[i].to])
          /\ Goto(i, "apply")
        BY <1>3, <2>3 DEF PutSave
    <3>2. Applying(i)'
        BY <1>0, <1>a, <2>1, <3>1 DEF Applying, DeviceOps
    <3> QED BY <1>1, <2>1, <3>1, <3>2
  <2> QED BY <2>2, <2>3
<1>4. CASE ~AddSave(i) /\ ~PutSave(i)
  <2>1. ~Entering
    <3>1. CASE ThrSave(i)
        BY <1>a, <3>1 DEF ThrSave, Applying, DeviceOps
    <3>2. CASE Commit(i)
        BY <1>0, <1>a, <3>2 DEF Commit, Applying
    <3>3. CASE ~ThrSave(i) /\ ~Commit(i)
      <4>1. \/ \E a \in Answers : Answer(i, a)
            \/ \E p \in AllSteps \ {"apply"} : Goto(i, p)
          BY <1>4, <3>3 DEF Answers, AllSteps, NotifySteps, AuditSteps, Step, ThrApply, DeviceApply,
             DelRead, ImportRead, ImportSnapshot, Prepare, Replace, Failed, ImportLive, ImportUI,
             Rollback, ImportUIBack, Undone, NotifyRead, NotifySave, NotifyUpdate, RestoreRead,
             RestoreWrite, NotifyUndone
      <4> QED BY <1>0, <4>1 DEF Applying
    <3> QED BY <3>1, <3>2, <3>3
  <2>2. ASSUME ~Open(i), ~Open(i)' PROVE \A k \in Keys : file'.dev[k] = file.dev[k]
    <3>1. CASE ThrSave(i)
      <4>1. CASE Write(i, [file EXCEPT !.th = req[i].to])
        <5>1. PICK v \in Levels : v = req[i].to
            BY <3>1, RequestFacts DEF ThrSave
        <5>2. [file EXCEPT !.th = v] \in Doc /\ [file EXCEPT !.th = v].dev = file.dev
            BY <1>b, DocFacts
        <5> DEFINE d == [file EXCEPT !.th = v]
        <5>3. d \in Doc /\ d.dev = file.dev /\ Write(i, d)
            BY <4>1, <5>1, <5>2
        <5> HIDE DEF d
        <5>4. \A k \in Keys : file'.dev[k] = Seal[file.dev[k]]
            BY <5>3, WriteFacts
        <5> QED BY <1>b, <5>4 DEF IsSealed
      <4>2. CASE NoWrite
          BY <4>2 DEF NoWrite
      <4> QED BY <3>1, <4>1, <4>2 DEF ThrSave
    <3>2. CASE NotifySave(i)
      <4>1. CASE file = before[i] /\ Write(i, After(i))
        <5>1. Op(i) = "notify"
            BY <3>2 DEF NotifySave, AuditInv, Stages, Right, NotifySteps
        <5>2. After(i) \in Doc /\ After(i).dev = file.dev
            BY <4>1, <5>1, AfterFacts
        <5>3. \A k \in Keys : file'.dev[k] = Seal[file.dev[k]]
            BY <4>1, <5>2, WriteFacts
        <5> QED BY <1>b, <5>3 DEF IsSealed
      <4>2. CASE NoWrite
          BY <4>2 DEF NoWrite
      <4> QED BY <3>2, <4>1, <4>2 DEF NotifySave, Replaces
    <3>3. CASE RestoreWrite(i)
      <4>1. file' = file \/ file' = [file EXCEPT !.hook = before[i].hook]
          BY <3>3 DEF RestoreWrite, Replaces, NoWrite
      <4>2. [file EXCEPT !.hook = before[i].hook].dev = file.dev
          BY <1>b DEF Doc
      <4> QED BY <4>1, <4>2
    <3>4. CASE Replace(i)
      <4>1. Goto(i, "failed") => file' = file
          BY <1>0, <3>4 DEF Replace, NoWrite
      <4>2. Goto(i, "failed") \/ Goto(i, "live") \/ Goto(i, "commit")
          BY <3>4 DEF Replace
      <4> QED BY <1>0, <2>2, <4>1, <4>2 DEF Open
    <3>5. CASE ~ThrSave(i) /\ ~NotifySave(i) /\ ~RestoreWrite(i) /\ ~Replace(i)
      <4>1. ~Rollback(i)
          BY <2>2 DEF Rollback, Open
      <4>2. NoWrite
          BY <1>4, <3>5, <4>1 DEF Step, ThrApply, DeviceApply, DelRead, ImportRead, ImportSnapshot,
             Prepare, Failed, ImportLive, ImportUI, Commit, ImportUIBack, Undone, NotifyRead,
             NotifyUpdate, RestoreRead, NotifyUndone
      <4> QED BY <4>2 DEF NoWrite
    <3> QED BY <3>1, <3>2, <3>3, <3>4, <3>5
  <2> QED BY <2>1, <2>2
<1> QED BY <1>2, <1>3, <1>4

\* What a step of request i leaves of the other requests that may roll back, as far as the
\* device k goes.
Beside(i, k) ==
    /\ Ids' = Ids
    /\ \A j \in Ids \ {i} : /\ Open(j)' <=> Open(j)
                            /\ before'[j] = before[j]
                            /\ Changed(j, k)' <=> Changed(j, k)
    /\ \A j \in Ids : Open(j) /\ k \in touched[j] => k \in touched'[j]

\* So every step does.
LEMMA StepBeside ==
    ASSUME AuditInv, Docs, NEW i \in Ids, Step(i), NEW k \in Keys
    PROVE  /\ Beside(i, k)
           /\ \A j \in Ids : before'[j] = before[j] => (Changed(j, k)' <=> Changed(j, k))
<1>1. Ids' = Ids /\ \A j \in Ids \ {i} : before'[j] = before[j]
    BY OthersStay
<1>2. \A j \in Ids : before'[j] = before[j] => (Changed(j, k)' <=> Changed(j, k))
    BY Steady DEF Changed
<1>3. \A j \in Ids \ {i} : Open(j)' <=> Open(j)
    BY Steady
<1>4. \A j \in Ids : Open(j) /\ k \in touched[j] => k \in touched'[j]
  <2>1. CASE Still(i)
      BY <2>1 DEF Still
  <2>2. CASE \E d : Saves(i, d)
    <3>1. PICK d : Saves(i, d)
        BY <2>2
    <3>2. d \in Doc /\ Write(i, d)
        BY <3>1 DEF Saves
    <3>3. \A j \in Ids : Open(j) => touched[j] \subseteq touched'[j]
        BY <3>2, WriteFacts
    <3> QED BY <3>3
  <2>3. CASE Returns(i)
    <3>1. TakeBack(i)
        BY <2>3 DEF Returns
    <3>2. \A j \in Ids : Open(j) => touched[j] \subseteq touched'[j]
        BY <3>1, TakeBackFacts
    <3> QED BY <3>2
  <2>4. CASE Restores(i)
      BY <2>4 DEF Restores
  <2> QED BY <2>1, <2>2, <2>3, <2>4, StepKinds
<1> QED BY <1>1, <1>2, <1>3, <1>4 DEF Beside

\* The file keeps the device, and request i does not stop accounting for a difference.
LEMMA FitsStays ==
    ASSUME NEW i \in Ids, NEW k \in Keys, NEW v, NEW x, Fits(k, v, x), Beside(i, k),
           file'.dev[k] = file.dev[k],
           Open(i)' => Open(i) /\ before'[i] = before[i] /\ (Changed(i, k)' <=> Changed(i, k)),
           Open(i) /\ ~Open(i)' => ~Changed(i, k) \/ i \in x
    PROVE  Fits(k, v, x)'
<1>1. Ids' = Ids /\ \A j \in Ids : Open(j) /\ k \in touched[j] => k \in touched'[j]
    BY DEF Beside
<1>2. \A j \in Ids : Open(j)' => Open(j) /\ before'[j] = before[j]
    BY DEF Beside
<1>3. \A j \in Ids \ x : Open(j) /\ Changed(j, k) => Open(j)' /\ Changed(j, k)'
    BY DEF Beside
<1>4. Seal[v] = file'.dev[k] \/ \E j \in Ids \ x : Open(j)' /\ Changed(j, k)'
    BY <1>3 DEF Fits
<1>5. ASSUME NEW j \in Ids \ x, Open(j)', k \notin touched'[j]
      PROVE  Seal[v] = before'[j].dev[k] \/ \E h \in Ids \ (x \union {j}) : Open(h)' /\ Changed(h, k)'
  <2>1. Open(j) /\ before'[j] = before[j] /\ k \notin touched[j]
      BY <1>1, <1>2, <1>5
  <2>2. Seal[v] = before[j].dev[k] \/ \E h \in Ids \ (x \union {j}) : Open(h) /\ Changed(h, k)
      BY <2>1 DEF Fits
  <2> QED BY <1>3, <2>1, <2>2
<1> QED BY <1>1, <1>4, <1>5 DEF Fits

\* Request i replaces what it read: from now on it accounts for its changes.
LEMMA FitsReplace ==
    ASSUME NEW i \in Ids, NEW k \in Keys, NEW v, NEW x, i \notin x, Fits(k, v, x), Beside(i, k),
           ~Open(i), Open(i)', file = before[i], before'[i] = before[i],
           file'.dev[k] = Seal[After(i).dev[k]], Changed(i, k)' <=> Changed(i, k),
           \A j \in Ids : Open(j) /\ Changed(i, k) => k \in touched'[j]
    PROVE  Fits(k, v, x)'
<1>1. Ids' = Ids /\ \A j \in Ids : Open(j) /\ k \in touched[j] => k \in touched'[j]
    BY DEF Beside
<1>2. \A j \in Ids : Open(j)' => before'[j] = before[j] /\ (Open(j) \/ j = i)
    BY DEF Beside
<1>3. \A j \in Ids \ x : Open(j) /\ Changed(j, k) => j # i /\ Open(j)' /\ Changed(j, k)'
    BY DEF Beside
<1>4. Seal[v] = file'.dev[k] \/ \E j \in Ids \ x : Open(j)' /\ Changed(j, k)'
  <2>1. CASE Changed(i, k)
      BY <2>1
  <2>2. CASE ~Changed(i, k)
    <3>1. file'.dev[k] = file.dev[k]
        BY <2>2 DEF Changed
    <3> QED BY <1>3, <3>1 DEF Fits
  <2> QED BY <2>1, <2>2
<1>5. ASSUME NEW j \in Ids \ x, Open(j)', k \notin touched'[j]
      PROVE  Seal[v] = before'[j].dev[k] \/ \E h \in Ids \ (x \union {j}) : Open(h)' /\ Changed(h, k)'
  <2>1. CASE j = i
      BY <1>3, <2>1 DEF Fits
  <2>2. CASE j # i
    <3>1. Open(j) /\ before'[j] = before[j] /\ k \notin touched[j]
        BY <1>1, <1>2, <1>5, <2>2
    <3>2. Seal[v] = before[j].dev[k] \/ \E h \in Ids \ (x \union {j}) : Open(h) /\ Changed(h, k)
        BY <3>1 DEF Fits
    <3> QED BY <1>3, <3>1, <3>2
  <2> QED BY <2>1, <2>2
<1> QED BY <1>1, <1>4, <1>5 DEF Fits

\* Request i brings back what it read, and no saved change of the device is lost with it.
LEMMA FitsReturns ==
    ASSUME NEW i \in Ids, NEW k \in Keys, NEW v, NEW x, i \notin x, Fits(k, v, x), Beside(i, k),
           Open(i), ~Open(i)', file' = before[i], file.dev[k] = Seal[After(i).dev[k]],
           file'.dev[k] # file.dev[k] =>
               k \notin touched[i] /\ \A j \in Ids : Open(j) => k \in touched'[j]
    PROVE  Fits(k, v, x)'
<1>1. CASE file'.dev[k] = file.dev[k]
  <2>1. ~Changed(i, k)
      BY <1>1 DEF Changed
  <2> QED BY <1>1, <2>1, FitsStays
<1>2. CASE file'.dev[k] # file.dev[k]
  <2>1. \A j \in Ids \ {i} : /\ Open(j)' <=> Open(j)
                             /\ Changed(j, k)' <=> Changed(j, k)
      BY DEF Beside
  <2>2. Seal[v] = before[i].dev[k] \/ \E h \in Ids \ (x \union {i}) : Open(h) /\ Changed(h, k)
      BY <1>2 DEF Fits
  <2>3. Seal[v] = file'.dev[k] \/ \E h \in Ids \ x : Open(h)' /\ Changed(h, k)'
      BY <2>1, <2>2
  <2>4. \A j \in Ids : Open(j)' => k \in touched'[j]
      BY <1>2, <2>1
  <2>5. Ids' = Ids
      BY DEF Beside
  <2> QED BY <2>3, <2>4, <2>5 DEF Fits
<1> QED BY <1>1, <1>2

\* Request i comes to its last step, with the device k.
Enters(i, k) == ~Applying(i) /\ Applying(i)' /\ k = req[i].key

\* A deletion comes there from its commit.
LEMMA DelEnters ==
    ASSUME AuditInv, NEW i \in Ids, Step(i), Op(i) = "del", ~Applying(i), Applying(i)'
    PROVE  Open(i) /\ ~Open(i)' /\ file' = file /\ before' = before
<1>0. /\ \A p : Goto(i, p) => pc'[i] = p
      /\ \A a : Answer(i, a) => pc'[i] = "done"
    BY EndsFacts
<1>1. pc'[i] = "apply"
    BY DEF Applying
<1>2. Commit(i)
  <2>1. CASE ThrSave(i) \/ AddSave(i) \/ PutSave(i)
      BY <2>1 DEF ThrSave, AddSave, PutSave
  <2>2. CASE ~(ThrSave(i) \/ AddSave(i) \/ PutSave(i)) /\ ~Commit(i)
    <3>1. \/ \E a \in Answers : Answer(i, a)
          \/ \E p \in AllSteps \ {"apply"} : Goto(i, p)
        BY <2>2 DEF Answers, AllSteps, NotifySteps, AuditSteps, Step, ThrApply, DeviceApply,
           DelRead, ImportRead, ImportSnapshot, Prepare, Replace, Failed, ImportLive, ImportUI,
           Rollback, ImportUIBack, Undone, NotifyRead, NotifySave, NotifyUpdate, RestoreRead,
           RestoreWrite, NotifyUndone
    <3> QED BY <1>0, <1>1, <3>1
  <2> QED BY <2>1, <2>2
<1> QED BY <1>1, <1>2 DEF Commit, NoWrite, Open

\* A running device that fits the file still does after a step of request i, unless that
\* step is the one that gives the device its new value.
LEMMA FitsStep ==
    ASSUME AuditInv, Docs, NEW i \in Ids, Step(i), ~Doomed',
           NEW k \in Keys, k \notin restart', k \notin taken', ~Enters(i, k),
           NEW v, NEW x, Fits(k, v, x), i \notin x
    PROVE  Fits(k, v, x)'
<1>0. /\ Beside(i, k)
      /\ \A j \in Ids : before'[j] = before[j] => (Changed(j, k)' <=> Changed(j, k))
    BY StepBeside
<1>a. k \in Items /\ \A d : Item(d, k) = d.dev[k]
    BY ItemFacts
<1>1. CASE Returns(i)
  <2>1. After(i) \in Doc /\ file = Sealed(After(i)) /\ file' = before[i] /\ TakeBack(i)
      BY <1>1, ReturnsFacts DEF Returns
  <2>2. file.dev[k] = Seal[After(i).dev[k]]
      BY <2>1, SealedFacts
  <2>3. Open(i) /\ ~Open(i)'
      BY <1>1 DEF Returns, Open
  <2>4. file'.dev[k] # file.dev[k] => k \notin touched[i] /\ \A j \in Ids : Open(j) => k \in touched'[j]
      BY <1>a, <2>1, TakeBackFacts
  <2> QED BY <1>0, <2>1, <2>2, <2>3, <2>4, FitsReturns
<1>2. CASE Still(i) /\ ~Returns(i)
  <2>1. file' = file /\ (Open(i)' => Open(i) /\ before'[i] = before[i])
      BY <1>2 DEF Still
  <2>2. Open(i) /\ ~Open(i)' => ~Changed(i, k)
    <3>1. Open(i) => ~Applying(i)
        BY DEF Open, Applying
    <3> QED BY <1>2, <3>1, Closes DEF Enters
  <2> QED BY <1>0, <2>1, <2>2, FitsStays
<1>3. CASE \E d : Saves(i, d)
  <2>0. PICK d : Saves(i, d)
      BY <1>3
  <2>1. /\ d \in Doc /\ Write(i, d) /\ before' = before /\ ~Open(i) /\ ~Applying(i)
        /\ Open(i)' => file = before[i] /\ d = After(i)
      BY <2>0 DEF Saves, Unwritten, Open, Applying
  <2>2. /\ file'.dev[k] = Seal[d.dev[k]]
        /\ \A j \in Ids : Open(j) /\ file'.dev[k] # file.dev[k] => k \in touched'[j]
      BY <1>a, <2>1, WriteFacts
  <2>3. CASE Open(i)'
    <3>1. \A j \in Ids : Open(j) /\ Changed(i, k) => k \in touched'[j]
        BY <2>1, <2>2, <2>3 DEF Changed
    <3> QED BY <1>0, <2>1, <2>2, <2>3, <3>1, FitsReplace
  <2>4. CASE ~Open(i)'
    <3>1. file'.dev[k] = file.dev[k]
        BY <2>1, <2>4, DeviceWrites DEF Enters
    <3> QED BY <1>0, <2>1, <2>4, <3>1, FitsStays
  <2> QED BY <2>3, <2>4
<1>4. CASE Restores(i)
  <2>1. ~Open(i) /\ ~Open(i)' /\ file'.dev[k] = file.dev[k]
      BY <1>4 DEF Restores, Open
  <2> QED BY <1>0, <2>1, FitsStays
<1> QED BY <1>1, <1>2, <1>3, <1>4, StepKinds

\* The device that an open deletion wants to be gone.
LEMMA FitsDeletion ==
    ASSUME AuditInv, Docs, DelInv, NEW i \in Ids, Step(i), Op(i) = "del", Open(i)',
           Open(i) => Fits(req[i].key, NoDevice, {i})
    PROVE  Fits(req[i].key, NoDevice, {i})'
<1>0. PICK k \in Keys : k = req[i].key
    BY RequestFacts
<1>a. req' = req
    BY OthersStay
<1>1. /\ Beside(i, k)
      /\ \A j \in Ids : before'[j] = before[j] => (Changed(j, k)' <=> Changed(j, k))
    BY StepBeside
<1>2. SUFFICES Fits(k, NoDevice, {i})'
    BY <1>0, <1>a DEF Fits
<1>3. CASE Still(i)
  <2>1. file' = file /\ Open(i) /\ before'[i] = before[i]
      BY <1>3 DEF Still
  <2>2. Fits(k, NoDevice, {i})
      BY <1>0, <2>1
  <2> QED BY <1>1, <2>1, <2>2, FitsStays
<1>4. CASE \E d : Saves(i, d)
  <2>0. PICK d : Saves(i, d)
      BY <1>4
  <2>1. d \in Doc /\ Write(i, d) /\ before' = before /\ file = before[i] /\ d = After(i) /\ pc[i] \in Unwritten
      BY <2>0 DEF Saves
  <2>2. k \in Items /\ \A e : Item(e, k) = e.dev[k]
      BY ItemFacts
  <2>3. /\ file'.dev[k] = Seal[d.dev[k]]
        /\ \A j \in Ids : Open(j) /\ file'.dev[k] # file.dev[k] => k \in touched'[j]
      BY <2>1, <2>2, WriteFacts
  <2>4. d.dev[k] = NoDevice
    <3>1. After(i).dev = [before[i].dev EXCEPT ![k] = NoDevice] /\ before[i].dev \in [Keys -> Values]
        BY <1>0, AfterFacts, DocFacts DEF Docs
    <3> QED BY <2>1, <3>1
  <2>5. file'.dev[k] = Seal[NoDevice] /\ file'.dev[k] = NoDevice
      BY <2>3, <2>4, DocAssumption
  <2>6. file.dev[k] # NoDevice
    <3>1. pc[i] # "new"
      <4>1. CASE pc[i] = "new"
        <5>1. DelRead(i)
            BY <4>1 DEF Step, ThrSave, ThrApply, AddSave, PutSave, DeviceApply,
               ImportRead, ImportSnapshot, Prepare, Replace, Failed, ImportLive, ImportUI, Commit,
               Rollback, ImportUIBack, Undone, NotifyRead, NotifySave, NotifyUpdate, RestoreRead,
               RestoreWrite, NotifyUndone
        <5>2. pc'[i] \in {"done", "prepare"}
            BY <5>1, EndsFacts DEF DelRead
        <5> QED BY <5>2 DEF Open
      <4> QED BY <4>1
    <3> QED BY <1>0, <2>1, <3>1 DEF DelInv, Unwritten
  <2>7. \A j \in Ids \ {i} : Open(j)' => k \in touched'[j]
      BY <1>1, <2>3, <2>5, <2>6 DEF Beside
  <2>8. Ids' = Ids
      BY <1>1 DEF Beside
  <2> QED BY <2>5, <2>7, <2>8 DEF Fits
<1>5. CASE Returns(i) \/ Restores(i)
    BY <1>5 DEF Returns, Restores, Open
<1> QED BY <1>3, <1>4, <1>5, StepKinds

\* Every step of a request keeps the running devices in line with the file.
LEMMA DeviceStep ==
    ASSUME AuditInv, Docs, DelInv, DeviceInv, NEW i \in Ids, Step(i) PROVE DeviceInv'
<1>0. req' = req /\ Ids' = Ids /\ \A j \in Ids : Op(j)' = Op(j)
    BY OthersStay
<1>1. SUFFICES ASSUME ~Doomed', NEW k \in Keys, k \notin restart', k \notin taken'
               PROVE  /\ Fits(k, Effective(k), {})'
                      /\ \A d \in Ids : Op(d) = "del" /\ Open(d)' /\ req[d].key = k => Fits(k, NoDevice, {d})'
    BY <1>0 DEF DeviceInv
<1>2. /\ Fits(k, Effective(k), {})
      /\ \A d \in Ids : Op(d) = "del" /\ Open(d) /\ req[d].key = k => Fits(k, NoDevice, {d})
    BY <1>1, GhostsGrow DEF DeviceInv
<1>3. CASE Enters(i, k)
  <2>1. Effective(k)' = Target(i) /\ Op(i) \in DeviceOps /\ pc'[i] = "apply"
      BY <1>0, <1>3, EffectiveStep DEF Enters, Applying
  <2>2. ASSUME NEW d \in Ids, Op(d) = "del", Open(d)' PROVE FALSE
    <3>1. AuditInv'
        BY AuditRequestStep
    <3>2. deviceMu' = i /\ deviceMu' = d
        BY <1>0, <2>1, <2>2, <3>1 DEF AuditInv, Stages, Open, DeviceOps
    <3> QED BY <2>1, <2>2, <3>2 DEF Open
  <2>3. CASE Op(i) = "del"
    <3>1. Open(i) /\ ~Open(i)' /\ file' = file /\ before' = before
        BY <1>3, <2>3, DelEnters DEF Enters
    <3>2. Fits(k, NoDevice, {i}) /\ Beside(i, k)
        BY <1>2, <1>3, <2>3, <3>1, StepBeside DEF Enters
    <3>3. Fits(k, NoDevice, {i})'
        BY <3>1, <3>2, FitsStays
    <3>4. Effective(k)' = NoDevice
        BY <2>1, <2>3 DEF Target
    <3>5. \A j \in Ids : Open(j)' => j # i
        BY <3>1
    <3>6. Fits(k, NoDevice, {})'
        BY <1>0, <3>3, <3>5 DEF Fits
    <3>7. Fits(k, Effective(k), {})'
        BY <3>4, <3>6 DEF Fits
    <3> QED BY <2>2, <3>7
  <2>4. CASE Op(i) # "del"
    <3>1. file'.dev[k] = Seal[Target(i)] /\ \A j \in Ids : Open(j) => k \in touched'[j]
        BY <1>3, <2>4, DeviceWrites DEF Enters
    <3>2. \A j \in Ids : Open(j)' => k \in touched'[j]
        BY <2>1, <3>1, Steady DEF Open
    <3>3. Fits(k, Effective(k), {})'
        BY <1>0, <2>1, <3>1, <3>2 DEF Fits
    <3> QED BY <2>2, <3>3
  <2> QED BY <2>3, <2>4
<1>4. CASE ~Enters(i, k)
  <2>1. Fits(k, Effective(k), {})'
    <3>1. PICK v : v = Effective(k)
        OBVIOUS
    <3>2. Fits(k, v, {})
        BY <1>2, <3>1
    <3>3. Fits(k, v, {})'
        BY <1>1, <1>4, <3>2, FitsStep
    <3>4. Effective(k)' = v
        BY <1>4, <3>1, EffectiveStep DEF Enters
    <3> QED BY <3>3, <3>4 DEF Fits
  <2>2. ASSUME NEW d \in Ids, Op(d) = "del", Open(d)', req[d].key = k PROVE Fits(k, NoDevice, {d})'
    <3>1. CASE d = i
      <4>1. Fits(req[i].key, NoDevice, {i})'
          BY <1>2, <2>2, <3>1, FitsDeletion
      <4> QED BY <1>0, <2>2, <3>1, <4>1 DEF Fits
    <3>2. CASE d # i
      <4>1. Fits(k, NoDevice, {d})
          BY <1>2, <2>2, <3>2, Steady
      <4> QED BY <1>1, <1>4, <3>2, <4>1, FitsStep
    <3> QED BY <3>1, <3>2
  <2> QED BY <2>1, <2>2
<1> QED BY <1>3, <1>4

-----------------------------------------------------------------------------
(* The theorem.                                                            *)

\* At the first start the configuration that runs is that of the file.
LEMMA AnswersStart == Init => AnswersInv
<1> SUFFICES ASSUME Init PROVE AnswersInv
    OBVIOUS
<1>1. AuditInv
    BY AuditStart
<1>2. /\ file = FirstDoc /\ live = FirstDoc /\ undo = [i \in Ids |-> {}]
      /\ pc = [i \in Ids |-> "new"] /\ reply = [i \in Ids |-> "none"]
      /\ before = [i \in Ids |-> FirstDoc] /\ owner = [x \in Items |-> 0]
      /\ touched = [i \in Ids |-> {}] /\ restart = {} /\ taken = {} /\ ui = 0
      /\ was = [i \in Ids |-> [th |-> FirstDoc.th, hook |-> FirstDoc.hook, ui |-> 0, doc |-> FirstDoc]]
    BY DEF Init
<1>3. FirstDoc \in Doc /\ IsSealed(FirstDoc)
    BY DocAssumption DEF IsSealed
<1>4. Docs
  <2>1. FirstDoc.th \in Levels /\ FirstDoc.hook \in Hooks
      BY <1>3, DocFacts
  <2>2. was \in [Ids -> WasType]
      BY <1>2, <1>3, <2>1 DEF WasType
  <2> QED BY <1>2, <1>3, <2>2 DEF Docs
<1>5. HookInv
    BY <1>2 DEF HookInv, InForce
<1>6. DelInv
    BY <1>2 DEF DelInv
<1>7. DeviceInv
  <2>1. \A i \in Ids : pc[i] = "new"
      BY <1>2
  <2>2. \A k \in Keys : Effective(k) = FirstDoc.dev[k]
      BY <1>2, <2>1 DEF Effective, Pending
  <2>3. \A i \in Ids : ~Open(i)
      BY <2>1 DEF Open
  <2> QED BY <1>2, <1>3, <2>2, <2>3 DEF DeviceInv, Fits, IsSealed
<1>8. OwnerInv
  <2>1. 0 \notin Ids
      BY PlansAssumption DEF Init, Ids
  <2>2. \A i \in Ids : pc[i] = "new" /\ ~Open(i)
      BY <1>2 DEF Open
  <2> QED BY <1>2, <2>1, <2>2, ItemFacts DEF OwnerInv, HookSteps
<1> QED BY <1>1, <1>4, <1>5, <1>6, <1>7, <1>8 DEF AnswersInv

\* Nothing but the event file and the trail changes.
LEMMA AnswersKeep ==
    ASSUME AnswersInv, AuditInv',
           UNCHANGED <<req, file, live, ui, deviceMu, pc, reply, before, was, undo, owner, touched,
                       restart, taken, broken>>
    PROVE  AnswersInv'
<1>1. Ids' = Ids /\ Items' = Items /\ WasType' = WasType
    BY DEF Ids, Items, WasType
<1>2. \A i \in Ids : /\ Op(i)' = Op(i) /\ Open(i)' = Open(i) /\ After(i)' = After(i)
                     /\ InForce(i)' = InForce(i) /\ Stands(i)' = Stands(i) /\ Target(i)' = Target(i)
    BY DEF Op, Open, After, InForce, Stands, Target
<1>3. \A i \in Ids, k \in Keys : Pending(i, k)' = Pending(i, k) /\ Changed(i, k)' = Changed(i, k)
    BY <1>2 DEF Pending, Changed, Op
<1>4. \A k \in Keys : Effective(k)' = Effective(k)
    BY <1>1, <1>3 DEF Effective, Target, Op
<1>5. Docs'
    BY <1>1 DEF AnswersInv, Docs, IsSealed
<1>6. HookInv'
    BY <1>1, <1>2 DEF AnswersInv, HookInv
<1>7. DelInv'
    BY <1>1, <1>2 DEF AnswersInv, DelInv
<1>8. DeviceInv'
  <2>1. Doomed' <=> Doomed
      BY <1>1 DEF Doomed
  <2>2. ASSUME NEW k \in Keys, NEW v, NEW x, Fits(k, v, x) PROVE Fits(k, v, x)'
      BY <1>1, <1>2, <1>3, <2>2 DEF Fits
  <2>3. ASSUME ~Doomed, NEW k \in Keys \ (restart \union taken)
        PROVE  /\ Fits(k, Effective(k), {})'
               /\ \A i \in Ids : Op(i) = "del" /\ Open(i) /\ req[i].key = k => Fits(k, NoDevice, {i})'
    <3>1. /\ Fits(k, Effective(k), {})
          /\ \A i \in Ids : Op(i) = "del" /\ Open(i) /\ req[i].key = k => Fits(k, NoDevice, {i})
        BY <2>3 DEF AnswersInv, DeviceInv
    <3>2. PICK v : v = Effective(k)
        OBVIOUS
    <3>3. Fits(k, v, {})'
        BY <2>2, <3>1, <3>2
    <3>4. Fits(k, Effective(k), {})'
        BY <1>4, <3>2, <3>3 DEF Fits
    <3> QED BY <2>2, <3>1, <3>4
  <2> QED BY <1>1, <1>2, <2>1, <2>3 DEF DeviceInv
<1>9. OwnerInv'
  <2>0. /\ OwnerInv
        /\ UNCHANGED <<file, pc, before, owner, touched>>
      BY DEF AnswersInv
  <2>1. \A i \in Ids, x \in Items : Wanted(i, x)' = Wanted(i, x) /\ Item(file, x)' = Item(file, x)
      BY <1>2 DEF Wanted, Item, Sealed, Op
  <2>2. (\A j \in Ids, x \in Items : owner[x] = j => pc[j] \notin Unwritten)'
      BY <1>1, <2>0 DEF OwnerInv
  <2>3. (\A j \in Ids, x \in Items : owner[x] = j /\ Stands(j) => Item(file, x) = Wanted(j, x))'
      BY <1>1, <1>2, <2>0, <2>1 DEF OwnerInv
  <2>4. (\A j \in Ids, x \in Items :
            Open(j) /\ x \notin touched[j] =>
                owner[x] = j \/ Item(before[j], x) = Item(Sealed(After(j)), x))'
    <3>1. \A j \in Ids, x \in Items : /\ Item(before[j], x)' = Item(before[j], x)
                                      /\ Item(Sealed(After(j)), x)' = Item(Sealed(After(j)), x)
        BY <1>2, <2>0 DEF Item, Sealed
    <3> QED BY <1>1, <1>2, <2>0, <3>1 DEF OwnerInv
  <2>5. (\A j \in Ids : pc[j] \in HookSteps => owner["hook"] = j \/ before[j].hook = file.hook)'
      BY <1>1, <2>0 DEF OwnerInv
  <2> QED BY <2>2, <2>3, <2>4, <2>5 DEF OwnerInv
<1> QED BY <1>5, <1>6, <1>7, <1>8, <1>9 DEF AnswersInv

\* A restart: the file is in force, and no request is under way.
LEMMA AnswersRestart == AnswersInv /\ AuditInv' /\ Restart => AnswersInv'
<1> SUFFICES ASSUME AnswersInv, AuditInv', Restart PROVE AnswersInv'
    OBVIOUS
<1>1. /\ live' = file /\ file' = file /\ before' = before /\ was' = was /\ undo' = undo /\ ui' = ui
      /\ owner' = owner /\ touched' = touched /\ req' = req /\ restart' = {} /\ taken' = {}
      /\ pc' = [i \in Ids |-> IF pc[i] = "new" THEN "new" ELSE "done"]
      /\ reply' = [i \in Ids |-> IF pc[i] = "done" THEN reply[i] ELSE "none"]
    BY DEF Restart
<1>2. Ids' = Ids /\ Items' = Items /\ WasType' = WasType
    BY <1>1 DEF Ids, Items, WasType
<1>3. \A i \in Ids : /\ pc'[i] \in {"new", "done"} /\ (pc'[i] = "new" => pc[i] = "new")
                     /\ (reply'[i] = "ok" => reply[i] = "ok")
    BY <1>1
<1>4. Docs'
    BY <1>1, <1>2 DEF AnswersInv, Docs, IsSealed
<1>5. HookInv'
    BY <1>1, <1>2, <1>3 DEF HookInv, InForce
<1>6. DelInv'
    BY <1>2, <1>3 DEF DelInv
<1>7. \A i \in Ids : ~Open(i)'
    BY <1>3 DEF Open
<1>8. DeviceInv'
  <2>1. \A k \in Keys : Effective(k)' = file.dev[k]
    <3>1. \A k \in Keys, i \in Ids : ~Pending(i, k)'
        BY <1>3 DEF Pending
    <3> QED BY <1>1, <1>2, <3>1 DEF Effective
  <2>2. \A k \in Keys : Seal[file.dev[k]] = file'.dev[k]
      BY <1>1 DEF AnswersInv, Docs, IsSealed
  <2>3. \A k \in Keys : Fits(k, Effective(k), {})'
      BY <1>2, <1>7, <2>1, <2>2 DEF Fits
  <2> QED BY <1>2, <1>7, <2>3 DEF DeviceInv
<1>9. OwnerInv'
  <2>1. \A i \in Ids : Stands(i)' => Stands(i)
      BY <1>3 DEF Stands
  <2>2. \A i \in Ids, x \in Items : Wanted(i, x)' = Wanted(i, x) /\ Item(file, x)' = Item(file, x)
      BY <1>1 DEF Wanted, Item, Sealed, Op
  <2>3. \A i \in Ids : pc'[i] \in Unwritten => pc[i] \in Unwritten
      BY <1>3 DEF Unwritten
  <2>4. \A i \in Ids : pc'[i] \notin HookSteps
      BY <1>3 DEF HookSteps
  <2>5. OwnerInv
      BY DEF AnswersInv
  <2>6. (\A j \in Ids, x \in Items : owner[x] = j => pc[j] \notin Unwritten)'
      BY <1>1, <1>2, <2>3, <2>5 DEF OwnerInv
  <2>7. (\A j \in Ids, x \in Items : owner[x] = j /\ Stands(j) => Item(file, x) = Wanted(j, x))'
      BY <1>1, <1>2, <2>1, <2>2, <2>5 DEF OwnerInv
  <2> QED BY <1>2, <1>7, <2>4, <2>6, <2>7 DEF OwnerInv
<1> QED BY <1>4, <1>5, <1>6, <1>8, <1>9 DEF AnswersInv

\* Every step of the system keeps the invariant.
LEMMA AnswersNext == AnswersInv /\ [Next]_vars => AnswersInv'
<1> SUFFICES ASSUME AnswersInv, [Next]_vars PROVE AnswersInv'
    OBVIOUS
<1>0. AuditInv'
    BY AuditNext DEF AnswersInv
<1>1. ASSUME NEW i \in Ids, Step(i) PROVE AnswersInv'
  <2>1. AuditInv /\ Docs /\ HookInv /\ DelInv /\ DeviceInv /\ OwnerInv
      BY DEF AnswersInv
  <2>2. Docs' /\ HookInv' /\ DelInv' /\ DeviceInv' /\ OwnerInv'
      BY <1>1, <2>1, DocsStep, HookStep, DelStep, DeviceStep, OwnerStep
  <2> QED BY <1>0, <2>2 DEF AnswersInv
<1>2. CASE LogEvent
    BY <1>0, <1>2, AnswersKeep DEF LogEvent
<1>3. CASE Restart
    BY <1>0, <1>3, AnswersRestart
<1>4. CASE UNCHANGED vars
    BY <1>0, <1>4, AnswersKeep DEF vars
<1> QED BY <1>1, <1>2, <1>3, <1>4 DEF Next

\* The invariant at rest.
LEMMA AnswersSafe == AnswersInv => AnswersHold
<1> SUFFICES ASSUME AnswersInv PROVE AnswersHold
    OBVIOUS
<1>1. NoSilentDivergence
  <2> SUFFICES ASSUME Quiescent, ~broken
               PROVE  /\ live.hook = file.hook
                      /\ \A k \in Keys \ (restart \union taken) : Seal[live.dev[k]] = file.dev[k]
      BY DEF NoSilentDivergence
  <2>1. \A i \in Ids : pc[i] = "done"
      BY DEF Quiescent
  <2>2. live.hook = file.hook
      BY <2>1 DEF AnswersInv, HookInv, NotifySteps
  <2>3. ~Doomed /\ \A i \in Ids : ~Open(i)
      BY <2>1 DEF Doomed, Open
  <2>4. \A k \in Keys : Effective(k) = live.dev[k]
      BY <2>1 DEF Effective, Pending
  <2>5. ASSUME NEW k \in Keys \ (restart \union taken) PROVE Seal[live.dev[k]] = file.dev[k]
    <3>1. Fits(k, Effective(k), {})
        BY <2>3 DEF AnswersInv, DeviceInv
    <3> QED BY <2>3, <2>4, <3>1 DEF Fits
  <2> QED BY <2>2, <2>5
<1>2. AcceptedChangeStays
    BY DEF AnswersInv, OwnerInv, Stands, Wanted, AcceptedChangeStays
<1> QED BY <1>1, <1>2 DEF AnswersHold

\* admin.go, backup.go: what the requests were told is what is in force.  Once all have
\* answered, the running devices and notification settings are those of the file, and an
\* accepted change stays in the file until another request changes the same item; the
\* exceptions are the ones AnswersHold names.
THEOREM AnswersAlwaysHold == Spec => []AnswersHold
<1> QED BY AnswersStart, AnswersNext, AnswersSafe, PTL DEF Spec

=============================================================================
