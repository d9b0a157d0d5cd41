------------------------------ MODULE AdminApi ------------------------------
(***************************************************************************)
(* The mutating requests of internal/httpapi (admin.go, backup.go,         *)
(* audit.go), each a goroutine of its own, over the config file, the       *)
(* running configuration, the console state and the audit trail.           *)
(*                                                                         *)
(* Device requests hold deviceMu and notification requests notifyMu for    *)
(* all their steps; threshold and import requests hold neither and meet    *)
(* the others only in Store, whose operations are atomic (module           *)
(* ConfigStore), and in the EventLog, whose RecordAudit may fail before or *)
(* after the record reached the file (module EventLog).                    *)
(***************************************************************************)
EXTENDS Integers, FiniteSets

CONSTANTS
    Keys,         \* devices
    Clusters,     \* those of the keys that are FT clusters; the others are edge devices
    Metas,        \* what the configuration says of a device
    Seal,         \* a device as the file stores it: plain credentials become references
    NoDevice,
    Levels,       \* usage thresholds
    Hooks,        \* notification settings
    Plans,        \* the requests of a run: functions from ids to Request
    FirstDoc,     \* the document in the config file at the first start
    MaxFaults,    \* bound on failed disk operations
    MaxCrashes    \* bound on restarts

Doc == [dev : [Keys -> Metas \union {NoDevice}], th : Levels, hook : Hooks]

\* A request: what it changes and to what.  An import carries a whole document.
Request ==
         [op : {"add", "put"}, key : Keys, to : Metas]
    \union [op : {"del"}, key : Keys]
    \union [op : {"thr"}, to : Levels]
    \union [op : {"notify"}, to : Hooks]
    \union [op : {"import"}, to : Doc]

\* The number 0 stands for nobody.
ASSUME PlansAssumption ==
    \A p \in Plans : 0 \notin DOMAIN p /\ \A i \in DOMAIN p : p[i] \in Request

ASSUME DocAssumption ==
    /\ FirstDoc \in Doc
    /\ {"th", "hook"} \cap Keys = {} /\ NoDevice \notin Metas
    /\ Clusters \subseteq Keys
    /\ Seal \in [Metas \union {NoDevice} -> Metas \union {NoDevice}]
    /\ Seal[NoDevice] = NoDevice
    /\ \A m \in Metas : Seal[m] # NoDevice /\ Seal[Seal[m]] = Seal[m]
    /\ \A k \in Keys : Seal[FirstDoc.dev[k]] = FirstDoc.dev[k]

ASSUME BoundsAssumption == MaxFaults \in Nat /\ MaxCrashes \in Nat

VARIABLES
    req,        \* the requests
    file,       \* the config file
    live,       \* Cfg.EdgeDevices, the poller's thresholds, the notifier's config
    ui,         \* the console state: the request that imported it, 0 the first
    trail,      \* the audit records EventLog.List shows
    saved,      \* the audit records in the event file
    deviceMu, notifyMu,
    pc, reply,  \* per request: its next step, and what it answered
    before,     \* per request: the document it read
    was,        \* per request: the running thresholds and notification settings, the
                \* console state and, when it restores a section, the document it read
    undo,       \* per request: which parts of a rollback failed
    tries,      \* per request: the attempts of restoreNotificationSection
    wrote,      \* ghost: requests whose document has been in the file
    owner,      \* ghost: per item of the document, the request that changed it last, 0 for
                \* none or when a rollback has taken the change of another request away
    touched,    \* ghost: per request that has replaced the file and is not yet committed,
                \* the items that others saved or changed since
    restart,    \* ghost: the devices that wait for a restart that was announced
    taken,      \* ghost: the devices whose saved change a rollback has taken away
    broken,     \* ghost: a failed rollback was answered or logged in this lifetime
    faults, crashes

vars == <<req, file, live, ui, trail, saved, deviceMu, notifyMu, pc, reply, before, was,
          undo, tries, wrote, owner, touched, restart, taken, broken, faults,
          crashes>>

Ids == DOMAIN req

Op(i) == req[i].op

Items == Keys \union {"th", "hook"}

Item(d, x) == IF x = "th" THEN d.th ELSE IF x = "hook" THEN d.hook ELSE d.dev[x]

Init ==
    /\ req \in Plans
    /\ file = FirstDoc
    /\ live = FirstDoc
    /\ ui = 0
    /\ trail = {}
    /\ saved = {}
    /\ deviceMu = 0
    /\ notifyMu = 0
    /\ pc = [i \in Ids |-> "new"]
    /\ reply = [i \in Ids |-> "none"]
    /\ before = [i \in Ids |-> FirstDoc]
    /\ was = [i \in Ids |-> [th |-> FirstDoc.th, hook |-> FirstDoc.hook, ui |-> 0,
                           doc |-> FirstDoc]]
    /\ undo = [i \in Ids |-> {}]
    /\ tries = [i \in Ids |-> 0]
    /\ wrote = {}
    /\ owner = [x \in Items |-> 0]
    /\ touched = [i \in Ids |-> {}]
    /\ restart = {}
    /\ taken = {}
    /\ broken = FALSE
    /\ faults = 0
    /\ crashes = 0

-----------------------------------------------------------------------------
(* The store, the locks and the audit trail, as the requests use them. *)

\* protectRequiredRawDocumentAt: the document the file gets for d.
Sealed(d) == [d EXCEPT !.dev = [k \in Keys |-> Seal[d.dev[k]]]]

\* The items in which the documents d and e differ.
Differ(d, e) == {x \in Items : Item(d, x) # Item(e, x)}

\* A request that has replaced the file and may still roll back.
Open(i) == pc[i] \in {"live", "ui", "commit", "rollback"}

Touch(xs) == touched' = [j \in Ids |-> IF Open(j) THEN touched[j] \union xs ELSE {}]

\* Store.rmw: the file becomes d, or it fails and nothing changes.
Write(i, d) ==
    LET e == Sealed(d)
        changed == Differ(file, e)
    IN  /\ file' = e
        /\ wrote' = wrote \union {i}
        /\ owner' = [x \in Items |-> IF x \in changed THEN i ELSE owner[x]]
        /\ Touch(changed \union IF Op(i) = "put" THEN {req[i].key} ELSE {})

NoWrite == UNCHANGED <<file, wrote, owner, touched>>

\* CompareAndReplaceDoc(expected, d) compares before it replaces.
Replaces(expected) == file = expected

Ok == UNCHANGED faults

Fail == faults < MaxFaults /\ faults' = faults + 1

Goto(i, step) ==
    /\ pc' = [pc EXCEPT ![i] = step]
    /\ UNCHANGED reply

Mut_AnswerKeepsLock(i, a) ==
    /\ pc' = [pc EXCEPT ![i] = "done"]
    /\ reply' = [reply EXCEPT ![i] = a]
    /\ deviceMu' = IF deviceMu = i /\ a = "ok" THEN 0 ELSE deviceMu
    /\ notifyMu' = IF notifyMu = i /\ a = "ok" THEN 0 ELSE notifyMu

\* The request answers; its deferred unlocks run.
Answer(i, a) ==
    /\ pc' = [pc EXCEPT ![i] = "done"]
    /\ reply' = [reply EXCEPT ![i] = a]
    /\ deviceMu' = IF deviceMu = i THEN 0 ELSE deviceMu
    /\ notifyMu' = IF notifyMu = i THEN 0 ELSE notifyMu

KeepLocks == UNCHANGED <<deviceMu, notifyMu>>

Record(i, phase) == [id |-> i, phase |-> phase]

\* RecordAudit: the file is rewritten with the record, and the record is kept.
Recorded(i, phase) ==
    /\ trail' = trail \union {Record(i, phase)}
    /\ saved' = trail'
    /\ Ok

\* RecordAudit returns an error: the record is dropped; the file may have been
\* replaced before the error.
NotRecorded(i, phase) ==
    /\ Fail
    /\ UNCHANGED trail
    /\ saved' \in {saved, trail \union {Record(i, phase)}}

Quiet == UNCHANGED <<trail, saved>>

\* What a request wants the file to hold, from the document it read.
After(i) ==
    LET d == before[i]
    IN  CASE Op(i) = "del"    -> [d EXCEPT !.dev[req[i].key] = NoDevice]
          [] Op(i) = "import" -> [d EXCEPT !.dev = req[i].to.dev, !.th = req[i].to.th]
          [] Op(i) = "notify" -> [d EXCEPT !.hook = req[i].to]

-----------------------------------------------------------------------------
(* PUT /api/admin/thresholds. *)

\* putThresholds writes the section, then sets the running value; nothing holds
\* the two together.
ThrSave(i) ==
    /\ pc[i] = "new" /\ Op(i) = "thr"
    /\ \/ Ok /\ Write(i, [file EXCEPT !.th = req[i].to]) /\ Goto(i, "apply") /\ KeepLocks
       \/ Fail /\ NoWrite /\ Answer(i, "error")
    /\ Quiet
    /\ UNCHANGED <<req, live, ui, before, was, undo, tries, restart, taken, broken, crashes>>

ThrApply(i) ==
    /\ pc[i] = "apply" /\ Op(i) = "thr"
    /\ live' = [live EXCEPT !.th = req[i].to]
    /\ Answer(i, "ok")
    /\ Ok /\ NoWrite /\ Quiet
    /\ UNCHANGED <<req, ui, before, was, undo, tries, restart, taken, broken, crashes>>

-----------------------------------------------------------------------------
(* POST and PUT /api/clusters: addDevice and doPut, under deviceMu. *)

\* addDevice refuses a key that runs; AddEntry one that the file holds.  An edge
\* device is then started; a cluster is answered with restart_required.
AddSave(i) ==
    LET k == req[i].key
    IN  /\ pc[i] = "new" /\ Op(i) = "add"
        /\ deviceMu = 0
        /\ \/ /\ live.dev[k] # NoDevice \/ file.dev[k] # NoDevice
              /\ Ok /\ NoWrite /\ Answer(i, "conflict") /\ UNCHANGED restart
           \/ /\ live.dev[k] = NoDevice /\ file.dev[k] = NoDevice
              /\ Ok /\ Write(i, [file EXCEPT !.dev[k] = req[i].to])
              /\ IF k \in Clusters
                 THEN Answer(i, "ok") /\ restart' = restart \union {k}
                 ELSE /\ deviceMu' = i
                      /\ Goto(i, "apply")
                      /\ UNCHANGED <<notifyMu, restart>>
           \/ Fail /\ NoWrite /\ Answer(i, "error") /\ UNCHANGED restart
        /\ Quiet
        /\ UNCHANGED <<req, live, ui, before, was, undo, tries, taken, broken, crashes>>

\* doPut edits a device that runs; UpdateDisplayMeta fails on one the file lost.
PutSave(i) ==
    LET k == req[i].key
    IN  /\ pc[i] = "new" /\ Op(i) = "put"
        /\ deviceMu = 0
        /\ \/ /\ live.dev[k] = NoDevice \/ file.dev[k] = NoDevice
              /\ Ok /\ NoWrite /\ Answer(i, "error")
           \/ /\ live.dev[k] # NoDevice /\ file.dev[k] # NoDevice
              /\ Ok /\ Write(i, [file EXCEPT !.dev[k] = req[i].to])
              /\ deviceMu' = i /\ UNCHANGED notifyMu
              /\ Goto(i, "apply")
           \/ Fail /\ NoWrite /\ Answer(i, "error")
        /\ Quiet
        /\ UNCHANGED <<req, live, ui, before, was, undo, tries, restart, taken, broken, crashes>>

\* The running configuration and the edge worker follow the file.
DeviceApply(i) ==
    /\ pc[i] = "apply" /\ Op(i) \in {"add", "put", "del"}
    /\ live' = [live EXCEPT !.dev[req[i].key] = IF Op(i) = "del" THEN NoDevice ELSE req[i].to]
    /\ Answer(i, "ok")
    /\ Ok /\ NoWrite /\ Quiet
    /\ UNCHANGED <<req, ui, before, was, undo, tries, restart, taken, broken, crashes>>

-----------------------------------------------------------------------------
(* DELETE /api/clusters and POST /api/admin/config/import: audited. *)

\* A cluster is not deleted through the API; a device that does not run, or that the
\* file does not hold, cannot be.
DelRead(i) ==
    LET k == req[i].key
        there == k \notin Clusters /\ live.dev[k] # NoDevice /\ file.dev[k] # NoDevice
    IN  /\ pc[i] = "new" /\ Op(i) = "del"
        /\ deviceMu = 0
        /\ \/ ~there /\ Ok /\ Answer(i, "conflict") /\ UNCHANGED before
           \/ Fail /\ Answer(i, "error") /\ UNCHANGED before
           \/ /\ there /\ Ok
              /\ before' = [before EXCEPT ![i] = file]
              /\ deviceMu' = i /\ UNCHANGED notifyMu /\ Goto(i, "prepare")
        /\ NoWrite /\ Quiet
        /\ UNCHANGED <<req, live, ui, was, undo, tries, restart, taken, broken, crashes>>

\* handleConfigImport reads the document it checks the backup against; only devices
\* and thresholds are taken over.
ImportRead(i) ==
    /\ pc[i] = "new" /\ Op(i) = "import"
    /\ \/ /\ Ok
          /\ before' = [before EXCEPT ![i] = file]
          /\ Goto(i, "snapshot") /\ KeepLocks
       \/ Fail /\ Answer(i, "error") /\ UNCHANGED before
    /\ NoWrite /\ Quiet
    /\ UNCHANGED <<req, live, ui, was, undo, tries, restart, taken, broken, crashes>>

\* The running thresholds and the console state it may have to restore.
ImportSnapshot(i) ==
    /\ pc[i] = "snapshot"
    /\ \/ /\ Ok
          /\ was' = [was EXCEPT ![i].th = live.th, ![i].ui = ui]
          /\ Goto(i, "prepare") /\ KeepLocks
       \/ Fail /\ Answer(i, "error") /\ UNCHANGED was
    /\ NoWrite /\ Quiet
    /\ UNCHANGED <<req, live, ui, before, undo, tries, restart, taken, broken, crashes>>

Mut_PrepareAnyway(i) ==
    /\ pc[i] = "prepare"
    /\ Recorded(i, "prepared") \/ NotRecorded(i, "prepared")
    /\ Goto(i, "replace") /\ KeepLocks
    /\ NoWrite
    /\ UNCHANGED <<req, live, ui, before, was, undo, tries, restart, taken, broken, crashes>>

\* prepareMutationAudit: without its record the mutation is refused.
Prepare(i) ==
    /\ pc[i] = "prepare"
    /\ \/ Recorded(i, "prepared") /\ Goto(i, "replace") /\ KeepLocks
       \/ NotRecorded(i, "prepared") /\ Answer(i, "refused")
    /\ NoWrite
    /\ UNCHANGED <<req, live, ui, before, was, undo, tries, restart, taken, broken, crashes>>

Replace(i) ==
    /\ pc[i] = "replace"
    /\ \/ /\ Replaces(before[i]) /\ Ok
          /\ Write(i, After(i))
          /\ Goto(i, IF Op(i) = "import" THEN "live" ELSE "commit")
       \/ ~Replaces(before[i]) /\ Ok /\ NoWrite /\ Goto(i, "failed")
       \/ Fail /\ NoWrite /\ Goto(i, "failed")
    /\ KeepLocks /\ Quiet
    /\ UNCHANGED <<req, live, ui, before, was, undo, tries, restart, taken, broken, crashes>>

\* The "failed" record is best effort.
Failed(i) ==
    /\ pc[i] = "failed"
    /\ Recorded(i, "failed") \/ NotRecorded(i, "failed")
    /\ Answer(i, "error")
    /\ NoWrite
    /\ UNCHANGED <<req, live, ui, before, was, undo, tries, restart, taken, broken, crashes>>

ImportLive(i) ==
    /\ pc[i] = "live"
    /\ live' = [live EXCEPT !.th = req[i].to.th]
    /\ Goto(i, "ui")
    /\ KeepLocks /\ Ok /\ NoWrite /\ Quiet
    /\ UNCHANGED <<req, ui, before, was, undo, tries, restart, taken, broken, crashes>>

\* ImportUIState replaces four files one after another: a failure may leave some of
\* each.
ImportUI(i) ==
    /\ pc[i] = "ui"
    /\ \/ Ok /\ ui' = i /\ Goto(i, "commit")
       \/ Fail /\ ui' \in {ui, -1} /\ Goto(i, "rollback")
    /\ KeepLocks /\ NoWrite /\ Quiet
    /\ UNCHANGED <<req, live, before, was, undo, tries, restart, taken, broken, crashes>>

\* The "committed" record: without it the mutation is rolled back.
Commit(i) ==
    /\ pc[i] = "commit"
    /\ \/ /\ Recorded(i, "committed")
          /\ IF Op(i) = "del"
             THEN Goto(i, "apply") /\ KeepLocks /\ UNCHANGED restart
             ELSE /\ Answer(i, "ok")
                  /\ restart' = restart \union {k \in Keys : before[i].dev[k] # req[i].to.dev[k]}
       \/ /\ NotRecorded(i, "committed")
          /\ Goto(i, "rollback") /\ KeepLocks /\ UNCHANGED restart
    /\ NoWrite
    /\ UNCHANGED <<req, live, ui, before, was, undo, tries, taken, broken, crashes>>

\* The document that request i read comes back, and with it each item that another
\* request saved since and left as i had written it.
TakeBack(i) ==
    LET changed == Differ(file, before[i])
        lost == changed \cap touched[i]
    IN  /\ file' = before[i]
        /\ owner' = [x \in Items |-> IF x \in lost THEN 0 ELSE owner[x]]
        /\ taken' = taken \union (lost \cap Keys)
        /\ Touch(changed)
        /\ UNCHANGED wrote

Mut_RollbackBlind(i) ==
    /\ pc[i] = "rollback"
    /\ Ok /\ file' = before[i] /\ UNCHANGED <<wrote, owner, touched, taken, undo>>
    /\ Goto(i, IF Op(i) = "import" THEN "uiback" ELSE "undone")
    /\ KeepLocks /\ Quiet
    /\ UNCHANGED <<req, live, ui, before, was, tries, restart, broken, crashes>>

\* The document that was read comes back, unless the file changed meanwhile.
Rollback(i) ==
    /\ pc[i] = "rollback"
    /\ \/ Replaces(After(i)) /\ Ok /\ TakeBack(i) /\ UNCHANGED undo
       \/ /\ (Ok /\ ~Replaces(After(i))) \/ Fail
          /\ NoWrite /\ undo' = [undo EXCEPT ![i] = @ \union {"config"}] /\ UNCHANGED taken
    /\ Goto(i, IF Op(i) = "import" THEN "uiback" ELSE "undone")
    /\ KeepLocks /\ Quiet
    /\ UNCHANGED <<req, live, ui, before, was, tries, restart, broken, crashes>>

\* An import also restores the console state and, if the document came back, the
\* running thresholds.
ImportUIBack(i) ==
    /\ pc[i] = "uiback"
    /\ \/ Ok /\ ui' = was[i].ui /\ UNCHANGED undo
       \/ Fail /\ ui' \in {ui, -1} /\ undo' = [undo EXCEPT ![i] = @ \union {"ui"}]
    /\ live' = IF "config" \in undo[i] THEN live ELSE [live EXCEPT !.th = was[i].th]
    /\ Goto(i, "undone")
    /\ KeepLocks /\ NoWrite /\ Quiet
    /\ UNCHANGED <<req, before, was, tries, restart, taken, broken, crashes>>

\* A complete rollback is recorded, best effort; an incomplete one only answered.
Undone(i) ==
    /\ pc[i] = "undone"
    /\ IF undo[i] = {}
       THEN /\ Recorded(i, "rolled_back") \/ NotRecorded(i, "rolled_back")
            /\ Answer(i, "rolledback")
            /\ UNCHANGED broken
       ELSE /\ Answer(i, "broken")
            /\ broken' = TRUE
            /\ Ok /\ Quiet
    /\ NoWrite
    /\ UNCHANGED <<req, live, ui, before, was, undo, tries, restart, taken, crashes>>

-----------------------------------------------------------------------------
(* PUT /api/admin/notifications, under notifyMu. *)

NotifyRead(i) ==
    /\ pc[i] = "new" /\ Op(i) = "notify"
    /\ notifyMu = 0
    /\ \/ /\ Ok
          /\ notifyMu' = i /\ UNCHANGED deviceMu
          /\ before' = [before EXCEPT ![i] = file]
          /\ was' = [was EXCEPT ![i].hook = live.hook]
          /\ Goto(i, "save")
       \/ Fail /\ Answer(i, "error") /\ UNCHANGED <<before, was>>
    /\ NoWrite /\ Quiet
    /\ UNCHANGED <<req, live, ui, undo, tries, restart, taken, broken, crashes>>

NotifySave(i) ==
    /\ pc[i] = "save"
    /\ \/ Replaces(before[i]) /\ Ok /\ Write(i, After(i)) /\ Goto(i, "update") /\ KeepLocks
       \/ ~Replaces(before[i]) /\ Ok /\ NoWrite /\ Answer(i, "error")
       \/ Fail /\ NoWrite /\ Answer(i, "error")
    /\ Quiet
    /\ UNCHANGED <<req, live, ui, before, was, undo, tries, restart, taken, broken, crashes>>

\* Engine.UpdateConfig is transactional: an error leaves the running config alone.
NotifyUpdate(i) ==
    /\ pc[i] = "update"
    /\ \/ Ok /\ live' = [live EXCEPT !.hook = req[i].to] /\ Answer(i, "ok")
       \/ Fail /\ UNCHANGED live /\ Goto(i, "restore") /\ KeepLocks
    /\ NoWrite /\ Quiet
    /\ UNCHANGED <<req, ui, before, was, undo, tries, restart, taken, broken, crashes>>

\* restoreNotificationSection reads the file and replaces the section in what it read;
\* checkpointRestoredConfig then reads the file and writes it again.  Another request
\* may come between a read and its write, and each gives up after three attempts.
RestoreRead(i) ==
    /\ pc[i] \in {"restore", "checkpoint"}
    /\ \/ /\ Ok
          /\ was' = [was EXCEPT ![i].doc = file]
          /\ tries' = [tries EXCEPT ![i] = @ + 1]
          /\ Goto(i, IF pc[i] = "restore" THEN "restoring" ELSE "checkpointing")
          /\ UNCHANGED undo
       \/ /\ Fail /\ UNCHANGED <<was, tries>>
          /\ undo' = [undo EXCEPT ![i] = @ \union {"config"}]
          /\ Goto(i, "runtime")
    /\ KeepLocks /\ NoWrite /\ Quiet
    /\ UNCHANGED <<req, live, ui, before, restart, taken, broken, crashes>>

RestoreWrite(i) ==
    LET current == was[i].doc
        section == pc[i] = "restoring"
    IN  /\ pc[i] \in {"restoring", "checkpointing"}
        /\ \/ /\ Replaces(current) /\ Ok
              /\ file' = IF section THEN [current EXCEPT !.hook = before[i].hook] ELSE file
              /\ tries' = [tries EXCEPT ![i] = 0]
              /\ UNCHANGED <<wrote, owner, touched, undo>>
              /\ Goto(i, IF section THEN "checkpoint" ELSE "runtime")
           \/ /\ ~Replaces(current) /\ Ok /\ tries[i] < 3
              /\ NoWrite /\ UNCHANGED <<tries, undo>>
              /\ Goto(i, IF section THEN "restore" ELSE "checkpoint")
           \/ /\ (~Replaces(current) /\ Ok /\ tries[i] = 3) \/ Fail
              /\ NoWrite /\ UNCHANGED tries
              /\ undo' = [undo EXCEPT ![i] = @ \union {"config"}]
              /\ Goto(i, "runtime")
        /\ KeepLocks /\ Quiet
        /\ UNCHANGED <<req, live, ui, before, was, restart, taken, broken, crashes>>

\* The engine gets its old settings once more; a failure of either part is only logged.
NotifyUndone(i) ==
    /\ pc[i] = "runtime"
    /\ \/ Ok /\ live' = [live EXCEPT !.hook = was[i].hook] /\ broken' = (broken \/ undo[i] # {})
       \/ Fail /\ UNCHANGED live /\ broken' = TRUE
    /\ Answer(i, "rolledback")
    /\ NoWrite /\ Quiet
    /\ UNCHANGED <<req, ui, before, was, undo, tries, restart, taken, crashes>>

-----------------------------------------------------------------------------

\* EventLog.Add of a device event, which may come at any time: a file that a failed
\* audit left behind is rewritten from memory.
LogEvent ==
    /\ saved' = trail
    /\ UNCHANGED <<req, file, live, ui, trail, deviceMu, notifyMu, pc, reply, before, was,
                   undo, tries, wrote, owner, touched, restart, taken, broken, faults,
                   crashes>>

\* The process ends and starts again from its files; requests in flight are gone.
Restart ==
    /\ crashes < MaxCrashes
    /\ crashes' = crashes + 1
    /\ live' = file
    /\ trail' = saved
    /\ deviceMu' = 0
    /\ notifyMu' = 0
    /\ pc' = [i \in Ids |-> IF pc[i] = "new" THEN "new" ELSE "done"]
    /\ reply' = [i \in Ids |-> IF pc[i] = "done" THEN reply[i] ELSE "none"]
    /\ restart' = {}
    /\ taken' = {}
    /\ broken' = FALSE
    /\ UNCHANGED <<req, file, ui, saved, before, was, undo, tries, wrote, owner, touched,
                   faults>>

Step(i) ==
    \/ ThrSave(i) \/ ThrApply(i)
    \/ AddSave(i) \/ PutSave(i) \/ DeviceApply(i)
    \/ DelRead(i) \/ ImportRead(i) \/ ImportSnapshot(i)
    \/ Prepare(i) \/ Replace(i) \/ Failed(i)
    \/ ImportLive(i) \/ ImportUI(i)
    \/ Commit(i) \/ Rollback(i) \/ ImportUIBack(i) \/ Undone(i)
    \/ NotifyRead(i) \/ NotifySave(i) \/ NotifyUpdate(i)
    \/ RestoreRead(i) \/ RestoreWrite(i) \/ NotifyUndone(i)

Next ==
    \/ \E i \in Ids : Step(i)
    \/ LogEvent
    \/ Restart

Spec == Init /\ [][Next]_vars

\* A goroutine that can run does.
FairSpec == Spec /\ \A i \in UNION {DOMAIN p : p \in Plans} : WF_vars(i \in Ids /\ Step(i))

-----------------------------------------------------------------------------
(* Properties. *)

\* The variables keep their types, and a mutex is held by the request that needs it.
TypeOK ==
    /\ file \in Doc /\ live \in Doc
    /\ ui \in Ids \union {0, -1}
    /\ deviceMu = 0 \/ Op(deviceMu) \in {"add", "put", "del"}
    /\ notifyMu = 0 \/ Op(notifyMu) = "notify"
    /\ before \in [Ids -> Doc]
    /\ undo \in [Ids -> SUBSET {"config", "ui"}]
    /\ tries \in [Ids -> 0..3]
    /\ wrote \subseteq Ids
    /\ owner \in [Items -> Ids \union {0}]
    /\ touched \in [Ids -> SUBSET Items]
    /\ restart \subseteq Keys /\ taken \subseteq Keys
    /\ broken \in BOOLEAN
    /\ faults \in 0..MaxFaults /\ crashes \in 0..MaxCrashes

Audited(i) == Op(i) \in {"del", "import"}

\* No destructive change reaches the config file before its "prepared" record is in the
\* event file, and the record stays there, whatever fails or restarts afterwards.
AuditPrecedesChange ==
    \A i \in wrote : Audited(i) => Record(i, "prepared") \in saved

\* A destructive request that answered ok has its "committed" record in the event file
\* and in what the console lists, also after a restart.
OkIsRecorded ==
    \A i \in Ids : Audited(i) /\ reply[i] = "ok" => Record(i, "committed") \in trail \cap saved

\* The audit trail brackets every destructive change.
AuditBrackets == AuditPrecedesChange /\ OkIsRecorded

Quiescent == \A i \in Ids : pc[i] = "done"

\* Once every request has answered, the running devices and notification settings are
\* those of the config file, unless a rollback was reported as failed or a restart was
\* announced.  The one exception is a device that was saved while an import or a deletion
\* could still roll back, and so that the file was again what that request had written:
\* its rollback compares by value and takes the save away (CompareAndReplaceDoc).
NoSilentDivergence ==
    Quiescent /\ ~broken =>
        /\ live.hook = file.hook
        /\ \A k \in Keys \ (restart \union taken) : Seal[live.dev[k]] = file.dev[k]

\* A change that was answered ok stays in the config file until another request changes
\* the same item: no rollback of another request takes it away, but for that exception.
AcceptedChangeStays ==
    \A i \in Ids, x \in Items :
        reply[i] = "ok" /\ owner[x] = i =>
            Item(file, x) = CASE Op(i) = "del"             -> NoDevice
                              [] Op(i) = "import"          -> Item(Sealed(req[i].to), x)
                              [] Op(i) \in {"add", "put"}  -> Seal[req[i].to]
                              [] OTHER                     -> req[i].to

\* What the requests were told is what is in force: in the file and at run time.
AnswersHold == NoSilentDivergence /\ AcceptedChangeStays

\* Every request is answered: no path keeps a mutex, and restoring a section ends.
EveryRequestAnswered == <>Quiescent

=============================================================================
