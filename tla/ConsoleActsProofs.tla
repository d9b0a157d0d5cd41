------------------------- MODULE ConsoleActsProofs --------------------------
(***************************************************************************)
(* Theorems about what the operator does in the console: the operations of *)
(* the shell and their undo, the settings page and the device forms; and   *)
(* about the model behind every screen.  Each holds for any number of      *)
(* operations, requests in flight, polls and remote changes.               *)
(***************************************************************************)
EXTENDS ConsoleOps, ConsoleSettings, ConsoleForms, ConsoleDesk, SequenceTheorems, TLAPS

(***************************************************************************)
(* The shell.                                                              *)
(***************************************************************************)

Marking == [Slots -> Writers \cup {NoOne}]

\* An undo is for some slots and holds what was there; a toast may offer one.
Undos == {NoUndo} \cup [offered : {TRUE}, slots : SUBSET Slots, prev : Marking]
Toasts == {NoToast} \cup [shown : {TRUE}, undo : Undos]
OpNames == {"ackAlert", "ackAllVisible", "ackClearAll", "ackGroup", "maintSet"}
Dialogs == {NoDialog} \cup [open : {TRUE}, op : OpNames, slots : SUBSET Slots, says : {"set", "remove"}, seen : Marking]

OpsTypes ==
    ops \in [map : Marking, demo : BOOLEAN, dialog : Dialogs, toast : Toasts, before : Marking,
             since : BOOLEAN, n : Nat]

OpsInv == OpsTypes /\ UndoRestores

\* An open dialog, and a toast that offers an undo, have the rest of their fields.
LEMMA OpenShapes ==
    /\ \A d \in Dialogs : d.open => d.slots \in SUBSET Slots
    /\ \A x \in Toasts : x.shown => x.undo \in Undos
    /\ \A u \in Undos : u.offered => u.slots \in SUBSET Slots /\ u.prev \in Marking
    /\ NoDialog.open = FALSE /\ NoToast.shown = FALSE /\ NoUndo.offered = FALSE
<1>1. NoDialog.open = FALSE /\ NoToast.shown = FALSE /\ NoUndo.offered = FALSE
    BY DEF NoDialog, NoToast, NoUndo
<1>2. ASSUME NEW d \in Dialogs, d.open PROVE d.slots \in SUBSET Slots
    <2>1. d # NoDialog
        BY <1>1, <1>2
    <2> QED BY <2>1 DEF Dialogs
<1>3. ASSUME NEW x \in Toasts, x.shown PROVE x.undo \in Undos
    <2>1. x # NoToast
        BY <1>1, <1>3
    <2> QED BY <2>1 DEF Toasts
<1>4. ASSUME NEW u \in Undos, u.offered PROVE u.slots \in SUBSET Slots /\ u.prev \in Marking
    <2>1. u # NoUndo
        BY <1>1, <1>4
    <2> QED BY <2>1 DEF Undos
<1> QED BY <1>1, <1>2, <1>3, <1>4

\* The dialog carries what it was opened for; the marks are left alone.
LEMMA DialogOpens ==
    ASSUME OpsInv, NEW op \in OpNames, NEW slots \in SUBSET Slots, NEW says \in {"set", "remove"},
           Dialog(op, slots, says)
    PROVE  OpsInv'
<1> DEFINE d == [open |-> TRUE, op |-> op, slots |-> slots, says |-> says, seen |-> ops.map]
<1>1. d \in Dialogs
    BY DEF OpsInv, OpsTypes, Dialogs
<1>2. ops' = [ops EXCEPT !.dialog = d, !.n = @ + 1]
    BY DEF Dialog
<1> HIDE DEF d
<1>0. ops.n + 1 \in Nat
    BY DEF OpsInv, OpsTypes
<1>3. OpsTypes' /\ ops'.map = ops.map /\ ops'.toast = ops.toast /\ ops'.since = ops.since /\ ops'.before = ops.before
    BY <1>0, <1>1, <1>2 DEF OpsInv, OpsTypes
<1> QED BY <1>3 DEF OpsInv, UndoRestores, Undone

\* ackAlert, ackAllVisible, ackClearAll, ackGroup and maintSet all open it.
LEMMA AsksKeep ==
    ASSUME OpsInv,
           \/ \E k \in AckKeys : ackAlert(k)
           \/ ackAllVisible \/ ackClearAll
           \/ \E keys \in SUBSET AckKeys : ackGroup(keys)
           \/ \E id \in MaintIds, on \in BOOLEAN : maintSet(id, on)
    PROVE  OpsInv'
<1>1. ASSUME NEW k \in AckKeys, ackAlert(k) PROVE OpsInv'
    <2>1. Dialog("ackAlert", {k}, IF ops.map[k] # NoOne THEN "remove" ELSE "set") /\ {k} \in SUBSET Slots
        BY <1>1 DEF ackAlert, Ask, Slots
    <2> QED BY <2>1, DialogOpens DEF OpNames
<1>2. CASE ackAllVisible
    <2>1. Dialog("ackAllVisible", bulkAckKeys(FALSE), "set") /\ bulkAckKeys(FALSE) \in SUBSET Slots
        BY <1>2 DEF ackAllVisible, Ask, bulkAckKeys, Slots
    <2> QED BY <2>1, DialogOpens DEF OpNames
<1>3. CASE ackClearAll
    <2>1. Dialog("ackClearAll", bulkAckKeys(TRUE), "remove") /\ bulkAckKeys(TRUE) \in SUBSET Slots
        BY <1>3 DEF ackClearAll, Ask, bulkAckKeys, Slots
    <2> QED BY <2>1, DialogOpens DEF OpNames
<1>4. ASSUME NEW keys \in SUBSET AckKeys, ackGroup(keys) PROVE OpsInv'
    <2> DEFINE says == IF \A k \in keys : ops.map[k] # NoOne THEN "remove" ELSE "set"
    <2>1. Dialog("ackGroup", keys, says) /\ keys \in SUBSET Slots /\ says \in {"set", "remove"}
        BY <1>4 DEF ackGroup, Slots
    <2> HIDE DEF says
    <2> QED BY <2>1, DialogOpens DEF OpNames
<1>5. ASSUME NEW id \in MaintIds, NEW on \in BOOLEAN, maintSet(id, on) PROVE OpsInv'
    <2>1. Dialog("maintSet", {id}, IF on THEN "set" ELSE "remove") /\ {id} \in SUBSET Slots
        BY <1>5 DEF maintSet, Ask, Slots
    <2> QED BY <2>1, DialogOpens DEF OpNames
<1> QED BY <1>1, <1>2, <1>3, <1>4, <1>5

\* Approving: the toast's undo holds what the operation found, slot by slot.
LEMMA ConfirmKeeps == OpsInv /\ Confirm => OpsInv'
<1> SUFFICES ASSUME OpsInv, Confirm PROVE OpsInv'
    OBVIOUS
<1> DEFINE d == ops.dialog
<1>1. d.open /\ d \in Dialogs /\ ops.map \in Marking
    BY DEF Confirm, OpsInv, OpsTypes
<1>2. d.slots \in SUBSET Slots
    BY <1>1, OpenShapes
<1>3. PICK u \in {Undo(d.slots, ops.map), NoUndo} :
        ops' = [ops EXCEPT !.map = Carried(d), !.dialog = NoDialog, !.before = ops.map, !.since = FALSE,
                           !.toast = Toast(u)]
    BY DEF Confirm, Previous
<1>4. Carried(d) \in Marking /\ \A s \in Slots \ d.slots : Carried(d)[s] = ops.map[s]
    BY <1>1 DEF Carried, Entry, Marking, Writers
<1>5. u \in Undos /\ Toast(u) \in Toasts /\ Toast(u).undo = u
    <2>1. Undo(d.slots, ops.map) \in Undos
        BY <1>1, <1>2 DEF Undo, Undos
    <2>2. u \in Undos
        BY <1>3, <2>1 DEF Undos
    <2> QED BY <2>2 DEF Toast, Toasts
<1>6. NoDialog \in Dialogs
    BY DEF Dialogs
<1> HIDE DEF d
<1>7. OpsTypes' /\ ops'.map = Carried(d) /\ ops'.before = ops.map /\ ops'.toast = Toast(u)
    BY <1>1, <1>3, <1>4, <1>5, <1>6 DEF OpsInv, OpsTypes
<1>8. UndoRestores'
    <2> SUFFICES ASSUME u.offered
                 PROVE  [s \in Slots |-> IF s \in u.slots THEN u.prev[s] ELSE Carried(d)[s]] = ops.map
        BY <1>5, <1>7 DEF UndoRestores, Undone
    <2>1. u.slots = d.slots /\ u.prev = ops.map
        BY <1>3, OpenShapes DEF Undo
    <2> QED BY <1>1, <1>4, <2>1 DEF Marking
<1> QED BY <1>7, <1>8 DEF OpsInv

\* The undo is taken once: the toast that follows offers none.
LEMMA UndoKeeps == OpsInv /\ toastUndo => OpsInv'
<1> SUFFICES ASSUME OpsInv, toastUndo PROVE OpsInv'
    OBVIOUS
<1> DEFINE u == ops.toast.undo
<1>1. u \in Undos /\ u.offered /\ ops.map \in Marking
    BY OpenShapes DEF toastUndo, OpsInv, OpsTypes
<1>2. Undone(u) \in Marking
    <2>1. u.slots \in SUBSET Slots /\ u.prev \in Marking
        BY <1>1, OpenShapes
    <2> HIDE DEF u
    <2> QED BY <1>1, <2>1 DEF Undone, Marking
<1>3. Toast(NoUndo) \in Toasts /\ ~Toast(NoUndo).undo.offered
    BY DEF Toast, Toasts, Undos, NoUndo
<1>4. ops' = [ops EXCEPT !.map = Undone(u), !.toast = Toast(NoUndo)]
    BY DEF toastUndo
<1>5. OpsTypes' /\ ops'.toast = Toast(NoUndo)
    BY <1>2, <1>3, <1>4 DEF OpsInv, OpsTypes
<1> QED BY <1>3, <1>5 DEF OpsInv, UndoRestores

\* Cancelling, the toast's timer, the sample fleet, and what other consoles write.
LEMMA OthersKeep ==
    ASSUME OpsInv, \/ Cancel \/ ToastTimer \/ Demo
                   \/ \E s \in Slots, w \in {NoOne, "peer"} : Remote(s, w)
    PROVE  OpsInv'
<1>0. NoDialog \in Dialogs /\ NoToast \in Toasts /\ ~NoToast.shown
    BY DEF Dialogs, Toasts, NoToast
<1>1. CASE Cancel \/ Demo
    <2>1. OpsTypes' /\ ops'.map = ops.map /\ ops'.toast = ops.toast
          /\ ops'.since = ops.since /\ ops'.before = ops.before
        BY <1>0, <1>1 DEF Cancel, Demo, OpsInv, OpsTypes
    <2> QED BY <2>1 DEF OpsInv, UndoRestores, Undone
<1>2. CASE ToastTimer
    <2>1. OpsTypes' /\ ops'.toast = NoToast
        BY <1>0, <1>2 DEF ToastTimer, OpsInv, OpsTypes
    <2> QED BY <1>0, <2>1 DEF OpsInv, UndoRestores
<1>3. ASSUME NEW s \in Slots, NEW w \in {NoOne, "peer"}, Remote(s, w) PROVE OpsInv'
    <2>1. ops' = [ops EXCEPT !.map = [ops.map EXCEPT ![s] = w], !.since = TRUE, !.n = @ + 1]
        BY <1>3 DEF Remote, OpsInv, OpsTypes
    <2>2. [ops.map EXCEPT ![s] = w] \in Marking
        BY DEF OpsInv, OpsTypes, Marking, Writers
    <2>0. ops.n + 1 \in Nat
        BY DEF OpsInv, OpsTypes
    <2>3. OpsTypes' /\ ops'.since = TRUE
        BY <2>0, <2>1, <2>2 DEF OpsInv, OpsTypes
    <2> QED BY <2>3 DEF OpsInv, UndoRestores
<1> QED BY <1>1, <1>2, <1>3

\* Whatever dialogs, toasts, polls and remote writes came before: as long as no other
\* console wrote since, the undo on the screen brings back what the operation found.
THEOREM UndoBringsBack == OpsInit /\ [][OpsNext]_ops => []UndoRestores
<1>1. OpsInit => OpsInv
    <2> SUFFICES ASSUME OpsInit PROVE OpsInv
        OBVIOUS
    <2>1. PICK m \in [Slots -> {NoOne, "peer"}] :
            ops = [map |-> m, demo |-> FALSE, dialog |-> NoDialog, toast |-> NoToast, before |-> m,
                   since |-> FALSE, n |-> 0]
        BY DEF OpsInit
    <2>2. m \in Marking /\ NoDialog \in Dialogs /\ NoToast \in Toasts /\ ~NoToast.shown
        BY DEF Marking, Writers, Dialogs, Toasts, NoToast
    <2> QED BY <2>1, <2>2 DEF OpsInv, OpsTypes, UndoRestores
<1>2. OpsInv /\ [OpsNext]_ops => OpsInv'
    <2> SUFFICES ASSUME OpsInv, [OpsNext]_ops PROVE OpsInv'
        OBVIOUS
    <2>1. CASE UNCHANGED ops
        BY <2>1 DEF OpsInv, OpsTypes, UndoRestores, Undone
    <2>2. CASE OpsNext
        BY <2>2, AsksKeep, ConfirmKeeps, UndoKeeps, OthersKeep DEF OpsNext
    <2> QED BY <2>1, <2>2
<1>3. OpsInv => UndoRestores
    BY DEF OpsInv
<1> QED BY <1>1, <1>2, <1>3, PTL

(***************************************************************************)
(* The settings page.                                                      *)
(***************************************************************************)

HourSet == Hours \cup {0}
RtSet == Runtimes \cup {"none"}
CfgSet == [loaded : BOOLEAN, error : BOOLEAN, on : BOOLEAN, set : BOOLEAN, hours : HourSet, rt : RtSet]
SrvSet == [on : BOOLEAN, set : BOOLEAN, hours : HourSet]
BodySet == [on : BOOLEAN, url : BOOLEAN, hours : HourSet]
ViewSet == [served : {TRUE}, on : BOOLEAN, set : BOOLEAN, hours : HourSet, rt : RtSet]
PutKinds == {"save", "clear", "policy"}
ReqKinds == PutKinds \cup {"load", "test", "th", "bk"}
BusySet == {"", "save", "clear", "test", "th", "bk"}
VisitSet == [open : {TRUE}, busy : BusySet, cfg : CfgSet, input : {"", "good", "bad"}]
ReqSet == [no : Nat, kind : ReqKinds, body : BodySet \cup Levels \cup {0}, held : CfgSet, view : {NoView} \cup ViewSet]

PageSet == [S : {NoVisit} \cup VisitSet, dialog : BOOLEAN, srv : SrvSet,
            th : Levels \cup {<<78, 90>>}, reqs : SUBSET ReqSet, sent : Nat]

\* A request carries what its kind needs; a rollback goes to a loaded configuration.
Carries(r) ==
    /\ r.kind \in PutKinds => r.body \in BodySet
    /\ r.kind = "th" => r.body \in Levels
    /\ r.kind = "policy" => r.held.loaded

SetsTypes == cfgs \in PageSet /\ \A r \in cfgs.reqs : Carries(r)

\* The flag that a request of a kind takes down.
FlagOf(kind) == IF kind = "policy" THEN "save" ELSE kind

\* The two halves of PageNeverLocks, as the steps keep them.
Unlocks(S, reqs) == S.busy # "" => \E r \in reqs : S.busy = FlagOf(r.kind)
Loads(S, reqs) == ~S.cfg.loaded => \E r \in reqs : r.kind = "load"

SetsInv ==
    /\ SetsTypes
    /\ cfgs.S.open => Unlocks(cfgs.S, cfgs.reqs) /\ Loads(cfgs.S, cfgs.reqs)

\* The badge says "loading" exactly when no load was answered.
LEMMA LoadingBadge ==
    ASSUME NEW c \in CfgSet
    PROVE  notificationDisplay(c) = "loading" <=> ~c.loaded
BY DEF notificationDisplay, CfgSet

\* An open page has its fields.
LEMMA OpenVisit ==
    ASSUME SetsTypes, cfgs.S.open
    PROVE  cfgs.S \in VisitSet
<1>1. NoVisit.open = FALSE
    BY DEF NoVisit
<1> QED BY <1>1 DEF SetsTypes, PageSet, Carries

\* The number of a new request.
LEMMA SentType == SetsTypes => cfgs.sent + 1 \in Nat
BY DEF SetsTypes, PageSet, Carries

\* Every request the page sends: how busy and the requests under way change together.
LEMMA LaunchKeeps ==
    ASSUME SetsInv, cfgs.S.open, NEW c \in CfgSet, NEW kind \in ReqKinds \ {"load"},
           NEW body \in BodySet \cup Levels \cup {0}, NEW held \in CfgSet,
           kind \in PutKinds => body \in BodySet, kind = "th" => body \in Levels,
           kind = "policy" => held.loaded, c.loaded = cfgs.S.cfg.loaded,
           NEW dlg \in BOOLEAN,
           cfgs' = [cfgs EXCEPT !.S = [cfgs.S EXCEPT !.cfg = c, !.busy = FlagOf(kind)],
                                !.reqs = @ \cup {Request(kind, body, held)},
                                !.sent = @ + 1, !.dialog = dlg]
    PROVE  SetsInv'
<1> DEFINE r == Request(kind, body, held)
           s == [cfgs.S EXCEPT !.cfg = c, !.busy = FlagOf(kind)]
<1>1. cfgs.sent + 1 \in Nat
    BY DEF SetsInv, SetsTypes, PageSet, Carries
<1>2. r \in ReqSet /\ r.kind = kind /\ r.body = body /\ r.held = held
    BY <1>1 DEF Request, ReqSet
<1>3. s \in VisitSet /\ s.open = TRUE /\ s.busy = FlagOf(kind) /\ s.cfg = c
    BY OpenVisit DEF SetsInv, VisitSet, FlagOf, BusySet, ReqKinds, PutKinds
<1> HIDE DEF r, s
<1>4. /\ cfgs' \in PageSet
      /\ cfgs'.S = s /\ cfgs'.reqs = cfgs.reqs \cup {r}
    BY <1>1, <1>2, <1>3 DEF SetsInv, SetsTypes, PageSet, Carries, r, s
<1>5. SetsTypes'
    BY <1>2, <1>4 DEF SetsInv, SetsTypes, PageSet, Carries
<1>6. Unlocks(s, cfgs'.reqs) /\ Loads(s, cfgs'.reqs)
    BY <1>2, <1>3, <1>4 DEF SetsInv, Unlocks, Loads
<1> QED BY <1>4, <1>5, <1>6 DEF SetsInv

\* The operations behind the buttons: saveHook, clearHook, the escalation choice, the
\* test, the thresholds.
LEMMA SendsKeep ==
    ASSUME SetsInv, \/ SaveHook \/ ClearHook \/ TestHook
                    \/ \E h \in Hours : SetHours(h)
                    \/ \E l \in Levels : SaveThresholds(l)
    PROVE  SetsInv'
<1> DEFINE s == cfgs.S
           sends(c, kind, body, held) ==
               cfgs' = [cfgs EXCEPT !.S = [s EXCEPT !.cfg = c, !.busy = FlagOf(kind)],
                                    !.reqs = @ \cup {Request(kind, body, held)},
                                    !.sent = @ + 1, !.dialog = cfgs.dialog]
<1>0. /\ cfgs = [S |-> cfgs.S, dialog |-> cfgs.dialog, srv |-> cfgs.srv, th |-> cfgs.th,
                 reqs |-> cfgs.reqs, sent |-> cfgs.sent]
      /\ cfgs.dialog \in BOOLEAN
    BY DEF SetsInv, SetsTypes, PageSet, Carries
<1>1. s.open /\ SetsTypes
    BY DEF SetsInv, SaveHook, ClearHook, TestHook, SetHours, SaveThresholds, CanSend
<1>2. s \in VisitSet
    BY <1>1, OpenVisit
<1>3. s.cfg \in CfgSet /\ s.cfg.hours \in HourSet /\ s.cfg.on \in BOOLEAN /\ Unloaded \in CfgSet
    BY <1>2 DEF VisitSet, CfgSet, Unloaded, HourSet, RtSet
<1>4. \A busy : [s EXCEPT !.busy = busy] = [s EXCEPT !.cfg = s.cfg, !.busy = busy]
    BY <1>2 DEF VisitSet
<1>5. CASE SaveHook
    <2> DEFINE body == [on |-> TRUE, url |-> s.input # "", hours |-> s.cfg.hours]
    <2>1. body \in BodySet
        BY <1>3 DEF BodySet
    <2>2. cfgs' = [cfgs EXCEPT !.S = [s EXCEPT !.busy = "save"], !.reqs = @ \cup {Request("save", body, s.cfg)},
                               !.sent = @ + 1]
        BY <1>5 DEF SaveHook, Launch
    <2> HIDE DEF body
    <2>3. sends(s.cfg, "save", body, s.cfg)
        BY <1>0, <1>4, <2>2 DEF FlagOf
    <2> QED BY <1>0, <1>1, <1>3, <2>1, <2>3, LaunchKeeps DEF ReqKinds, PutKinds
<1>6. CASE ClearHook
    <2> DEFINE body == [on |-> FALSE, url |-> FALSE, hours |-> s.cfg.hours]
    <2>1. body \in BodySet
        BY <1>3 DEF BodySet
    <2>2. cfgs' = [cfgs EXCEPT !.S = [s EXCEPT !.busy = "clear"], !.reqs = @ \cup {Request("clear", body, s.cfg)},
                               !.sent = @ + 1]
        BY <1>6 DEF ClearHook, Launch
    <2> HIDE DEF body
    <2>3. sends(s.cfg, "clear", body, s.cfg)
        BY <1>0, <1>4, <2>2 DEF FlagOf
    <2> QED BY <1>0, <1>1, <1>3, <2>1, <2>3, LaunchKeeps DEF ReqKinds, PutKinds
<1>7. CASE TestHook
    <2>1. cfgs' = [cfgs EXCEPT !.S = [s EXCEPT !.busy = "test"], !.reqs = @ \cup {Request("test", 0, Unloaded)},
                               !.sent = @ + 1]
        BY <1>7 DEF TestHook, Launch
    <2>2. sends(s.cfg, "test", 0, Unloaded)
        BY <1>0, <1>4, <2>1 DEF FlagOf
    <2> QED BY <1>0, <1>1, <1>3, <2>2, LaunchKeeps DEF ReqKinds, PutKinds
<1>8. ASSUME NEW h \in Hours, SetHours(h) PROVE SetsInv'
    <2> DEFINE c == [s.cfg EXCEPT !.hours = h]
               body == [on |-> s.cfg.on, url |-> FALSE, hours |-> h]
    <2>1. c \in CfgSet /\ c.loaded = s.cfg.loaded /\ body \in BodySet /\ s.cfg.loaded
        BY <1>3, <1>8 DEF SetHours, CfgSet, BodySet, HourSet
    <2>2. cfgs' = [cfgs EXCEPT !.S = [[s EXCEPT !.cfg = c] EXCEPT !.busy = "save"],
                               !.reqs = @ \cup {Request("policy", body, s.cfg)}, !.sent = @ + 1]
        BY <1>8 DEF SetHours, escalationTransition, Launch
    <2> HIDE DEF c, body
    <2>3. [[s EXCEPT !.cfg = c] EXCEPT !.busy = "save"] = [s EXCEPT !.cfg = c, !.busy = "save"]
        OBVIOUS
    <2>4. sends(c, "policy", body, s.cfg)
        BY <1>0, <2>2, <2>3 DEF FlagOf
    <2> QED BY <1>0, <1>1, <1>3, <2>1, <2>4, LaunchKeeps DEF ReqKinds, PutKinds
<1>9. ASSUME NEW l \in Levels, SaveThresholds(l) PROVE SetsInv'
    <2>1. cfgs' = [cfgs EXCEPT !.S = [s EXCEPT !.busy = "th"], !.reqs = @ \cup {Request("th", l, Unloaded)},
                               !.sent = @ + 1]
        BY <1>9 DEF SaveThresholds, Launch
    <2>2. sends(s.cfg, "th", l, Unloaded)
        BY <1>0, <1>4, <2>1 DEF FlagOf
    <2> QED BY <1>0, <1>1, <1>3, <2>2, LaunchKeeps DEF ReqKinds, PutKinds
<1> QED BY <1>5, <1>6, <1>7, <1>8, <1>9

\* Entering sends the load the fresh page waits for; leaving, typing and the file
\* dialog send nothing; an approved restore is one more request.
LEMMA VisitsKeep ==
    ASSUME SetsInv, \/ SetsEnter \/ SetsLeave \/ PickFile
                    \/ \E u \in {"", "good", "bad"} : SetsTyped(u)
                    \/ \E b \in BOOLEAN : ImportDialog(b)
    PROVE  SetsInv'
<1>0. SetsTypes /\ Unloaded \in CfgSet /\ NoVisit.open = FALSE
    BY DEF SetsInv, CfgSet, Unloaded, HourSet, RtSet, NoVisit
<1>1. CASE SetsEnter
    <2> DEFINE r == Request("load", 0, Unloaded)
    <2>1. cfgs.sent + 1 \in Nat
        BY <1>0, SentType
    <2>2. r \in ReqSet /\ r.kind = "load"
        BY <1>0, <2>1 DEF Request, ReqSet, ReqKinds, PutKinds
    <2>3. Visit \in VisitSet /\ Visit.busy = ""
        BY <1>0 DEF Visit, VisitSet, BusySet
    <2>4. cfgs' = [cfgs EXCEPT !.S = Visit, !.reqs = @ \cup {r}, !.sent = @ + 1]
        BY <1>1 DEF SetsEnter
    <2> HIDE DEF r
    <2>5. SetsTypes' /\ cfgs'.S = Visit /\ cfgs'.reqs = cfgs.reqs \cup {r}
        BY <1>0, <2>1, <2>2, <2>3, <2>4 DEF SetsTypes, PageSet, Carries, PutKinds
    <2> QED BY <2>2, <2>3, <2>5 DEF SetsInv, Unlocks, Loads
<1>2. CASE SetsLeave
    <2>1. SetsTypes' /\ cfgs'.S = NoVisit
        BY <1>0, <1>2 DEF SetsLeave, SetsTypes, PageSet, Carries
    <2> QED BY <1>0, <2>1 DEF SetsInv
<1>3. CASE PickFile \/ ImportDialog(FALSE) \/ (ImportDialog(TRUE) /\ ~cfgs.S.open)
    <2>1. \E b \in BOOLEAN : cfgs' = [cfgs EXCEPT !.dialog = b]
        BY <1>3 DEF PickFile, ImportDialog
    <2>2. SetsTypes' /\ cfgs'.S = cfgs.S /\ cfgs'.reqs = cfgs.reqs
        BY <1>0, <2>1 DEF SetsTypes, PageSet, Carries
    <2> QED BY <2>2 DEF SetsInv
<1>4. ASSUME NEW u \in {"", "good", "bad"}, SetsTyped(u) PROVE SetsInv'
    <2>1. cfgs.S.open /\ cfgs' = [cfgs EXCEPT !.S = [cfgs.S EXCEPT !.input = u]]
        BY <1>0, <1>4 DEF SetsTyped, SetsTypes, PageSet, Carries
    <2>2. cfgs.S \in VisitSet
        BY <1>0, <2>1, OpenVisit
    <2> DEFINE s == [cfgs.S EXCEPT !.input = u]
    <2>3. s \in VisitSet /\ s.busy = cfgs.S.busy /\ s.cfg = cfgs.S.cfg
        BY <2>2 DEF VisitSet
    <2> HIDE DEF s
    <2>4. SetsTypes' /\ cfgs'.S = s /\ cfgs'.reqs = cfgs.reqs
        BY <1>0, <2>1, <2>3 DEF SetsTypes, PageSet, Carries, s
    <2> QED BY <2>1, <2>3, <2>4 DEF SetsInv, Unlocks, Loads
<1>5. CASE ImportDialog(TRUE) /\ cfgs.S.open
    <2>1. cfgs.S \in VisitSet
        BY <1>0, <1>5, OpenVisit
    <2>2. cfgs.S.cfg \in CfgSet /\ [cfgs.S EXCEPT !.busy = "bk"] = [cfgs.S EXCEPT !.cfg = cfgs.S.cfg, !.busy = "bk"]
        BY <2>1 DEF VisitSet
    <2>3. cfgs' = [cfgs EXCEPT !.dialog = FALSE, !.S = [cfgs.S EXCEPT !.busy = "bk"], !.sent = @ + 1,
                               !.reqs = @ \cup {Request("bk", 0, Unloaded)}]
        BY <1>0, <1>5 DEF ImportDialog, SetsTypes, PageSet, Carries
    <2>4. cfgs' = [cfgs EXCEPT !.S = [cfgs.S EXCEPT !.cfg = cfgs.S.cfg, !.busy = FlagOf("bk")],
                               !.reqs = @ \cup {Request("bk", 0, Unloaded)}, !.sent = @ + 1, !.dialog = FALSE]
        BY <1>0, <2>2, <2>3 DEF FlagOf, SetsTypes, PageSet, Carries
    <2> QED BY <1>0, <1>5, <2>2, <2>4, LaunchKeeps DEF ReqKinds, PutKinds
<1> QED BY <1>1, <1>2, <1>3, <1>4, <1>5

\* The server serves a request: it stays under way, with the view it will answer.
LEMMA ServeKeeps ==
    ASSUME SetsInv, NEW r \in cfgs.reqs, NEW rt \in Runtimes, SetsServe(r, rt)
    PROVE  SetsInv'
<1> DEFINE v == sanitizeNotificationConfig(Written(r), rt)
           q == [r EXCEPT !.view = v]
           srv2 == Written(r)
           reqs2 == (cfgs.reqs \ {r}) \cup {q}
<1>0. SetsTypes /\ r \in ReqSet /\ cfgs.srv \in SrvSet
    BY DEF SetsInv, SetsTypes, PageSet, Carries
<1>1. Written(r) \in SrvSet
    <2>1. CASE IsPut(r)
        <3>1. r.body \in BodySet
            BY <1>0, <2>1 DEF SetsTypes, PageSet, Carries, IsPut, PutKinds
        <3> QED BY <1>0, <2>1, <3>1 DEF Written, BodySet, SrvSet
    <2>2. CASE ~IsPut(r)
        BY <1>0, <2>2 DEF Written
    <2> QED BY <2>1, <2>2
<1>2. v \in ViewSet
    BY <1>1 DEF sanitizeNotificationConfig, ViewSet, SrvSet, RtSet
<1>3. q \in ReqSet /\ q.kind = r.kind /\ q.body = r.body /\ q.held = r.held
    BY <1>0, <1>2 DEF ReqSet
<1>4. cfgs' = [cfgs EXCEPT !.srv = srv2, !.reqs = reqs2] /\ srv2 \in SrvSet
    BY <1>1 DEF SetsServe
<1> HIDE DEF v, q, srv2, reqs2
<1>5. SetsTypes' /\ cfgs'.S = cfgs.S /\ cfgs'.reqs = reqs2
    <2>1. reqs2 \in SUBSET ReqSet
        BY <1>0, <1>3 DEF SetsTypes, PageSet, Carries, reqs2
    <2>2. \A x \in reqs2 : Carries(x)
        BY <1>0, <1>3 DEF SetsTypes, PageSet, Carries, reqs2
    <2>3. cfgs' = [S |-> cfgs.S, dialog |-> cfgs.dialog, srv |-> srv2, th |-> cfgs.th,
                   reqs |-> reqs2, sent |-> cfgs.sent]
        BY <1>0, <1>4 DEF SetsTypes, PageSet, Carries
    <2>4. cfgs'.S = cfgs.S /\ cfgs'.reqs = reqs2
        BY <2>3
    <2>5. cfgs' \in PageSet
        BY <1>0, <1>4, <2>1, <2>3 DEF SetsTypes, PageSet, Carries
    <2>6. SetsTypes'
        BY ONLY <2>2, <2>4, <2>5 DEF SetsTypes
    <2> QED BY <2>4, <2>6
<1>6. Unlocks(cfgs.S, cfgs.reqs) => Unlocks(cfgs.S, cfgs'.reqs)
    BY <1>3, <1>5 DEF Unlocks, reqs2
<1>7. Loads(cfgs.S, cfgs.reqs) => Loads(cfgs.S, cfgs'.reqs)
    BY <1>3, <1>5 DEF Loads, reqs2
<1> QED BY <1>5, <1>6, <1>7 DEF SetsInv

\* What an answer makes of the page: a load ends the loading, everything else takes the
\* flag down, whether it succeeded or not and whichever visit sent it.
LEMMA AnswerEffect ==
    ASSUME SetsInv, cfgs.S.open, NEW r \in cfgs.reqs, NEW ok \in BOOLEAN, SetsAnswer(r, ok)
    PROVE  /\ cfgs'.S \in VisitSet
           /\ r.kind = "load" => cfgs'.S.busy = cfgs.S.busy /\ cfgs'.S.cfg.loaded
           /\ r.kind # "load" => cfgs'.S.busy = "" /\ (cfgs.S.cfg.loaded => cfgs'.S.cfg.loaded)
<1> DEFINE s == cfgs.S
<1>0. SetsTypes /\ r \in ReqSet /\ s \in VisitSet
    BY OpenVisit DEF SetsInv, SetsTypes, PageSet, Carries
<1>1. s.cfg \in CfgSet
    BY <1>0 DEF VisitSet
<1>2. cfgs'.S = CASE ~ s.open -> s
                  [] s.open /\ r.kind = "load" -> LoadNotifications(s, r, ok)
                  [] s.open /\ IsPut(r) -> PutAnswered(s, r, ok)
                  [] s.open /\ r.kind \in {"th", "test", "bk"} -> Released(s, ok)
    BY <1>0 DEF SetsAnswer, SetsTypes, PageSet, Carries
<1>3. ASSUME ok PROVE Taken(r.view) \in CfgSet /\ Taken(r.view).loaded
    <2>1. NoView.served = FALSE
        BY DEF NoView
    <2>2. r.view \in ViewSet
        BY <1>0, <1>3, <2>1 DEF SetsAnswer, ReqSet
    <2> QED BY <2>2 DEF Taken, ViewSet, CfgSet
<1>4. CASE r.kind = "load"
    <2>1. cfgs'.S = LoadNotifications(s, r, ok)
        BY <1>2, <1>4 DEF IsPut
    <2>2. CASE ok
        <3>1. cfgs'.S = [s EXCEPT !.cfg = Taken(r.view)]
            BY <2>1, <2>2 DEF LoadNotifications
        <3> QED BY <1>0, <1>3, <1>4, <2>2, <3>1 DEF VisitSet
    <2>3. CASE ~ok
        <3> DEFINE c == [s.cfg EXCEPT !.loaded = TRUE, !.error = TRUE]
        <3>1. c \in CfgSet /\ c.loaded
            BY <1>1 DEF CfgSet
        <3>2. cfgs'.S = [s EXCEPT !.cfg = c]
            BY <1>0, <2>1, <2>3 DEF LoadNotifications, VisitSet
        <3> HIDE DEF c
        <3> QED BY <1>0, <1>4, <3>1, <3>2 DEF VisitSet
    <2> QED BY <2>2, <2>3
<1>5. CASE r.kind \in PutKinds
    <2> DEFINE taken == [Taken(r.view) EXCEPT !.on = r.body.on, !.hours = r.body.hours]
               c == IF ok THEN taken ELSE IF r.kind = "policy" THEN r.held ELSE s.cfg
    <2>1. cfgs'.S = PutAnswered(s, r, ok)
        BY <1>2, <1>5 DEF IsPut, PutKinds
    <2>2. r.body \in BodySet /\ r.held \in CfgSet /\ (r.kind = "policy" => r.held.loaded)
        BY <1>0, <1>5 DEF SetsTypes, PageSet, Carries, ReqSet
    <2>3. ok => taken \in CfgSet /\ taken.loaded
        <3> SUFFICES ASSUME ok PROVE taken \in CfgSet /\ taken.loaded
            OBVIOUS
        <3> QED BY <1>3, <2>2 DEF BodySet, CfgSet
    <2>4. c \in CfgSet /\ (s.cfg.loaded => c.loaded)
        <3> HIDE DEF taken
        <3> QED BY <1>1, <2>2, <2>3
    <2>5. cfgs'.S = [[s EXCEPT !.input = "", !.cfg = c] EXCEPT !.busy = ""]
        BY <2>1 DEF PutAnswered, Released
    <2> HIDE DEF c
    <2> QED BY <1>0, <1>5, <2>4, <2>5 DEF VisitSet, BusySet, PutKinds
<1>6. CASE r.kind \in {"th", "test", "bk"}
    <2>1. cfgs'.S = [s EXCEPT !.busy = ""]
        BY <1>2, <1>6 DEF IsPut, Released
    <2> QED BY <1>0, <1>6, <2>1 DEF VisitSet, BusySet
<1>7. r.kind \in ReqKinds
    BY <1>0 DEF ReqSet
<1> QED BY <1>4, <1>5, <1>6, <1>7 DEF ReqKinds

\* An answer arrives, on time, late or after the page was left.
LEMMA AnswerKeeps ==
    ASSUME SetsInv, NEW r \in cfgs.reqs, NEW ok \in BOOLEAN, SetsAnswer(r, ok)
    PROVE  SetsInv'
<1>0. SetsTypes /\ r \in ReqSet
    BY DEF SetsInv, SetsTypes, PageSet, Carries
<1>1. cfgs'.reqs = cfgs.reqs \ {r} /\ (~cfgs.S.open => cfgs'.S = cfgs.S)
    BY <1>0 DEF SetsAnswer, SetsTypes, PageSet, Carries
<1>2. cfgs'.S \in {NoVisit} \cup VisitSet
    BY <1>0, <1>1, AnswerEffect DEF SetsTypes, PageSet, Carries
<1>3. (IF r.kind = "th" /\ ok THEN r.body ELSE cfgs.th) \in Levels \cup {<<78, 90>>}
    BY <1>0 DEF SetsTypes, PageSet, Carries
<1>4. SetsTypes'
    <2>1. PICK S2, th2 : cfgs' = [cfgs EXCEPT !.reqs = cfgs.reqs \ {r}, !.th = th2, !.S = S2]
                         /\ th2 = IF r.kind = "th" /\ ok THEN r.body ELSE cfgs.th
        BY <1>0 DEF SetsAnswer, SetsTypes, PageSet, Carries
    <2>2. S2 = cfgs'.S /\ th2 \in Levels \cup {<<78, 90>>}
        BY <1>0, <1>3, <2>1 DEF SetsTypes, PageSet, Carries
    <2> QED BY <1>0, <1>2, <2>1, <2>2 DEF SetsTypes, PageSet, Carries
<1>5. ASSUME cfgs'.S.open PROVE Unlocks(cfgs'.S, cfgs'.reqs) /\ Loads(cfgs'.S, cfgs'.reqs)
    <2>1. cfgs.S.open
        BY <1>1, <1>5
    <2>2. Unlocks(cfgs.S, cfgs.reqs) /\ Loads(cfgs.S, cfgs.reqs)
        BY <2>1 DEF SetsInv
    <2>3. CASE r.kind = "load"
        <3>1. cfgs'.S.busy = cfgs.S.busy /\ cfgs'.S.cfg.loaded /\ cfgs.S.busy \in BusySet
            BY <1>0, <2>1, <2>3, AnswerEffect, OpenVisit DEF VisitSet
        <3>2. FlagOf(r.kind) \notin BusySet
            BY <2>3 DEF FlagOf, BusySet
        <3> QED BY <1>1, <2>2, <3>1, <3>2 DEF Unlocks, Loads
    <2>4. CASE r.kind # "load"
        <3>1. cfgs'.S.busy = "" /\ (cfgs.S.cfg.loaded => cfgs'.S.cfg.loaded)
            BY <2>1, <2>4, AnswerEffect
        <3> QED BY <1>1, <2>2, <2>4, <3>1 DEF Unlocks, Loads
    <2> QED BY <2>3, <2>4
<1> QED BY <1>4, <1>5 DEF SetsInv

\* However visits, saves, restores, failures and late answers of earlier visits follow
\* each other, a locked button and a "loading" badge wait for a request under way.
THEOREM SettingsNeverLock == SetsInit /\ [][SetsNext]_cfgs => []PageNeverLocks
<1>1. SetsInit => SetsInv
    <2> SUFFICES ASSUME SetsInit PROVE SetsInv
        OBVIOUS
    <2>1. PICK on, set \in BOOLEAN :
            cfgs = [S |-> NoVisit, dialog |-> FALSE, srv |-> [on |-> on /\ set, set |-> set, hours |-> 0],
                    th |-> <<78, 90>>, reqs |-> {}, sent |-> 0]
        BY DEF SetsInit
    <2>2. [on |-> on /\ set, set |-> set, hours |-> 0] \in SrvSet /\ NoVisit.open = FALSE
        BY DEF SrvSet, HourSet, NoVisit
    <2> QED BY <2>1, <2>2 DEF SetsInv, SetsTypes, PageSet, Carries
<1>2. SetsInv /\ [SetsNext]_cfgs => SetsInv'
    <2> SUFFICES ASSUME SetsInv, [SetsNext]_cfgs PROVE SetsInv'
        OBVIOUS
    <2>1. CASE UNCHANGED cfgs
        BY <2>1 DEF SetsInv, SetsTypes, PageSet, Carries
    <2>2. CASE SetsNext
        BY <2>2, SendsKeep, VisitsKeep, ServeKeeps, AnswerKeeps DEF SetsNext
    <2> QED BY <2>1, <2>2
<1>3. SetsInv => PageNeverLocks
    <2> SUFFICES ASSUME SetsInv, cfgs.S.open
                 PROVE  /\ cfgs.S.busy # "" =>
                             \E r \in cfgs.reqs : cfgs.S.busy = IF r.kind = "policy" THEN "save" ELSE r.kind
                        /\ notificationDisplay(cfgs.S.cfg) = "loading" => \E r \in cfgs.reqs : r.kind = "load"
        BY DEF PageNeverLocks
    <2>1. cfgs.S.cfg \in CfgSet
        BY OpenVisit DEF SetsInv, VisitSet
    <2> QED BY <2>1, LoadingBadge DEF SetsInv, Unlocks, Loads, FlagOf
<1> QED BY <1>1, <1>2, <1>3, PTL

(***************************************************************************)
(* The device forms.                                                       *)
(***************************************************************************)

\* The store has its fields, and every request under way is one the screen sends.
FormsInv ==
    /\ frm = [here |-> frm.here, form |-> frm.form, step |-> frm.step, editKey |-> frm.editKey,
              fleet |-> frm.fleet, srv |-> frm.srv, sample |-> frm.sample, sel |-> frm.sel,
              marks |-> frm.marks, reqs |-> frm.reqs, made |-> frm.made, moves |-> frm.moves]
    /\ \A r \in frm.reqs : r.kind \in {"test", "add", "edit", "delete"}

\* Moving between screens, polls, opening, closing and typing touch no request.
LEMMA EditingKeepsRequests ==
    ASSUME FormsInv,
           \/ \E id \in frm.fleet, k \in Marks, edit \in BOOLEAN : FormsDetail(id, k, edit)
           \/ FormsEnter \/ FormsLeave \/ FormsPoll \/ OpenAdd \/ CloseModal
           \/ \E id \in frm.fleet : OpenEdit(id) \/ OpenDelete(id)
           \/ \E d \in AddDrafts \cup DelDrafts : OnInput(d)
           \/ \E type \in FormTypes : PickType(type)
           \/ NextStep \/ \E i \in 0 .. 2 : StepTo(i)
    PROVE  FormsInv' /\ frm'.reqs = frm.reqs
<1>1. CASE \E id \in frm.fleet, k \in Marks, edit \in BOOLEAN : FormsDetail(id, k, edit)
    BY <1>1 DEF FormsDetail, FormsInv
<1>2. CASE FormsEnter
    BY <1>2 DEF FormsEnter, EditOpened, Shows, FormsInv
<1>3. CASE FormsLeave \/ FormsPoll \/ CloseModal
    BY <1>3 DEF FormsLeave, FormsPoll, CloseModal, FormsInv
<1>4. CASE OpenAdd
    BY <1>4 DEF OpenAdd, Shows, FormsInv
<1>5. CASE \E id \in frm.fleet : OpenEdit(id) \/ OpenDelete(id)
    BY <1>5 DEF OpenEdit, EditOpened, Shows, OpenDelete, FormsInv
<1>6. CASE \E d \in AddDrafts \cup DelDrafts : OnInput(d)
    BY <1>6 DEF OnInput, Patch, FormsInv
<1>7. CASE \E type \in FormTypes : PickType(type)
    BY <1>7 DEF PickType, Patch, FormsInv
<1>8. CASE NextStep \/ \E i \in 0 .. 2 : StepTo(i)
    BY <1>8 DEF NextStep, StepTo, FormsInv
<1> QED BY <1>1, <1>2, <1>3, <1>4, <1>5, <1>6, <1>7, <1>8

\* The form is patched and a request is sent.
Sends(g, q) == frm' = [frm EXCEPT !.form = g, !.reqs = @ \cup {q}]

\* Submitting, deleting and testing add at most one request.
LEMMA SendingKeepsRequests ==
    ASSUME FormsInv, Submit \/ DoDelete \/ TestConnection
    PROVE  FormsInv' /\ frm.reqs \subseteq frm'.reqs
<1>0. ASSUME NEW g, NEW q, q.kind \in {"test", "add", "edit", "delete"}, Sends(g, q)
      PROVE  FormsInv' /\ frm.reqs \subseteq frm'.reqs
    <2>1. frm' = [here |-> frm.here, form |-> g, step |-> frm.step, editKey |-> frm.editKey,
                  fleet |-> frm.fleet, srv |-> frm.srv, sample |-> frm.sample, sel |-> frm.sel,
                  marks |-> frm.marks, reqs |-> frm.reqs \cup {q}, made |-> frm.made, moves |-> frm.moves]
        BY <1>0 DEF FormsInv, Sends
    <2>2. frm'.reqs = frm.reqs \cup {q}
        BY <2>1
    <2>3. \A r \in frm'.reqs : r.kind \in {"test", "add", "edit", "delete"}
        BY <1>0, <2>2 DEF FormsInv
    <2> QED BY <2>1, <2>2, <2>3 DEF FormsInv
<1>1. ASSUME NEW f, Patch(f)
      PROVE  FormsInv' /\ frm.reqs \subseteq frm'.reqs
    BY <1>1 DEF Patch, FormsInv
<1>2. ASSUME NEW f, NEW kind \in {"add", "edit", "delete"}, SendWrite(f, kind)
      PROVE  FormsInv' /\ frm.reqs \subseteq frm'.reqs
    <2>1. FormReq(f, kind).kind = kind
        BY DEF FormReq
    <2>2. CASE frm.sample
        BY <1>1, <1>2, <2>2 DEF SendWrite, Patch
    <2>3. CASE ~frm.sample
        <3>1. frm' = [frm EXCEPT !.form = [f EXCEPT !.busy = TRUE, !.err = ""], !.reqs = @ \cup {FormReq(f, kind)}]
            BY <1>2, <2>3 DEF SendWrite
        <3> DEFINE g == [f EXCEPT !.busy = TRUE, !.err = ""]
                   q == FormReq(f, kind)
        <3>2. Sends(g, q) /\ q.kind = kind
            BY <2>1, <3>1 DEF Sends
        <3> HIDE DEF g, q
        <3> QED BY <1>0, <3>2
    <2> QED BY <2>2, <2>3
<1>3. CASE Submit
    BY <1>1, <1>2, <1>3 DEF Submit, FormShown
<1>4. CASE DoDelete
    BY <1>1, <1>2, <1>4 DEF DoDelete
<1>5. CASE TestConnection
    <2> DEFINE f == frm.form
    <2>1. FormReq(f, "test").kind = "test"
        BY DEF FormReq
    <2>2. CASE f.d.mgmt = "" \/ frm.sample
        <3>1. frm' = [frm EXCEPT !.form = [f EXCEPT !.result = "told"]]
            BY <1>5, <2>2 DEF TestConnection, FormsInv
        <3> QED BY <1>1, <3>1 DEF Patch
    <2>3. CASE ~(f.d.mgmt = "" \/ frm.sample)
        <3>1. frm' = [frm EXCEPT !.form = [f EXCEPT !.testing = TRUE, !.result = ""],
                                 !.reqs = @ \cup {FormReq(f, "test")}]
            BY <1>5, <2>3 DEF TestConnection
        <3> DEFINE g == [f EXCEPT !.testing = TRUE, !.result = ""]
                   q == FormReq(f, "test")
        <3>2. Sends(g, q) /\ q.kind = "test"
            BY <2>1, <3>1 DEF Sends
        <3> HIDE DEF g, q
        <3> QED BY <1>0, <3>2
    <2> QED BY <2>2, <2>3
<1> QED BY <1>3, <1>4, <1>5

\* An answer takes its own request and, unless its form is the one on the screen, leaves
\* the form and the wizard's step as they are.
LEMMA AnswerStays ==
    ASSUME FormsInv, NEW r \in frm.reqs, FormsAnswer(r)
    PROVE  /\ FormsInv' /\ frm'.reqs = frm.reqs \ {r}
           /\ frm.form # NoForm /\ frm.form.no # r.no => frm'.form = frm.form /\ frm'.step = frm.step
<1>1. PICK v, s : /\ s = [frm EXCEPT !.reqs = @ \ {r}, !.srv = v]
                  /\ frm' \in {Tested(s, r), Refused(s, r), Deleted(s, r), Saved(s, r)}
    <2>1. PICK reached \in BOOLEAN, ok \in BOOLEAN :
            LET s == [frm EXCEPT !.reqs = @ \ {r}, !.srv = IF reached THEN Served(r) ELSE @]
            IN frm' = CASE r.kind = "test" -> Tested(s, r)
                        [] r.kind # "test" /\ ~ ok -> Refused(s, r)
                        [] r.kind = "delete" /\ ok -> Deleted(s, r)
                        [] r.kind \in {"add", "edit"} /\ ok -> Saved(s, r)
        BY DEF FormsAnswer
    <2>2. r.kind \in {"test", "add", "edit", "delete"}
        BY DEF FormsInv
    <2> DEFINE v == IF reached THEN Served(r) ELSE frm.srv
               s == [frm EXCEPT !.reqs = frm.reqs \ {r}, !.srv = v]
    <2>3. frm' \in {Tested(s, r), Refused(s, r), Deleted(s, r), Saved(s, r)}
        BY <2>1, <2>2 DEF FormsInv
    <2> HIDE DEF v
    <2> WITNESS v, s
    <2> QED BY <2>3
<1>2. s = [here |-> frm.here, form |-> frm.form, step |-> frm.step, editKey |-> frm.editKey,
           fleet |-> frm.fleet, srv |-> v, sample |-> frm.sample, sel |-> frm.sel,
           marks |-> frm.marks, reqs |-> frm.reqs \ {r}, made |-> frm.made, moves |-> frm.moves]
    BY <1>1 DEF FormsInv
<1>3. /\ s = [here |-> s.here, form |-> s.form, step |-> s.step, editKey |-> s.editKey,
              fleet |-> s.fleet, srv |-> s.srv, sample |-> s.sample, sel |-> s.sel,
              marks |-> s.marks, reqs |-> s.reqs, made |-> s.made, moves |-> s.moves]
      /\ s.reqs = frm.reqs \ {r} /\ s.form = frm.form /\ s.step = frm.step
    BY <1>2
<1>4. CASE frm' = Tested(s, r) \/ frm' = Refused(s, r) \/ frm' = Saved(s, r)
    BY <1>3, <1>4 DEF FormsInv, Tested, Refused, Saved, SameForm
<1>5. CASE frm' = Deleted(s, r)
    BY <1>3, <1>5 DEF FormsInv, Deleted, SameForm
<1> QED BY <1>1, <1>4, <1>5

\* A late answer never closes or writes into the form of another device: only the
\* object the request was sent from is patched (this.form() === f).
THEOREM LateAnswersStayHome == FormsInit /\ [][FormsNext]_frm => AnswersStayHome
<1>1. FormsInit => FormsInv
    BY DEF FormsInit, FormsInv
<1>2. FormsInv /\ [FormsNext]_frm => FormsInv'
    <2> SUFFICES ASSUME FormsInv, [FormsNext]_frm PROVE FormsInv'
        OBVIOUS
    <2>1. CASE UNCHANGED frm
        BY <2>1 DEF FormsInv
    <2>2. CASE FormsNext
        BY <2>2, EditingKeepsRequests, SendingKeepsRequests, AnswerStays DEF FormsNext
    <2> QED BY <2>1, <2>2
<1>3. FormsInv /\ [FormsNext]_frm =>
        [ \A r \in frm.reqs \ frm'.reqs :
            frm.form # NoForm /\ frm.form.no # r.no => frm'.form = frm.form /\ frm'.step = frm.step ]_frm
    <2> SUFFICES ASSUME FormsInv, FormsNext, NEW r \in frm.reqs, r \notin frm'.reqs,
                        frm.form # NoForm, frm.form.no # r.no
                 PROVE  frm'.form = frm.form /\ frm'.step = frm.step
        OBVIOUS
    <2> QED BY EditingKeepsRequests, SendingKeepsRequests, AnswerStays DEF FormsNext
<1> QED BY <1>1, <1>2, <1>3, PTL DEF AnswersStayHome

-----------------------------------------------------------------------------
(***************************************************************************)
(* The model behind every screen.                                          *)
(***************************************************************************)

\* The parts of DevAlerts: an alert with the time shown for it; the alerts the
\* collector reports; the one for the state of the device, and its severity.
AlertOf(d, on, t, name, sev, time, ackTime, k) ==
    [host |-> d.id, name |-> name, sev |-> sev, ackTime |-> ackTime,
     time |-> IF time # 0 THEN time ELSE Onset(on, <<d.id, k>>, t), fixture |-> d.id = Fixture]
Reported(d, on, t) ==
    [i \in DOMAIN d.alerts |->
        AlertOf(d, on, t, d.alerts[i].name, d.alerts[i].sev, d.alerts[i].time,
                IF IsState(d.alerts[i]) THEN d.since ELSE d.alerts[i].time, d.alerts[i].name)]
OwnSev(d) == IF d.status = "down" /\ ~\E i \in DOMAIN d.alerts : IsState(d.alerts[i]) THEN "critical"
             ELSE IF d.status = "deg" /\ d.alerts = <<>> THEN "warning" ELSE "none"
Own(d, on, t) ==
    IF OwnSev(d) = "none" THEN <<>>
    ELSE <<AlertOf(d, on, t, <<StateKind, d.status>>, OwnSev(d), d.since, d.since, d.status)>>
\* What collectAlerts meets on a device that has no time of its own.
Untimed(d) == {d.alerts[i].name : i \in {j \in DOMAIN d.alerts : d.alerts[j].time = 0}}
Met(d) == Untimed(d) \cup IF d.since = 0 /\ OwnSev(d) # "none" THEN {d.status} ELSE {}

\* DevAlerts is made of these parts.
LEMMA DevAlertsParts ==
    ASSUME NEW d, NEW on, NEW t
    PROVE  DevAlerts(d, on, t) = Reported(d, on, t) \o Own(d, on, t)
<1>1. CASE d.status = "down" /\ ~\E i \in DOMAIN d.alerts : IsState(d.alerts[i])
    <2>1. OwnSev(d) = "critical" /\ OwnSev(d) # "none"
        BY <1>1 DEF OwnSev
    <2> QED BY <1>1, <2>1, Zenon DEF DevAlerts, Reported, Own, AlertOf
<1>2. CASE ~(d.status = "down" /\ ~\E i \in DOMAIN d.alerts : IsState(d.alerts[i]))
           /\ d.status = "deg" /\ d.alerts = <<>>
    <2>1. OwnSev(d) = "warning" /\ OwnSev(d) # "none"
        BY <1>2 DEF OwnSev
    <2> QED BY <1>2, <2>1, Zenon DEF DevAlerts, Reported, Own, AlertOf
<1>3. CASE ~(d.status = "down" /\ ~\E i \in DOMAIN d.alerts : IsState(d.alerts[i]))
           /\ ~(d.status = "deg" /\ d.alerts = <<>>)
    <2>1. OwnSev(d) = "none"
        BY <1>3, Zenon DEF OwnSev
    <2> QED BY <1>3, <2>1, Zenon DEF DevAlerts, Reported, Own, AlertOf
<1> QED BY <1>1, <1>2, <1>3

\* The list is longer than what was reported exactly when the device has an
\* alert for its state.
LEMMA OwnIsLonger ==
    ASSUME NEW d, d.alerts \in Seq(ToSet(d.alerts)), NEW t
    PROVE  Len(DevAlerts(d, <<>>, t)) > Len(d.alerts) <=> OwnSev(d) # "none"
<1> DEFINE rep == Reported(d, <<>>, t)  own == Own(d, <<>>, t)
           n == Len(d.alerts)
           T == {rep[i] : i \in 1..n} \cup {own[i] : i \in 1..1}
<1>1. n \in Nat /\ DOMAIN d.alerts = 1..n
    BY LenProperties
<1>2. rep \in Seq(T) /\ Len(rep) = n
    <2>1. DOMAIN rep = 1..n
        BY <1>1 DEF Reported
    <2>2. rep = [i \in 1..n |-> rep[i]]
        BY <1>1 DEF Reported
    <2> HIDE DEF rep, own, n
    <2>3. rep \in [1..n -> T]
        BY <2>2
    <2>4. rep \in Seq(T)
        BY <1>1, <2>3
    <2> QED BY <2>4, <2>1, <1>1, LenProperties
<1>3. own \in Seq(T) /\ Len(own) = IF OwnSev(d) = "none" THEN 0 ELSE 1
    <2>1. CASE OwnSev(d) = "none"
        BY <2>1 DEF Own
    <2>2. CASE OwnSev(d) # "none"
        <3>1. PICK x : own = <<x>>
            BY <2>2 DEF Own
        <3>2. own[1] = x /\ x \in T
            BY <3>1
        <3> HIDE DEF own, T, rep
        <3> QED BY <2>2, <3>1, <3>2
    <2> QED BY <2>1, <2>2
<1>4. DevAlerts(d, <<>>, t) = rep \o own
    BY DevAlertsParts
<1> HIDE DEF rep, own, n, T
<1>5. Len(rep \o own) = n + Len(own)
    BY <1>2, <1>3, ConcatProperties
<1>6. n = Len(d.alerts)
    BY DEF n
<1>7. Len(DevAlerts(d, <<>>, t)) = Len(d.alerts) + Len(own) /\ Len(d.alerts) \in Nat
    BY <1>1, <1>4, <1>5, <1>6
<1>8. CASE OwnSev(d) = "none"
    BY <1>3, <1>7, <1>8
<1>9. CASE OwnSev(d) # "none"
    BY <1>3, <1>7, <1>9
<1> QED BY <1>8, <1>9

\* OnsetAfter records what was met.
LEMMA MetIsWhat ==
    ASSUME NEW d, d.alerts \in Seq(ToSet(d.alerts)), NEW t
    PROVE  Met(d) = {d.alerts[i].name : i \in {j \in DOMAIN d.alerts : d.alerts[j].time = 0}}
                  \cup IF d.since = 0 /\ Len(DevAlerts(d, <<>>, t)) > Len(d.alerts)
                       THEN {d.status} ELSE {}
<1>1. Len(DevAlerts(d, <<>>, t)) > Len(d.alerts) <=> OwnSev(d) # "none"
    BY OwnIsLonger
<1> QED BY <1>1, Zenon DEF Met, Untimed

\* The onsets on2 hold the time that was shown at t, with the onsets on.
Settled(d, on2, on, t) ==
    \A k \in Met(d) : <<d.id, k>> \in DOMAIN on2 /\ on2[<<d.id, k>>] = Onset(on, <<d.id, k>>, t)

\* From then on the alerts of the device read the same at any time.
LEMMA DevAlertsSettled ==
    ASSUME NEW d, NEW on, NEW on2, NEW t, NEW u, Settled(d, on2, on, t)
    PROVE  DevAlerts(d, on2, u) = DevAlerts(d, on, t)
<1>0. \A k \in Met(d) : Onset(on2, <<d.id, k>>, u) = Onset(on, <<d.id, k>>, t)
    BY DEF Settled, Onset
<1>1. ASSUME NEW i \in DOMAIN d.alerts PROVE Reported(d, on2, u)[i] = Reported(d, on, t)[i]
    <2>1. CASE d.alerts[i].time # 0
        BY <2>1, Zenon DEF Reported, AlertOf
    <2>2. CASE d.alerts[i].time = 0
        <3>1. d.alerts[i].name \in Met(d)
            BY <2>2 DEF Met, Untimed
        <3>2. Onset(on2, <<d.id, d.alerts[i].name>>, u) = Onset(on, <<d.id, d.alerts[i].name>>, t)
            BY <3>1, <1>0
        <3> QED BY <2>2, <3>2, Zenon DEF Reported, AlertOf
    <2> QED BY <2>1, <2>2
<1>2. Reported(d, on2, u) = Reported(d, on, t)
    <2>1. DOMAIN Reported(d, on2, u) = DOMAIN d.alerts /\ DOMAIN Reported(d, on, t) = DOMAIN d.alerts
          /\ Reported(d, on2, u) = [i \in DOMAIN d.alerts |-> Reported(d, on2, u)[i]]
          /\ Reported(d, on, t) = [i \in DOMAIN d.alerts |-> Reported(d, on, t)[i]]
        BY DEF Reported
    <2> QED BY <1>1, <2>1, Zenon
<1>3. Own(d, on2, u) = Own(d, on, t)
    <2>1. CASE OwnSev(d) = "none"
        BY <2>1 DEF Own
    <2>2. CASE OwnSev(d) # "none" /\ d.since # 0
        BY <2>2, Zenon DEF Own, AlertOf
    <2>3. CASE OwnSev(d) # "none" /\ d.since = 0
        <3>1. Onset(on2, <<d.id, d.status>>, u) = Onset(on, <<d.id, d.status>>, t)
            BY <2>3, <1>0 DEF Met
        <3> QED BY <2>3, <3>1, Zenon DEF Own, AlertOf
    <2> QED BY <2>1, <2>2, <2>3
<1> QED BY <1>2, <1>3, DevAlertsParts

\* The alerts of a device are a list.
Listed(fleet) == \A i \in DOMAIN fleet : fleet[i].alerts \in Seq(ToSet(fleet[i].alerts))

\* The onsets that collectAlerts leaves behind settle every device.
LEMMA OnsetSettles ==
    ASSUME NEW fleet, Listed(fleet), NEW on, NEW t, NEW i \in DOMAIN fleet
    PROVE  Settled(fleet[i], OnsetAfter(fleet, on, t), on, t)
<1> DEFINE d == fleet[i]
<1>1. d \in ToSet(fleet) /\ d.alerts \in Seq(ToSet(d.alerts))
    BY DEF ToSet, Listed
<1> HIDE DEF d
<1> SUFFICES ASSUME NEW k \in Met(d)
             PROVE  /\ <<d.id, k>> \in DOMAIN OnsetAfter(fleet, on, t)
                    /\ OnsetAfter(fleet, on, t)[<<d.id, k>>] = Onset(on, <<d.id, k>>, t)
    BY DEF Settled, d
<1>2. k \in {d.alerts[j].name : j \in {x \in DOMAIN d.alerts : d.alerts[x].time = 0}}
            \cup IF d.since = 0 /\ Len(DevAlerts(d, <<>>, t)) > Len(d.alerts) THEN {d.status} ELSE {}
    BY <1>1, MetIsWhat, Zenon
<1> DEFINE met(x) == {x.alerts[j].name : j \in {y \in DOMAIN x.alerts : x.alerts[y].time = 0}}
                     \cup IF x.since = 0 /\ Len(DevAlerts(x, <<>>, t)) > Len(x.alerts) THEN {x.status} ELSE {}
           pairs(x) == {<<x.id, n>> : n \in met(x)}
<1>4. k \in met(d)
    BY <1>2
<1>5. DOMAIN OnsetAfter(fleet, on, t) = UNION {pairs(x) : x \in ToSet(fleet)}
    BY Zenon DEF OnsetAfter
<1> HIDE DEF met
<1>6. <<d.id, k>> \in pairs(d)
    BY <1>4
<1> HIDE DEF pairs
<1>3. <<d.id, k>> \in DOMAIN OnsetAfter(fleet, on, t)
    BY <1>1, <1>5, <1>6, Zenon
<1> QED BY <1>3, Zenon DEF OnsetAfter

\* So collecting the alerts again, later and with these onsets, changes nothing.
LEMMA AlertsSettled ==
    ASSUME NEW fleet, Listed(fleet), NEW on, NEW t, NEW u
    PROVE  CollectAlerts(fleet, OnsetAfter(fleet, on, t), u) = CollectAlerts(fleet, on, t)
<1> DEFINE on2 == OnsetAfter(fleet, on, t)
<1>1. \A i \in DOMAIN fleet : DevAlerts(fleet[i], on2, u) = DevAlerts(fleet[i], on, t)
    <2> TAKE i \in DOMAIN fleet
    <2>1. Settled(fleet[i], on2, on, t)
        BY OnsetSettles
    <2> HIDE DEF on2
    <2> QED BY <2>1, DevAlertsSettled
<1> HIDE DEF on2
<1>2. [i \in DOMAIN fleet |-> DevAlerts(fleet[i], on2, u)] = [i \in DOMAIN fleet |-> DevAlerts(fleet[i], on, t)]
    BY <1>1, Zenon
<1>3. CollectAlerts(fleet, on2, u) = CollectAlerts(fleet, on, t)
    BY <1>2, Zenon DEF CollectAlerts
<1> QED BY <1>3 DEF on2

\* A function; the fields of the store.
IsMap(f) == f = [x \in DOMAIN f |-> f[x]]
StoreFields == {"fleet", "events", "overall", "poll", "at", "err", "stale", "sample", "acks", "maint", "ov",
                "nodes", "clusters", "alert", "level", "sort", "dir", "logQuery", "search", "collapsed"}
\* The shape of a store, as far as the model of it depends on that.
Stored(s) ==
    /\ IsMap(s) /\ DOMAIN s = StoreFields
    /\ s.poll \in Nat /\ IsMap(s.acks) /\ s.maint \in [DOMAIN s.maint -> Int]
    /\ Listed(s.fleet)
\* The memo is the model of the store at any later time at which no window has
\* ended that is not swept.
Fresh(c, t) ==
    \A u \in Nat : u >= t /\ ExpiredMaint(c.st.maint, u) = {} => c.memo.model = ModelOf(c.st, c.onset, u)
\* The inductive invariant: freshness for the onsets of now and for every later
\* time, the fingerprint of the store next to it, the shape of the store.
PageOK(c, t) ==
    /\ DOMAIN c = {"st", "memo", "onset"} /\ Stored(c.st)
    /\ c.memo.key = Fingerprint(c.st) /\ Fresh(c, t)
DeskInv == now \in Nat /\ PageOK(con, now)

\* A model that is built is the model of the state it leaves behind.
LEMMA ModelSettled ==
    ASSUME NEW s, Stored(s), NEW on, NEW t \in Nat, NEW u \in Nat, u >= t, ExpiredMaint(s.maint, u) = {}
    PROVE  ModelOf(s, OnsetAfter(s.fleet, on, t), u) = ModelOf(s, on, t)
<1>1. CollectAlerts(s.fleet, OnsetAfter(s.fleet, on, t), u) = CollectAlerts(s.fleet, on, t)
    <2>1. Listed(s.fleet)
        BY DEF Stored
    <2> QED BY <2>1, AlertsSettled
<1> DEFINE m == s.maint
<1>2. m \in [DOMAIN m -> Int] /\ \A id \in DOMAIN m : ~(m[id] <= u)
    BY Zenon DEF Stored, ExpiredMaint
<1>3. inMaint(s, u) = ActiveMaint(m, u) /\ inMaint(s, t) = ActiveMaint(m, t)
    BY DEF inMaint
<1> HIDE DEF m
<1>4. \A id \in DOMAIN m : m[id] > u /\ m[id] > t
    BY <1>2
<1>5. ActiveMaint(m, u) = ActiveMaint(m, t)
    BY <1>4 DEF ActiveMaint
<1> QED BY <1>1, <1>3, <1>5, Zenon DEF ModelOf

\* A render that builds the model, whatever was there before.
LEMMA RenderNew ==
    ASSUME now \in Nat, NEW c, NEW s, Stored(s), c.memo.key # Fingerprint(s)
    PROVE  PageOK(Render(c, s), now) /\ Render(c, s).st = s
<1> DEFINE on2 == OnsetAfter(s.fleet, c.onset, now)
           fp == Fingerprint(s)
           mod == ModelOf(s, c.onset, now)
           r == [st |-> s, onset |-> on2, memo |-> [key |-> fp, model |-> mod]]
<1>1. Render(c, s) = r
    BY Zenon DEF Render
<1>2. \A u \in Nat : u >= now /\ ExpiredMaint(s.maint, u) = {} => mod = ModelOf(s, on2, u)
    BY ModelSettled, Zenon
<1>0. fp = Fingerprint(s)
    OBVIOUS
<1> HIDE DEF on2, fp, mod
<1>3. DOMAIN r = {"st", "memo", "onset"} /\ r.st = s /\ r.onset = on2 /\ r.memo.key = fp /\ r.memo.model = mod
    OBVIOUS
<1> HIDE DEF r
<1>4. Fresh(r, now)
    BY <1>2, <1>3, Zenon DEF Fresh
<1> QED BY <1>0, <1>1, <1>3, <1>4, Zenon DEF PageOK

\* Any render, of a store that is the old one if the fingerprint does not tell
\* them apart.
LEMMA RenderKeeps ==
    ASSUME now \in Nat, NEW c, PageOK(c, now), NEW s, Stored(s), Fingerprint(s) = Fingerprint(c.st) => s = c.st
    PROVE  PageOK(Render(c, s), now) /\ Render(c, s).st = s
<1>1. CASE c.memo.key = Fingerprint(s)
    <2>1. Render(c, s) = [c EXCEPT !.st = s] /\ s = c.st
        BY <1>1, Zenon DEF Render, PageOK
    <2> DEFINE r == [c EXCEPT !.st = s]
    <2>2. DOMAIN r = {"st", "memo", "onset"} /\ r.st = s /\ r.memo = c.memo /\ r.onset = c.onset
        BY DEF PageOK
    <2> HIDE DEF r
    <2>3. Fresh(r, now)
        BY <2>1, <2>2, Zenon DEF Fresh, PageOK
    <2>4. PageOK(r, now)
        BY <2>1, <2>2, <2>3, Zenon DEF PageOK
    <2> QED BY <2>1, <2>2, <2>4 DEF r
<1>2. CASE c.memo.key # Fingerprint(s)
    BY <1>2, RenderNew
<1> QED BY <1>1, <1>2

\* What the fingerprint holds.
LEMMA SamePrint ==
    ASSUME NEW s, NEW r, Fingerprint(s) = Fingerprint(r)
    PROVE  /\ s.poll = r.poll /\ s.ov = r.ov /\ s.alert = r.alert /\ s.level = r.level /\ s.logQuery = r.logQuery
           /\ s.sort = r.sort /\ s.dir = r.dir /\ s.nodes = r.nodes /\ s.clusters = r.clusters
           /\ s.search = r.search /\ DOMAIN s.acks = DOMAIN r.acks /\ s.maint = r.maint
           /\ s.collapsed = r.collapsed /\ s.stale = r.stale /\ s.err = r.err
    BY DEF Fingerprint

\* No fingerprint is the empty one of a page that has just been loaded.
LEMMA NoPrint == \A s : <<>> # Fingerprint(s)
    BY DEF Fingerprint

\* A field changed.
LEMMA Patched ==
    ASSUME NEW s, IsMap(s), NEW f \in DOMAIN s, NEW v
    PROVE  /\ IsMap([s EXCEPT ![f] = v]) /\ DOMAIN [s EXCEPT ![f] = v] = DOMAIN s
           /\ [s EXCEPT ![f] = v][f] = v /\ \A g \in DOMAIN s \ {f} : [s EXCEPT ![f] = v][g] = s[g]
           /\ v = s[f] => [s EXCEPT ![f] = v] = s
    BY DEF IsMap

\* The fields whose values the shape leaves open.
Plain == StoreFields \ {"poll", "acks", "maint", "fleet"}

\* Acknowledgements: the fingerprint holds the keys, not the times.
LEMMA AcksPatch ==
    ASSUME NEW s, Stored(s), NEW acks, IsMap(acks), DOMAIN acks = DOMAIN s.acks => acks = s.acks
    PROVE  LET r == [s EXCEPT !.acks = acks] IN Stored(r) /\ (Fingerprint(r) = Fingerprint(s) => r = s)
<1> DEFINE r == [s EXCEPT !.acks = acks]
<1>1. /\ IsMap(r) /\ DOMAIN r = StoreFields /\ r.acks = acks
      /\ \A g \in StoreFields \ {"acks"} : r[g] = s[g]
      /\ acks = s.acks => r = s
    <2>1. "acks" \in DOMAIN s /\ DOMAIN s = StoreFields /\ IsMap(s)
        BY DEF Stored, StoreFields
    <2> QED BY <2>1, Patched, Zenon
<1> HIDE DEF r
<1>2. r.poll = s.poll /\ r.maint = s.maint /\ r.fleet = s.fleet
    BY <1>1 DEF StoreFields
<1>3. Stored(r)
    BY <1>1, <1>2, Zenon DEF Stored
<1>4. ASSUME Fingerprint(r) = Fingerprint(s) PROVE r = s
    <2>1. DOMAIN r.acks = DOMAIN s.acks
        BY <1>4, SamePrint
    <2> QED BY <1>1, <2>1, Zenon
<1> QED BY <1>3, <1>4 DEF r

\* Maintenance windows are in the fingerprint.
LEMMA MaintPatch ==
    ASSUME NEW s, Stored(s), NEW maint, maint \in [DOMAIN maint -> Int]
    PROVE  LET r == [s EXCEPT !.maint = maint] IN Stored(r) /\ (Fingerprint(r) = Fingerprint(s) => r = s)
<1> DEFINE r == [s EXCEPT !.maint = maint]
<1>1. /\ IsMap(r) /\ DOMAIN r = StoreFields /\ r.maint = maint
      /\ \A g \in StoreFields \ {"maint"} : r[g] = s[g]
      /\ maint = s.maint => r = s
    <2>1. "maint" \in DOMAIN s /\ DOMAIN s = StoreFields /\ IsMap(s)
        BY DEF Stored, StoreFields
    <2> QED BY <2>1, Patched, Zenon
<1> HIDE DEF r
<1>2. r.poll = s.poll /\ r.acks = s.acks /\ r.fleet = s.fleet
    BY <1>1 DEF StoreFields
<1>3. Stored(r)
    BY <1>1, <1>2, Zenon DEF Stored
<1>4. ASSUME Fingerprint(r) = Fingerprint(s) PROVE r = s
    <2>1. r.maint = s.maint
        BY <1>4, SamePrint
    <2> QED BY <1>1, <2>1, Zenon
<1> QED BY <1>3, <1>4 DEF r

\* Old marks stay when new ones are added.
LEMMA MarksStay ==
    ASSUME NEW acks, IsMap(acks), NEW keys
    PROVE  /\ IsMap(AckedToo(acks, keys))
           /\ DOMAIN AckedToo(acks, keys) = DOMAIN acks => AckedToo(acks, keys) = acks
<1> DEFINE h == AckedToo(acks, keys)
<1>2. DOMAIN h = DOMAIN acks \cup keys /\ IsMap(h) /\ \A x \in DOMAIN acks : h[x] = acks[x]
    BY DEF IsMap, AckedToo
<1> HIDE DEF h
<1>3. ASSUME DOMAIN h = DOMAIN acks PROVE h = acks
    BY <1>2, <1>3, Zenon DEF IsMap
<1> QED BY <1>2, <1>3 DEF h

\* Acknowledging what is due.
LEMMA AutoAckKeeps ==
    ASSUME now \in Nat, NEW c, PageOK(c, now)
    PROVE  PageOK(ApplyAutoAck(c), now)
<1> DEFINE due == AutoAckDue(c.st.fleet, DOMAIN c.st.acks, AckDays, c.onset, now)
           marks == AckedToo(c.st.acks, due)
           s == [c.st EXCEPT !.acks = marks]
<1>1. ApplyAutoAck(c) = Render(c, s)
    BY Zenon DEF ApplyAutoAck
<1>2. Stored(c.st) /\ IsMap(c.st.acks)
    BY Zenon DEF PageOK, Stored
<1> HIDE DEF due
<1>3. IsMap(marks) /\ (DOMAIN marks = DOMAIN c.st.acks => marks = c.st.acks)
    BY <1>2, MarksStay
<1> HIDE DEF marks
<1>4. Stored(s) /\ (Fingerprint(s) = Fingerprint(c.st) => s = c.st)
    BY <1>2, <1>3, AcksPatch, Zenon
<1> HIDE DEF s
<1> QED BY <1>1, <1>4, RenderKeeps

\* Taking out what has ended.
LEMMA SweepKeeps ==
    ASSUME now \in Nat, NEW c, PageOK(c, now)
    PROVE  PageOK(SweepMaint(c), now)
<1> DEFINE m == c.st.maint
           swept == [d \in DOMAIN m \ ExpiredMaint(m, now) |-> m[d]]
           s == [c.st EXCEPT !.maint = swept]
<1>1. SweepMaint(c) = Render(c, s)
    BY Zenon DEF SweepMaint
<1>2. Stored(c.st) /\ m \in [DOMAIN m -> Int]
    BY Zenon DEF PageOK, Stored
<1>3. swept \in [DOMAIN swept -> Int]
    <2> HIDE DEF m
    <2> QED BY <1>2
<1> HIDE DEF swept, m
<1>4. Stored(s) /\ (Fingerprint(s) = Fingerprint(c.st) => s = c.st)
    BY <1>2, <1>3, MaintPatch, Zenon
<1> HIDE DEF s
<1> QED BY <1>1, <1>4, RenderKeeps

\* The three renders of a patch or a tick.
LEMMA SettleKeeps ==
    ASSUME now \in Nat, NEW c, PageOK(c, now), NEW s, Stored(s), Fingerprint(s) = Fingerprint(c.st) => s = c.st
    PROVE  PageOK(Settle(c, s), now)
<1>1. PageOK(Render(c, s), now)
    BY RenderKeeps
<1>2. PageOK(ApplyAutoAck(Render(c, s)), now)
    BY <1>1, AutoAckKeeps
<1>3. PageOK(SweepMaint(ApplyAutoAck(Render(c, s))), now)
    BY <1>2, SweepKeeps
<1> QED BY <1>3 DEF Settle

\* A store that differs in some plain fields only.
Differ(r, s, F) ==
    IsMap(r) /\ DOMAIN r = StoreFields /\ \A g \in StoreFields : g \notin F => r[g] = s[g]

\* It has the shape of a store, and is the same one if these fields are.
LEMMA PlainDiffer ==
    ASSUME NEW s, Stored(s), NEW r, NEW F \in SUBSET Plain, Differ(r, s, F)
    PROVE  Stored(r) /\ ((\A g \in F : r[g] = s[g]) => r = s)
<1>1. /\ IsMap(r) /\ DOMAIN r = StoreFields /\ \A g \in StoreFields : g \notin F => r[g] = s[g]
      /\ IsMap(s) /\ DOMAIN s = StoreFields
    BY DEF Differ, Stored
<1>2. r.poll = s.poll /\ r.acks = s.acks /\ r.maint = s.maint /\ r.fleet = s.fleet
    BY <1>1 DEF Plain, StoreFields
<1>3. Stored(r)
    BY <1>1, <1>2, Zenon DEF Stored
<1>4. ASSUME \A g \in F : r[g] = s[g] PROVE r = s
    <2>1. \A g \in StoreFields : r[g] = s[g]
        BY <1>1, <1>4
    <2> QED BY <1>1, <2>1, Zenon DEF IsMap
<1> QED BY <1>3, <1>4

\* A failure of the poll.
LEMMA FailureFresh == ASSUME DeskInv, Failure PROVE DeskInv'
<1> DEFINE s2 == [con.st EXCEPT !.err = TRUE, !.stale = TRUE]
<1>1. PageOK(con, now) /\ Stored(con.st) /\ now \in Nat /\ now' = now
    BY DEF DeskInv, PageOK, Failure
<1>2. IsMap(con.st) /\ DOMAIN con.st = StoreFields
    BY <1>1 DEF Stored
<1>3. Differ(s2, con.st, {"err", "stale"})
    BY <1>2 DEF Differ, IsMap, StoreFields
<1>4. con' = Settle(con, s2)
    BY DEF Failure
<1> HIDE DEF s2
<1>5. {"err", "stale"} \in SUBSET Plain
    BY DEF Plain, StoreFields
<1>6. Stored(s2) /\ ((\A g \in {"err", "stale"} : s2[g] = con.st[g]) => s2 = con.st)
    BY <1>1, <1>3, <1>5, PlainDiffer
<1>7. Fingerprint(s2) = Fingerprint(con.st) => s2 = con.st
    BY <1>6, SamePrint
<1> QED BY <1>1, <1>4, <1>6, <1>7, SettleKeeps DEF DeskInv

\* A tick.
LEMMA TickFresh == ASSUME DeskInv, Tick PROVE DeskInv'
<1> DEFINE v == con.st.err \/ (con.st.at # 0 /\ now - con.st.at > StaleAfter)
           s2 == [con.st EXCEPT !.stale = v]
<1>1. PageOK(con, now) /\ Stored(con.st) /\ now \in Nat /\ now' = now
    BY DEF DeskInv, PageOK, Tick
<1>2. IsMap(con.st) /\ DOMAIN con.st = StoreFields
    BY <1>1 DEF Stored
<1>4. con' = Settle(con, s2)
    BY Zenon DEF Tick
<1> HIDE DEF v
<1>3. Differ(s2, con.st, {"stale"})
    BY <1>2 DEF Differ, IsMap, StoreFields
<1> HIDE DEF s2
<1>5. {"stale"} \in SUBSET Plain
    BY DEF Plain, StoreFields
<1>6. Stored(s2) /\ ((\A g \in {"stale"} : s2[g] = con.st[g]) => s2 = con.st)
    BY <1>1, <1>3, <1>5, PlainDiffer
<1>7. Fingerprint(s2) = Fingerprint(con.st) => s2 = con.st
    BY <1>6, SamePrint
<1> QED BY <1>1, <1>4, <1>6, <1>7, SettleKeeps DEF DeskInv

\* A list that is clipped is a list.
LEMMA FewerListed ==
    ASSUME NEW S, NEW q \in Seq(S), NEW n \in Nat
    PROVE  Clip(q, n) \in Seq(ToSet(Clip(q, n)))
<1> DEFINE m == IF Len(q) < n THEN Len(q) ELSE n
           p == Clip(q, n)
<1>1. m \in Nat /\ m <= Len(q) /\ Len(q) \in Nat
    BY LenProperties
<1>2. p = SubSeq(q, 1, m)
    BY Zenon DEF Clip
<1> HIDE DEF m, p
<1>3. p \in Seq(S)
    BY <1>1, <1>2, SubSeqProperties
<1>4. \A i \in 1..Len(p) : p[i] \in ToSet(p)
    BY <1>3, LenProperties DEF ToSet
<1>5. p \in [1..Len(p) -> ToSet(p)]
    BY <1>3, <1>4, LenProperties
<1>6. Len(p) \in Nat
    BY <1>3, LenProperties
<1>7. p \in Seq(ToSet(p))
    BY <1>5, <1>6
<1> QED BY <1>7 DEF p

\* An answer: the counter of answers is in the fingerprint.
LEMMA AnswerFresh == ASSUME DeskInv, NEW r \in Reports, AnswerWith(r) PROVE DeskInv'
<1> DEFINE fl == [i \in DOMAIN r.fleet |-> NormalizeDevice(r.fleet[i], MaxAlerts)]
           s2 == [con.st EXCEPT
                 !.fleet = fl,
                 !.events = r.events, !.overall = r.overall, !.sample = r.sample,
                 !.poll = @ + 1, !.at = now, !.err = FALSE, !.stale = FALSE]
<1>1. PageOK(con, now) /\ Stored(con.st) /\ now \in Nat /\ now' = now
    BY DEF DeskInv, PageOK, AnswerWith
<1>2. con' = Settle(con, s2)
    BY Zenon DEF AnswerWith
<1>3. Listed(fl)
    <2> SUFFICES ASSUME NEW i \in DOMAIN r.fleet PROVE fl[i].alerts \in Seq(ToSet(fl[i].alerts))
        BY DEF Listed
    <2> DEFINE raw == r.fleet[i]
    <2>1. {"alerts", "cpu", "mem", "vmRunning"} \subseteq DOMAIN raw /\ raw.alerts \in Seq(ToSet(raw.alerts))
        BY ReportsAssumption
    <2> HIDE DEF raw
    <2>2. NormalizeDevice(raw, MaxAlerts).alerts = Clip(raw.alerts, MaxAlerts)
        BY <2>1 DEF NormalizeDevice
    <2>3. fl[i].alerts = Clip(raw.alerts, MaxAlerts)
        BY <2>2 DEF raw
    <2> QED BY <2>1, <2>3, FewerListed, LimitsAssumption
<1>4. IsMap(con.st) /\ DOMAIN con.st = StoreFields /\ con.st.poll \in Nat
      /\ IsMap(con.st.acks) /\ con.st.maint \in [DOMAIN con.st.maint -> Int]
    BY <1>1, Zenon DEF Stored
<1> HIDE DEF fl
<1>5. /\ IsMap(s2) /\ DOMAIN s2 = StoreFields /\ s2.fleet = fl /\ s2.poll = con.st.poll + 1
      /\ s2.acks = con.st.acks /\ s2.maint = con.st.maint
    <2>1. IsMap(s2)
        BY Zenon DEF IsMap
    <2>2. DOMAIN s2 = StoreFields
        BY <1>4
    <2>3. s2.fleet = fl /\ s2.poll = con.st.poll + 1
        BY <1>4 DEF StoreFields
    <2>4. s2.acks = con.st.acks /\ s2.maint = con.st.maint
        BY <1>4 DEF StoreFields
    <2> QED BY <2>1, <2>2, <2>3, <2>4
<1> HIDE DEF s2
<1>6. s2.poll \in Nat /\ s2.poll # con.st.poll
    BY <1>4, <1>5
<1>7. Stored(s2)
    BY <1>3, <1>4, <1>5, <1>6, Zenon DEF Stored
<1>8. Fingerprint(s2) # Fingerprint(con.st)
    BY <1>6, SamePrint
<1> QED BY <1>1, <1>2, <1>7, <1>8, SettleKeeps DEF DeskInv

\* An alert is acknowledged or released: the keys change or nothing does.
LEMMA AckFresh == ASSUME DeskInv, Ack PROVE DeskInv'
<1>1. PageOK(con, now) /\ Stored(con.st) /\ now \in Nat /\ now' = now
    BY DEF DeskInv, PageOK, Ack
<1> DEFINE m == con.st.acks
<1>2. IsMap(m)
    BY <1>1 DEF Stored
<1>3. PICK a : con' = Render(con, [con.st EXCEPT !.acks =
                  IF a.acked THEN [k \in DOMAIN m \ {a.key} |-> m[k]] ELSE AckedToo(m, {a.key})])
    BY Zenon DEF Ack
<1> DEFINE n == IF a.acked THEN [k \in DOMAIN m \ {a.key} |-> m[k]] ELSE AckedToo(m, {a.key})
           s2 == [con.st EXCEPT !.acks = n]
<1>4. con' = Render(con, s2)
    BY <1>3
<1> HIDE DEF m
<1>5. IsMap(n) /\ (DOMAIN n = DOMAIN m => n = m)
    <2>1. CASE a.acked
        <3> DEFINE w == [k \in DOMAIN m \ {a.key} |-> m[k]]
        <3>1. IsMap(w) /\ DOMAIN w = DOMAIN m \ {a.key} /\ \A k \in DOMAIN w : w[k] = m[k]
            BY DEF IsMap
        <3> HIDE DEF w
        <3>2. DOMAIN w = DOMAIN m => w = m
            BY <1>2, <3>1, Zenon DEF IsMap
        <3>3. n = w
            BY <2>1 DEF w
        <3> QED BY <3>1, <3>2, <3>3
    <2>2. CASE ~a.acked
        BY <1>2, <2>2, MarksStay
    <2> QED BY <2>1, <2>2
<1> HIDE DEF n
<1>6. Stored(s2) /\ (Fingerprint(s2) = Fingerprint(con.st) => s2 = con.st)
    BY <1>1, <1>5, AcksPatch, Zenon DEF m
<1> HIDE DEF s2
<1> QED BY <1>1, <1>4, <1>6, RenderKeeps DEF DeskInv

\* A window is set or removed.
LEMMA MaintSetFresh == ASSUME DeskInv, MaintSet PROVE DeskInv'
<1>1. PageOK(con, now) /\ Stored(con.st) /\ now \in Nat /\ now' = now
    BY DEF DeskInv, PageOK, MaintSet
<1> DEFINE m == con.st.maint
<1>2. m \in [DOMAIN m -> Int]
    BY <1>1 DEF Stored
<1>3. PICK d \in ToSet(con.st.fleet), len \in Windows \cup {0} :
        con' = Render(con, [con.st EXCEPT !.maint =
               IF len = 0 THEN [x \in DOMAIN m \ {d.id} |-> m[x]]
               ELSE [x \in DOMAIN m \cup {d.id} |-> IF x = d.id THEN now + len ELSE m[x]]])
    BY Zenon DEF MaintSet
<1> DEFINE n == IF len = 0 THEN [x \in DOMAIN m \ {d.id} |-> m[x]]
                ELSE [x \in DOMAIN m \cup {d.id} |-> IF x = d.id THEN now + len ELSE m[x]]
           s2 == [con.st EXCEPT !.maint = n]
<1>4. con' = Render(con, s2)
    BY <1>3
<1>0. now + len \in Int
    BY <1>1, LimitsAssumption
<1> HIDE DEF m
<1>5. n \in [DOMAIN n -> Int]
    BY <1>0, <1>2
<1> HIDE DEF n
<1>6. Stored(s2) /\ (Fingerprint(s2) = Fingerprint(con.st) => s2 = con.st)
    BY <1>1, <1>5, MaintPatch, Zenon
<1> HIDE DEF s2
<1> QED BY <1>1, <1>4, <1>6, RenderKeeps DEF DeskInv

\* What a click leaves in the store differs in fields the fingerprint holds.
LEMMA ClickDiffers ==
    ASSUME NEW s, Stored(s), NEW r, NEW F \in SUBSET {"ov", "nodes", "clusters", "alert", "level", "sort", "dir",
                                                    "logQuery", "search", "collapsed"}, Differ(r, s, F)
    PROVE  Stored(r) /\ (Fingerprint(r) = Fingerprint(s) => r = s)
<1>1. F \in SUBSET Plain
    BY DEF Plain, StoreFields
<1>2. Stored(r) /\ ((\A g \in F : r[g] = s[g]) => r = s)
    BY <1>1, PlainDiffer
<1>3. ASSUME Fingerprint(r) = Fingerprint(s) PROVE \A g \in F : r[g] = s[g]
    BY <1>3, SamePrint
<1> QED BY <1>2, <1>3

\* Such a click.
LEMMA ClickRenders ==
    ASSUME DeskInv, now' = now, NEW F \in SUBSET {"ov", "nodes", "clusters", "alert", "level", "sort", "dir",
                                                "logQuery", "search", "collapsed"},
           NEW r, Differ(r, con.st, F), con' = Render(con, r)
    PROVE  DeskInv'
<1>1. PageOK(con, now) /\ Stored(con.st) /\ now \in Nat
    BY DEF DeskInv, PageOK
<1>2. Stored(r) /\ (Fingerprint(r) = Fingerprint(con.st) => r = con.st)
    BY <1>1, ClickDiffers
<1> QED BY <1>1, <1>2, RenderKeeps DEF DeskInv

\* Every click.
LEMMA ClickFresh == ASSUME DeskInv, NEW c \in Clicks, ClickOn(c) PROVE DeskInv'
<1>1. PageOK(con, now) /\ Stored(con.st) /\ now \in Nat /\ now' = now
    BY DEF DeskInv, PageOK, ClickOn
<1>2. IsMap(con.st) /\ DOMAIN con.st = StoreFields
    BY <1>1 DEF Stored
<1>3. CASE c.field = "ov"
    <2> DEFINE r == [con.st EXCEPT !.ov = c.value]
    <2>1. con' = Render(con, r)
        BY <1>3 DEF ClickOn
    <2>2. Differ(r, con.st, {"ov"})
        BY <1>2 DEF Differ, IsMap, StoreFields
    <2> QED BY <1>1, <2>1, <2>2, ClickRenders
<1>4. CASE c.field = "nodes"
    <2> DEFINE r == [con.st EXCEPT !.nodes = c.value]
    <2>1. con' = Render(con, r)
        BY <1>4 DEF ClickOn
    <2>2. Differ(r, con.st, {"nodes"})
        BY <1>2 DEF Differ, IsMap, StoreFields
    <2> QED BY <1>1, <2>1, <2>2, ClickRenders
<1>5. CASE c.field = "clusters"
    <2> DEFINE r == [con.st EXCEPT !.clusters = c.value]
    <2>1. con' = Render(con, r)
        BY <1>5 DEF ClickOn
    <2>2. Differ(r, con.st, {"clusters"})
        BY <1>2 DEF Differ, IsMap, StoreFields
    <2> QED BY <1>1, <2>1, <2>2, ClickRenders
<1>6. CASE c.field = "alert"
    <2> DEFINE r == [con.st EXCEPT !.alert = c.value, !.level = c.value]
    <2>1. con' = Render(con, r)
        BY <1>6 DEF ClickOn
    <2>2. Differ(r, con.st, {"alert", "level"})
        BY <1>2 DEF Differ, IsMap, StoreFields
    <2> QED BY <1>1, <2>1, <2>2, ClickRenders
<1>7. CASE c.field = "sort"
    <2> DEFINE r == [con.st EXCEPT !.sort = c.value,
                        !.dir = IF con.st.sort = c.value /\ @ = "asc" THEN "desc" ELSE "asc"]
    <2>1. con' = Render(con, r)
        BY <1>7 DEF ClickOn
    <2>2. Differ(r, con.st, {"sort", "dir"})
        BY <1>2 DEF Differ, IsMap, StoreFields
    <2> QED BY <1>1, <2>1, <2>2, ClickRenders
<1>8. CASE c.field = "query"
    <2> DEFINE r == [con.st EXCEPT !.logQuery = c.value]
    <2>1. con' = Render(con, r)
        BY <1>8 DEF ClickOn
    <2>2. Differ(r, con.st, {"logQuery"})
        BY <1>2 DEF Differ, IsMap, StoreFields
    <2> QED BY <1>1, <2>1, <2>2, ClickRenders
<1>9. CASE c.field = "search"
    <2> DEFINE r == [con.st EXCEPT !.search = c.value]
    <2>1. con' = Render(con, r)
        BY <1>9 DEF ClickOn
    <2>2. Differ(r, con.st, {"search"})
        BY <1>2 DEF Differ, IsMap, StoreFields
    <2> QED BY <1>1, <2>1, <2>2, ClickRenders
<1>10. CASE c.field = "fold"
    <2> DEFINE r == [con.st EXCEPT !.collapsed =
                        IF c.value \in @ THEN @ \ {c.value} ELSE @ \cup {c.value}]
    <2>1. con' = Render(con, r)
        BY <1>10 DEF ClickOn
    <2>2. Differ(r, con.st, {"collapsed"})
        BY <1>2 DEF Differ, IsMap, StoreFields
    <2> QED BY <1>1, <2>1, <2>2, ClickRenders
<1> QED BY <1>3, <1>4, <1>5, <1>6, <1>7, <1>8, <1>9, <1>10, ClicksAssumption

\* A page that is loaded builds its model.
LEMMA BootFresh ==
    ASSUME now \in Nat, NEW acks, IsMap(acks), NEW maint, maint \in [DOMAIN maint -> Int]
    PROVE  PageOK(Boot(acks, maint), now)
<1> DEFINE s == [fleet |-> <<>>, events |-> <<>>, overall |-> "none", poll |-> 0, at |-> 0,
              err |-> FALSE, stale |-> FALSE, sample |-> FALSE, acks |-> acks, maint |-> maint,
              ov |-> "all", nodes |-> "all", clusters |-> "all", alert |-> "all", level |-> "all",
              sort |-> "host", dir |-> "asc", logQuery |-> NoQuery, search |-> NoQuery, collapsed |-> {}]
           c == [st |-> s, onset |-> <<>>, memo |-> [key |-> <<>>]]
<1>1. Boot(acks, maint) = Render(c, s)
    BY Zenon DEF Boot
<1>2. /\ IsMap(s) /\ DOMAIN s = StoreFields /\ s.poll = 0 /\ s.acks = acks /\ s.maint = maint
      /\ s.fleet = <<>>
    BY DEF IsMap, StoreFields
<1>3. c.memo.key = <<>>
    OBVIOUS
<1> HIDE DEF s, c
<1>4. Listed(s.fleet)
    BY <1>2 DEF Listed
<1>5. Stored(s)
    BY <1>2, <1>4 DEF Stored
<1>6. c.memo.key # Fingerprint(s)
    BY <1>3, NoPrint
<1> QED BY <1>1, <1>5, <1>6, RenderNew

\* Loaded again, with the marks of local storage.
LEMMA ReloadFresh == ASSUME DeskInv, Reload PROVE DeskInv'
<1>1. now \in Nat /\ now' = now /\ IsMap(con.st.acks) /\ con.st.maint \in [DOMAIN con.st.maint -> Int]
    BY DEF DeskInv, PageOK, Stored, Reload
<1>2. PageOK(Boot(con.st.acks, con.st.maint), now)
    BY <1>1, BootFresh
<1>3. con' = Boot(con.st.acks, con.st.maint)
    BY DEF Reload
<1> QED BY <1>1, <1>2, <1>3 DEF DeskInv

\* Time passes: the invariant speaks of every later time.
LEMMA ClockFresh == ASSUME DeskInv, Clock PROVE DeskInv'
<1>1. now \in Nat /\ now' = now + 1 /\ now' \in Nat /\ con' = con
    BY DEF DeskInv, Clock
<1>2. ASSUME NEW u \in Nat, u >= now' PROVE u >= now
    BY <1>1, <1>2
<1>3. Fresh(con, now')
    BY <1>2 DEF DeskInv, PageOK, Fresh
<1> QED BY <1>1, <1>3 DEF DeskInv, PageOK

\* The invariant holds.
LEMMA DeskAlways == Spec => []DeskInv
<1>1. Init => DeskInv
    <2> SUFFICES ASSUME Init PROVE DeskInv
        OBVIOUS
    <2>1. now \in Nat /\ con = Boot(<<>>, <<>>)
        BY DEF Init
    <2>2. IsMap(<<>>) /\ <<>> \in [DOMAIN <<>> -> Int]
        BY DEF IsMap
    <2> QED BY <2>1, <2>2, BootFresh DEF DeskInv
<1>2. DeskInv /\ [Next]_vars => DeskInv'
    <2> SUFFICES ASSUME DeskInv, [Next]_vars PROVE DeskInv'
        OBVIOUS
    <2>1. CASE UNCHANGED vars
        BY <2>1 DEF vars, DeskInv
    <2>2. CASE Answer
        BY <2>2, AnswerFresh DEF Answer
    <2>3. CASE Click
        BY <2>3, ClickFresh DEF Click
    <2> QED BY <2>1, <2>2, <2>3, FailureFresh, TickFresh, AckFresh, MaintSetFresh, ReloadFresh, ClockFresh DEF Next
<1> QED BY <1>1, <1>2, PTL DEF Spec

\* After any number of answers, failures, marks, clicks, ticks and reloads, what
\* every screen draws from is the model of the current store, as soon as windows
\* that have ended are swept.
THEOREM ModelAlwaysFresh == Spec => []ModelFresh
<1>1. DeskInv => ModelFresh
    <2> SUFFICES ASSUME DeskInv, ExpiredMaint(con.st.maint, now) = {}
                 PROVE  con.memo.model = ModelOf(con.st, con.onset, now)
        BY Zenon DEF ModelFresh, Model
    <2> QED BY DEF DeskInv, PageOK, Fresh
<1> QED BY <1>1, DeskAlways, PTL

=============================================================================
