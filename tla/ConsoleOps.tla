----------------------------- MODULE ConsoleOps -----------------------------
(***************************************************************************)
(* The operations of the shell that go through the confirmation dialog     *)
(* (app.js handleAction): acknowledging one alert, the alerts of a merged  *)
(* row or the filtered list, taking that back, maintenance windows; the    *)
(* toast with its undo; and the shared state of other consoles arriving at *)
(* any moment.                                                             *)
(*                                                                         *)
(* An entry of either map is who wrote it; NoOne where there is none.      *)
(***************************************************************************)
EXTENDS Integers, FiniteSets

CONSTANTS
    AckKeys,        \* alert keys
    MaintIds,       \* devices
    MaxOps          \* bound on the number of operations and remote changes

VARIABLE ops

NoOne == "none"
Writers == {"me", "peer"}
Slots == AckKeys \cup MaintIds
NoDialog == [open |-> FALSE]
NoToast == [shown |-> FALSE]

OpsInit ==
    \E m \in [Slots -> {NoOne, "peer"}] :
      ops = [map |-> m, demo |-> FALSE, dialog |-> NoDialog, toast |-> NoToast, before |-> m, since |-> FALSE, n |-> 0]

\* incidents.js: the keys the two bulk buttons carry.
bulkAckKeys(acked) == {k \in AckKeys : (ops.map[k] # NoOne) = acked}

-----------------------------------------------------------------------------
(* The dialog: one at a time, with what it tells the operator.             *)

\* requestOperatorConfirmation: refused while another dialog is open.
Dialog(op, slots, says) ==
    /\ ~ ops.dialog.open /\ slots # {} /\ ops.n < MaxOps
    /\ ops' = [ops EXCEPT !.dialog = [open |-> TRUE, op |-> op, slots |-> slots, says |-> says, seen |-> ops.map],
                          !.n = @ + 1]

\* handleAction: refused in sample mode too.
Ask(op, slots, says) == ~ ops.demo /\ Dialog(op, slots, says)

ackAlert(k) == Ask("ackAlert", {k}, IF ops.map[k] # NoOne THEN "remove" ELSE "set")
ackAllVisible == Ask("ackAllVisible", bulkAckKeys(FALSE), "set")
ackClearAll == Ask("ackClearAll", bulkAckKeys(TRUE), "remove")
\* The button of a merged row: releases when all its alerts are acknowledged.
\* It does not go through handleAction, nor through the guard of sample mode.
ackGroup(keys) ==
    Cardinality(keys) > 1
    /\ Dialog("ackGroup", keys, IF \A k \in keys : ops.map[k] # NoOne THEN "remove" ELSE "set")
maintSet(id, on) == Ask("maintSet", {id}, IF on THEN "set" ELSE "remove")

\* confirmationIssues: a reason that is blank keeps the dialog open.
Cancel == ops.dialog.open /\ ops' = [ops EXCEPT !.dialog = NoDialog]

\* What the approved operation writes: ackAlert toggles what it finds now.
Entry(d, s) ==
    IF d.op = "ackAlert" THEN IF ops.map[s] # NoOne THEN NoOne ELSE "me"
    ELSE IF d.says = "set" THEN "me" ELSE NoOne
Carried(d) == [s \in Slots |-> IF s \in d.slots THEN Entry(d, s) ELSE ops.map[s]]

\* showToast replaces the previous toast, its timer and its undo.
Toast(undo) == [shown |-> TRUE, undo |-> undo]
Undo(slots, prev) == [offered |-> TRUE, slots |-> slots, prev |-> prev]
NoUndo == [offered |-> FALSE]

\* The entries the undo closure keeps: those found when the dialog was approved.
Mut_PrevAtOpen(d) == d.seen
Previous(d) == ops.map

Confirm ==
    /\ ops.dialog.open
    /\ LET d == ops.dialog
           undoable == d.op = "ackAllVisible" \/ (d.op = "maintSet" /\ d.says = "set")
       IN ops' = [ops EXCEPT !.map = Carried(d), !.dialog = NoDialog, !.before = ops.map, !.since = FALSE,
                             !.toast = Toast(IF undoable THEN Undo(d.slots, Previous(d)) ELSE NoUndo)]

Undone(u) == [s \in Slots |-> IF s \in u.slots THEN u.prev[s] ELSE ops.map[s]]
toastUndo ==
    /\ ops.toast.shown /\ ops.toast.undo.offered /\ ~ ops.dialog.open
    /\ ops' = [ops EXCEPT !.map = Undone(ops.toast.undo), !.toast = Toast(NoUndo)]
ToastTimer == ops.toast.shown /\ ops' = [ops EXCEPT !.toast = NoToast]

-----------------------------------------------------------------------------
\* applyRemote: another console set or removed an entry.
Remote(s, w) ==
    /\ ops.n < MaxOps /\ ops.map[s] # w
    /\ ops' = [ops EXCEPT !.map[s] = w, !.since = TRUE, !.n = @ + 1]

\* A poll brings or takes the sample fleet.
Demo == ops' = [ops EXCEPT !.demo = ~ @]

OpsNext ==
    \/ (\E k \in AckKeys : ackAlert(k)) \/ ackAllVisible \/ ackClearAll
    \/ \E keys \in SUBSET AckKeys : ackGroup(keys)
    \/ \E id \in MaintIds, on \in BOOLEAN : maintSet(id, on)
    \/ Cancel \/ Confirm \/ toastUndo \/ ToastTimer \/ Demo
    \/ \E s \in Slots, w \in {NoOne, "peer"} : Remote(s, w)

-----------------------------------------------------------------------------
(* Properties.                                                             *)

\* The undo of a toast is that of the operation the toast reports: as long as
\* no other console wrote in between, taking it brings back exactly what was
\* there when the operator approved, entries of other operators included.
UndoRestores ==
    ops.toast.shown /\ ops.toast.undo.offered /\ ~ ops.since => Undone(ops.toast.undo) = ops.before

\* "This alert will be marked acknowledged": approving a dialog that offers to
\* set a mark never removes one, and the other way round.
DialogTellsTruth ==
    [][ ops.dialog.open /\ ~ ops'.dialog.open /\ ops'.map # ops.map =>
          \A s \in ops.dialog.slots : (ops'.map[s] # NoOne) = (ops.dialog.says = "set") ]_ops
=============================================================================
