-------------------------- MODULE MC_ConsoleDesk ---------------------------
(***************************************************************************)
(* What the operator sees and does, in one run: the model of the fleet     *)
(* behind every screen, two screens that keep their DOM, the device forms, *)
(* the settings page and the operations of the shell.  They are checked    *)
(* side by side: desk says whose behaviour it is; the others rest in an    *)
(* initial state.                                                          *)
(***************************************************************************)
EXTENDS ConsoleScreens, ConsoleForms, ConsoleSettings, ConsoleOps

VARIABLE desk

\* A healthy device without alerts.
Dev(id) ==
    [id |-> id, type |-> "EV", status |-> "op", sync |-> "sync", cpu |-> 10 * id, mem |-> 95, up |-> id,
     since |-> 0, alerts |-> <<>>, traps |-> <<>>, unit |-> [vt |-> 0, vu |-> 0, mt |-> 0, mu |-> 0],
     lic |-> {}, storage |-> <<>>, nodes |-> <<>>, vms |-> <<>>, vmRunning |-> NA, changes |-> <<>>,
     error |-> FALSE, tiers |-> {}, company |-> "c1", factory |-> "f1"]

Al(kind, sev, time) == [name |-> <<kind, "text">>, sev |-> sev, time |-> time]
Down(time) == [name |-> <<StateKind, "down">>, sev |-> "critical", time |-> time]
Node(run, normal, maint) == [run |-> run, normal |-> normal, maint |-> maint, prim |-> FALSE]

\* The fleets: alerts without a time, a state alert whose time moves with
\* every answer, a device the collector reports no alert for, the fixture.
DevA == [Dev(1) EXCEPT !.alerts = <<Al("disk", "critical", 0), Al("fan", "warning", 1)>>,
           !.lic = {[expires |-> TRUE, date |-> 30]}, !.storage = <<80, NA, 95>>,
           !.unit = [vt |-> 4, vu |-> 4, mt |-> 0, mu |-> 0],
           !.vms = <<[node |-> "n0", run |-> TRUE], [node |-> "", run |-> FALSE]>>]
DevB == [Dev(2) EXCEPT !.type = "PC", !.status = "down", !.alerts = <<Down(2)>>, !.company = "c2",
           !.changes = <<1>>]
Fix  == [Dev(3) EXCEPT !.alerts = <<Al("disk", "critical", 0)>>, !.traps = <<[sev |-> "info", time |-> 1]>>]

Ev(kind, host, time) == [host |-> host, name |-> <<kind, "">>, sev |-> "warning", time |-> time]

MCReports == {
    [fleet |-> <<DevA, DevB, Fix>>, events |-> <<>>, overall |-> "none", sample |-> FALSE],
    [fleet |-> <<[DevA EXCEPT !.nodes = <<Node(TRUE, TRUE, FALSE), Node(TRUE, FALSE, TRUE)>>,
                              !.sync = "simplex"],
                 [DevB EXCEPT !.alerts = <<Down(3)>>]>>,
     events |-> <<Ev("STATE_CHANGE", 2, 4), Ev("STATE_CHANGE", 2, 3), Ev("STATE_CHANGE", 3, 3),
                  Ev("STATE_CHANGE", 2, 2)>>, overall |-> "critical", sample |-> FALSE],
    [fleet |-> <<[DevB EXCEPT !.alerts = <<>>, !.error = TRUE],
                 [DevA EXCEPT !.id = 4, !.status = "deg", !.alerts = <<>>, !.tiers = {"slow"},
                              !.lic = {[expires |-> TRUE, date |-> NoDate]}],
                 [DevA EXCEPT !.alerts = <<Al("disk", "critical", 2)>>]>>,
     events |-> <<Ev("STATE_CHANGE", 2, 4), Ev("LOGIN", 1, 4), Ev("STATE_CHANGE", 2, 3)>>,
     overall |-> "none", sample |-> TRUE] }

MCClicks ==
    {[field |-> "nodes", value |-> "attention"], [field |-> "fold", value |-> <<"c1">>]}

\* The screens: the nodes of a device come and go, alerts that read the same,
\* one of which changes its severity and nothing else, a fleet large enough for the table.
Noisy == [Dev(1) EXCEPT !.alerts = <<Al("disk", "critical", 3), Al("fan", "warning", 3), Al("fan", "warning", 2)>>]
MCScreenReports == {
    [fleet |-> <<Noisy, DevB>>, events |-> <<>>, overall |-> "none", sample |-> FALSE],
    [fleet |-> <<[Noisy EXCEPT !.nodes = <<Node(TRUE, TRUE, FALSE), Node(TRUE, FALSE, TRUE)>>], DevB>>,
     events |-> <<Ev("LOGIN", 1, 3)>>, overall |-> "none", sample |-> FALSE],
    [fleet |-> <<[Noisy EXCEPT !.alerts[1].sev = "warning"], DevB>>, events |-> <<>>, overall |-> "none",
     sample |-> FALSE],
    [fleet |-> <<DevB, Noisy, [Dev(4) EXCEPT !.alerts = <<Al("fan", "info", 0)>>]>>, events |-> <<>>,
     overall |-> "none", sample |-> FALSE] }
MCScreenClicks ==
    {[field |-> "sort", value |-> "cpu"], [field |-> "alert", value |-> "warning"],
     [field |-> "search", value |-> [hosts |-> {2}, kinds |-> {"disk"}]]}

\* The forms: an editable device, a display-only one, new names, names taken.
Draft(label, mgmt, creds, floor, plat) == [label |-> label, mgmt |-> mgmt, creds |-> creds, floor |-> floor, plat |-> plat]
MCAddDrafts == {
    Draft(TRUE, "b", {"admin_user", "admin_pass", "community"}, "", ""),
    Draft(TRUE, "a", {"admin_user", "admin_pass"}, "bad", "redfish") }
MCOldIds == {<<"EV", "a">>, <<"END", "z">>}
MCDemoIds == {<<"EV", "demo">>}
MCDelDrafts == {[reason |-> "given", phrase |-> <<"EV", "a">>], [reason |-> "long", phrase |-> NoId]}
MCLevels == {<<70, 80>>, <<80, 80>>}      \* the second is out of order

DeskVars == <<vars, scr, frm, cfgs, ops, desk>>

NoSets == cfgs = [S |-> NoVisit, dialog |-> FALSE, srv |-> [on |-> FALSE, set |-> FALSE, hours |-> 0],
                  th |-> <<78, 90>>, reqs |-> {}, sent |-> 0]
NoOps == ops = [map |-> [s \in Slots |-> NoOne], demo |-> FALSE, dialog |-> NoDialog, toast |-> NoToast,
                before |-> [s \in Slots |-> NoOne], since |-> FALSE, n |-> 0]

DeskInit(desks) ==
    /\ desk \in desks
    /\ Init /\ ScrInit /\ FormsInit
    /\ IF desk = "settings" THEN SetsInit ELSE NoSets
    /\ IF desk = "ops" THEN OpsInit ELSE NoOps

Here(name) == desk = name /\ UNCHANGED desk
ModelStep == Here("model") /\ Next /\ UNCHANGED <<scr, frm, cfgs, ops>>
ScreensStep == Here("screens") /\ ScreensNext /\ UNCHANGED <<frm, cfgs, ops>>
FormsStep == Here("forms") /\ FormsNext /\ UNCHANGED <<vars, scr, cfgs, ops>>
SetsStep == Here("settings") /\ SetsNext /\ UNCHANGED <<vars, scr, frm, ops>>
OpsStep == Here("ops") /\ OpsNext /\ UNCHANGED <<vars, scr, frm, cfgs>>

DeskSpec ==
    /\ DeskInit({"model", "screens", "forms", "settings", "ops"})
    /\ [][ModelStep \/ ScreensStep \/ FormsStep \/ SetsStep \/ OpsStep]_DeskVars

\* The shell's operations alone.
OpsSpec == DeskInit({"ops"}) /\ [][OpsStep]_DeskVars
=============================================================================
