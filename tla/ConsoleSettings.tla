-------------------------- MODULE ConsoleSettings --------------------------
(***************************************************************************)
(* The settings screen (screens/settings.js): the notification card with   *)
(* its optimistic policy change, the thresholds and the restore of a       *)
(* backup.  S is the module's state of one visit; an answer is applied to  *)
(* whatever S is there when it comes, also to that of a later visit.       *)
(* A refusal (bad URL, thresholds out of order, a file that is no JSON)    *)
(* only writes a message: it is the guard of the operation here.           *)
(***************************************************************************)
EXTENDS Integers, FiniteSets

CONSTANTS
    Runtimes,       \* notifier health reports the server may send
    Levels,         \* pairs <<warn, crit>> tried in the threshold fields
    Hours,          \* escalation choices
    MaxSets         \* bound on the number of requests sent

VARIABLE cfgs

NoVisit == [open |-> FALSE]
Unloaded == [loaded |-> FALSE, error |-> FALSE, on |-> FALSE, set |-> FALSE, hours |-> 0, rt |-> "none"]
Visit == [open |-> TRUE, busy |-> "", cfg |-> Unloaded, input |-> ""]

\* The badge of the notification card.
notificationDisplay(c) ==
    CASE ~ c.loaded -> "loading"
      [] c.loaded /\ c.error -> "unavailable"
      [] c.loaded /\ ~ c.error /\ ~ c.set -> "unconfigured"
      [] c.loaded /\ ~ c.error /\ c.set /\ ~ c.on -> "disabled"
      [] OTHER -> IF c.rt = "failing" THEN "degraded" ELSE IF c.rt # "healthy" THEN "starting" ELSE "active"

\* A request: what it carries, the configuration its closure holds, and once
\* served the view the server answered with.
NoView == [served |-> FALSE]
Request(kind, body, held) == [no |-> cfgs.sent + 1, kind |-> kind, body |-> body, held |-> held, view |-> NoView]

SetsInit ==
    \E on, set \in BOOLEAN :
      cfgs = [S |-> NoVisit, dialog |-> FALSE, srv |-> [on |-> on /\ set, set |-> set, hours |-> 0],
              th |-> <<78, 90>>, reqs |-> {}, sent |-> 0]

\* init: a fresh S and the GET.
SetsEnter ==
    /\ ~ cfgs.S.open /\ cfgs.sent < MaxSets
    /\ cfgs' = [cfgs EXCEPT !.S = Visit, !.reqs = @ \cup {Request("load", 0, Unloaded)}, !.sent = @ + 1]
SetsLeave == cfgs.S.open /\ cfgs' = [cfgs EXCEPT !.S = NoVisit]

SetsTyped(url) == cfgs.S.open /\ ~ cfgs.dialog /\ cfgs.S.input # url /\ cfgs' = [cfgs EXCEPT !.S.input = url]

CanSend == cfgs.S.open /\ cfgs.S.busy = "" /\ ~ cfgs.dialog /\ cfgs.sent < MaxSets
Launch(s, busy, req) ==
    cfgs' = [cfgs EXCEPT !.S = [s EXCEPT !.busy = busy], !.reqs = @ \cup {req}, !.sent = @ + 1]

\* A URL that parses as http(s), or the one the server already has.
HasUrl == cfgs.S.input = "good" \/ (cfgs.S.input = "" /\ cfgs.S.cfg.set)

SaveHook ==
    /\ CanSend /\ HasUrl
    /\ LET s == cfgs.S
       IN Launch(s, "save", Request("save", [on |-> TRUE, url |-> s.input # "", hours |-> s.cfg.hours], s.cfg))
ClearHook ==
    /\ CanSend /\ cfgs.S.cfg.on
    /\ Launch(cfgs.S, "clear", Request("clear", [on |-> FALSE, url |-> FALSE, hours |-> cfgs.S.cfg.hours], cfgs.S.cfg))

\* The escalation buttons: shown at once, rolled back when the save fails.
escalationTransition(c, h) == [previous |-> c, optimistic |-> [c EXCEPT !.hours = h]]
SetHours(h) ==
    /\ CanSend /\ cfgs.S.cfg.loaded
    /\ LET t == escalationTransition(cfgs.S.cfg, h)
       IN Launch([cfgs.S EXCEPT !.cfg = t.optimistic], "save",
                 Request("policy", [on |-> t.previous.on, url |-> FALSE, hours |-> h], t.previous))

TestHook == CanSend /\ HasUrl /\ Launch(cfgs.S, "test", Request("test", 0, Unloaded))
SaveThresholds(l) ==
    /\ CanSend /\ 0 < l[1] /\ l[1] < l[2] /\ l[2] <= 100
    /\ Launch(cfgs.S, "th", Request("th", l, Unloaded))

\* importConfig: a file, the dialog, the POST.  The dialog outlives the visit
\* that opened it; once approved neither S nor busy is looked at again, and
\* with no S the assignment to it throws before anything is sent.
PickFile == cfgs.S.open /\ cfgs.S.busy = "" /\ ~ cfgs.dialog /\ cfgs' = [cfgs EXCEPT !.dialog = TRUE]
ImportDialog(approved) ==
    /\ cfgs.dialog
    /\ IF approved /\ cfgs.S.open
       THEN /\ cfgs.sent < MaxSets
            /\ cfgs' = [cfgs EXCEPT !.dialog = FALSE, !.S.busy = "bk", !.sent = @ + 1,
                                    !.reqs = @ \cup {Request("bk", 0, Unloaded)}]
       ELSE cfgs' = [cfgs EXCEPT !.dialog = FALSE]

-----------------------------------------------------------------------------
(* The server serves, the answer arrives later, or the request fails here. *)

IsPut(r) == r.kind \in {"save", "clear", "policy"}
Written(r) ==
    IF IsPut(r) THEN [on |-> r.body.on, set |-> cfgs.srv.set \/ r.body.url, hours |-> r.body.hours] ELSE cfgs.srv
sanitizeNotificationConfig(srv, rt) ==
    [served |-> TRUE, on |-> srv.on, set |-> srv.set, hours |-> srv.hours, rt |-> rt]

SetsServe(r, rt) ==
    /\ r \in cfgs.reqs /\ ~ r.view.served
    /\ cfgs' = [cfgs EXCEPT !.srv = Written(r),
                 !.reqs = (@ \ {r}) \cup {[r EXCEPT !.view = sanitizeNotificationConfig(Written(r), rt)]}]

Taken(v) == [loaded |-> TRUE, error |-> FALSE, on |-> v.on, set |-> v.set, hours |-> v.hours, rt |-> v.rt]

LoadNotifications(s, r, ok) ==
    IF ok THEN [s EXCEPT !.cfg = Taken(r.view)] ELSE [s EXCEPT !.cfg.loaded = TRUE, !.cfg.error = TRUE]

\* The tail every write shares: the flag goes down whatever the answer was.
Mut_OnlyOnSuccess(s, ok) == IF ok THEN [s EXCEPT !.busy = ""] ELSE s
Released(s, ok) == [s EXCEPT !.busy = ""]

PutAnswered(s, r, ok) ==
    Released([s EXCEPT !.input = "",
                !.cfg = IF ok THEN [Taken(r.view) EXCEPT !.on = r.body.on, !.hours = r.body.hours]
                        ELSE IF r.kind = "policy" THEN r.held ELSE @], ok)

SetsAnswer(r, ok) ==
    /\ r \in cfgs.reqs /\ (ok => r.view.served)
    /\ cfgs' = [cfgs EXCEPT !.reqs = @ \ {r},
                 !.th = IF r.kind = "th" /\ ok THEN r.body ELSE @,
                 !.S = CASE ~ @.open -> @
                         [] @.open /\ r.kind = "load" -> LoadNotifications(@, r, ok)
                         [] @.open /\ IsPut(r) -> PutAnswered(@, r, ok)
                         [] @.open /\ r.kind \in {"th", "test", "bk"} -> Released(@, ok)]

SetsNext ==
    \/ SetsEnter \/ SetsLeave \/ (\E u \in {"", "good", "bad"} : SetsTyped(u))
    \/ SaveHook \/ ClearHook \/ TestHook \/ (\E h \in Hours : SetHours(h))
    \/ \E l \in Levels : SaveThresholds(l)
    \/ PickFile \/ (\E b \in BOOLEAN : ImportDialog(b))
    \/ \E r \in cfgs.reqs, rt \in Runtimes : SetsServe(r, rt)
    \/ \E r \in cfgs.reqs, ok \in BOOLEAN : SetsAnswer(r, ok)

-----------------------------------------------------------------------------
(* Properties.                                                             *)

\* A busy page (every button of it disabled) has a request of that kind under
\* way, and a notification card that says "loading" a load: leaving, returning,
\* failures, rollbacks, late answers of an earlier visit and a restore approved
\* over another save never leave the page locked or loading for good.
PageNeverLocks ==
    cfgs.S.open =>
      /\ cfgs.S.busy # "" => \E r \in cfgs.reqs : cfgs.S.busy = IF r.kind = "policy" THEN "save" ELSE r.kind
      /\ notificationDisplay(cfgs.S.cfg) = "loading" => \E r \in cfgs.reqs : r.kind = "load"
=============================================================================
