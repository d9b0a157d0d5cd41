---------------------------- MODULE ConsoleForms ----------------------------
(***************************************************************************)
(* The device management screen (screens/manage.js): one form in the store *)
(* (add wizard, edit, delete), the requests it sends and the answers that  *)
(* come back after the form was closed, replaced, or the screen left.      *)
(*                                                                         *)
(* A device is its id, <<type, name>> as autoKey derives it; what the      *)
(* operator types is one draft at a time.  The overlay an edit puts on the *)
(* device's metadata is ConsolePoll's SaveEdit: it changes no id here.     *)
(***************************************************************************)
EXTENDS ConsoleFleet

CONSTANTS
    OldIds,         \* devices the server knows at the start
    DemoIds,        \* the sample fleet
    AddDrafts,      \* what may stand in the fields of an add or edit form
    DelDrafts,      \* what may stand in the two fields of the delete dialog
    FormTypes,      \* the types the wizard is tried with
    Marks,          \* what is kept per device: acknowledgements, window, note
    MaxMoves,       \* bound on what happens elsewhere: polls, marks, handoffs
    MaxFlight,      \* bound on the requests in flight at a time
    MaxForms        \* bound on the number of forms opened

VARIABLE frm

NoId == <<"", "">>
NoForm == [no |-> 0]

Named(m) == m \notin {"", "###"}        \* a management address that leaves a slug

\* The required credential fields of a type ('*' badges).
reqCredFields(t, plat) ==
    UNION { IF isFT(t) \/ t = "WIN" \/ (t = "SRV" /\ plat = "proxmox") THEN {"admin_user", "admin_pass"} ELSE {},
            IF t = "PI" THEN {"admin_user", "root_pass"} ELSE {},
            IF t = "SRV" /\ plat \in {"redfish", "both"} THEN {"bmc_ip"} ELSE {},
            IF t = "NAS" \/ (t = "SRV" /\ plat = "") THEN {"community"} ELSE {} }

autoKey(t, m) == IF Named(m) THEN <<t, m>> ELSE NoId

reqCredIssue(f) == f.mode = "add" /\ ~ reqCredFields(f.type, f.d.plat) \subseteq f.d.creds

\* What submit, the wizard and the delete dialog refuse; the message names the
\* field, here it is one error of the form.
SubmitIssue(f, fleet) ==
    \/ ~ f.d.label \/ f.d.floor = "bad" \/ reqCredIssue(f)
    \/ f.mode = "add" /\ (~ Named(f.d.mgmt) \/ autoKey(f.type, f.d.mgmt) \in fleet)
NextIssue(f, step) ==
    \/ step = 0 /\ ~ f.d.label
    \/ step = 1 /\ f.d.mgmt = ""
    \/ step = 2 /\ reqCredIssue(f)

\* A reason of 1 to 500 characters and the device's own id.
validateDeleteConfirmation(f) == f.d.reason \in {"", "long"} \/ f.d.phrase # f.key

deleteImpact(s, id) == {k \in Marks : id \in s.marks[k]}

\* A form is an object: its number stands for the reference the code compares.
Form(s, mode, key, type, d) ==
    [no |-> s.made + 1, mode |-> mode, key |-> key, type |-> type, d |-> d, err |-> "", busy |-> FALSE,
     testing |-> FALSE, result |-> "", impact |-> {}]
emptyForm(s) ==
    Form(s, "add", NoId, "EV",
         [label |-> FALSE, mgmt |-> "", creds |-> {"admin_user", "community"}, floor |-> "", plat |-> ""])

Shows(s, f) == [s EXCEPT !.form = f, !.made = @ + 1, !.editKey = NoId]

EditOpened(s, id) ==
    IF s.sample \/ id \notin s.fleet \/ id[1] = "END" THEN [s EXCEPT !.editKey = NoId]
    ELSE Shows(s, Form(s, "edit", id, id[1],
                       [label |-> TRUE, mgmt |-> id[2], creds |-> {}, floor |-> "", plat |-> ""]))

-----------------------------------------------------------------------------
(* The screen comes and goes; the form stays in the store.                 *)

FormsInit ==
    frm = [here |-> FALSE, form |-> NoForm, step |-> 0, editKey |-> NoId, fleet |-> OldIds, srv |-> OldIds, sample |-> FALSE,
           sel |-> NoId, marks |-> [k \in Marks |-> {}], reqs |-> {}, made |-> 0, moves |-> 0]

\* The operator marks a device on another screen and opens its page; "edit
\* settings" there leaves editKey for the next visit of this screen.
FormsDetail(id, k, edit) ==
    /\ ~ frm.here /\ id \in frm.fleet /\ ~ frm.sample /\ frm.moves < MaxMoves
    /\ frm' = [frm EXCEPT !.moves = @ + 1, !.sel = id, !.marks[k] = @ \cup {id}, !.editKey = IF edit THEN id ELSE @]

\* init and the first render, with its handoff.
FormsEnter ==
    /\ ~ frm.here /\ frm.made < MaxForms
    /\ LET s == [frm EXCEPT !.here = TRUE]
       IN frm' = IF s.editKey = NoId THEN s ELSE EditOpened(s, s.editKey)

\* destroy: the context goes, the form does not.
FormsLeave == frm.here /\ frm' = [frm EXCEPT !.here = FALSE]

FormsPoll ==
    /\ frm.moves < MaxMoves
    /\ \E demo \in BOOLEAN :
         frm' = [frm EXCEPT !.moves = @ + 1, !.sample = demo, !.fleet = IF demo THEN DemoIds ELSE frm.srv]

-----------------------------------------------------------------------------
(* Opening and closing.  The rows are inert while a form is open.          *)

Idle == frm.here /\ frm.form = NoForm /\ frm.made < MaxForms
OpenAdd == Idle /\ ~ frm.sample /\ frm' = [Shows(frm, emptyForm(frm)) EXCEPT !.step = 0]
OpenEdit(id) == Idle /\ id \in frm.fleet /\ frm' = EditOpened(frm, id)
OpenDelete(id) ==
    /\ Idle /\ id \in frm.fleet /\ ~ frm.sample /\ id[1] # "END"
    /\ frm' = [frm EXCEPT !.made = @ + 1,
                !.form = [Form(frm, "delete", id, id[1], [reason |-> "", phrase |-> NoId])
                            EXCEPT !.impact = deleteImpact(frm, id)]]

FormShown(modes) == frm.here /\ frm.form # NoForm /\ frm.form.mode \in modes
Patch(f) == frm' = [frm EXCEPT !.form = f]

\* X, Cancel, Escape, the overlay.
CloseModal ==
    /\ FormShown({"add", "edit", "delete"}) /\ ~ frm.form.busy
    /\ frm' = [frm EXCEPT !.form = NoForm, !.step = 0, !.editKey = NoId]

-----------------------------------------------------------------------------
(* Typing and the wizard.                                                  *)

OnInput(d) ==
    /\ FormShown({"add", "edit", "delete"})
    /\ d \in IF frm.form.mode = "delete" THEN DelDrafts ELSE AddDrafts
    /\ LET f == frm.form
       IN Patch([f EXCEPT !.d = d, !.err = IF @ = "server" THEN @ ELSE "",
                  !.key = IF f.mode = "add" /\ d.mgmt # f.d.mgmt THEN autoKey(f.type, d.mgmt) ELSE @,
                  !.result = IF f.mode # "delete" /\ d.plat # f.d.plat THEN "" ELSE @])
PickType(t) ==
    /\ FormShown({"add"}) /\ frm.step = 0
    /\ Patch([frm.form EXCEPT !.type = t, !.key = autoKey(t, frm.form.d.mgmt), !.err = "", !.result = ""])
NextStep ==
    /\ FormShown({"add"}) /\ frm.step < 3
    /\ frm' = IF NextIssue(frm.form, frm.step) THEN [frm EXCEPT !.form.err = "field"]
              ELSE [frm EXCEPT !.form.err = "", !.step = @ + 1]
StepTo(i) ==
    /\ FormShown({"add"}) /\ i <= frm.step
    /\ frm' = [frm EXCEPT !.form.err = "", !.step = i]

-----------------------------------------------------------------------------
(* Requests.                                                               *)

FormReq(f, kind) == [no |-> f.no, kind |-> kind, id |-> f.key]

\* api refuses a write in sample mode without sending it.
SendWrite(f, kind) ==
    /\ Cardinality(frm.reqs) < MaxFlight
    /\ frm' = IF frm.sample THEN [frm EXCEPT !.form = [f EXCEPT !.err = "server"]]
              ELSE [frm EXCEPT !.form = [f EXCEPT !.busy = TRUE, !.err = ""], !.reqs = @ \cup {FormReq(f, kind)}]

Submit ==
    /\ FormShown({"add", "edit"}) /\ (frm.form.mode = "add" => frm.step = 3) /\ ~ frm.form.busy
    /\ LET f == frm.form
           g == IF f.mode = "add" THEN [f EXCEPT !.key = autoKey(f.type, f.d.mgmt)] ELSE f
       IN IF SubmitIssue(f, frm.fleet) THEN Patch([f EXCEPT !.err = "field"]) ELSE SendWrite(g, f.mode)
DoDelete ==
    /\ FormShown({"delete"}) /\ ~ frm.form.busy
    /\ IF validateDeleteConfirmation(frm.form) THEN Patch([frm.form EXCEPT !.err = "field"])
       ELSE SendWrite(frm.form, "delete")
TestConnection ==
    /\ FormShown({"add"}) /\ ~ frm.form.testing /\ ~ frm.form.busy /\ Cardinality(frm.reqs) < MaxFlight
    /\ LET f == frm.form
       IN frm' = IF f.d.mgmt = "" \/ frm.sample THEN [frm EXCEPT !.form.result = "told"]
                 ELSE [frm EXCEPT !.form = [f EXCEPT !.testing = TRUE, !.result = ""],
                                  !.reqs = @ \cup {FormReq(f, "test")}]

\* this.form() === f, which an unmounted screen never finds.
Mut_AnyForm(s, r) == s.here /\ s.form # NoForm
SameForm(s, r) == s.here /\ s.form # NoForm /\ s.form.no = r.no

\* What the server made of a request.
Served(r) ==
    CASE r.kind = "add" -> frm.srv \cup {r.id}
      [] r.kind = "delete" -> frm.srv \ {r.id}
      [] OTHER -> frm.srv

Refused(s, r) ==
    IF SameForm(s, r) THEN [s EXCEPT !.form.busy = FALSE, !.form.err = "server"] ELSE s
Saved(s, r) == IF SameForm(s, r) THEN [s EXCEPT !.form = NoForm, !.step = 0] ELSE s
Deleted(s, r) ==
    [s EXCEPT !.fleet = @ \ {r.id}, !.marks = [k \in Marks |-> @[k] \ {r.id}],
              !.form = IF SameForm(s, r) THEN NoForm ELSE @, !.sel = IF @ = r.id THEN NoId ELSE @]
Tested(s, r) == IF SameForm(s, r) THEN [s EXCEPT !.form.testing = FALSE, !.form.result = "told"] ELSE s

\* An answer, in any order.  A failed request may have reached the server; an
\* edit of which nothing was applied counts as refused.
FormsAnswer(r) ==
    /\ r \in frm.reqs
    /\ \E ok, reached \in BOOLEAN :
         /\ ok => reached
         /\ LET s == [frm EXCEPT !.reqs = @ \ {r}, !.srv = IF reached THEN Served(r) ELSE @]
            IN frm' = CASE r.kind = "test" -> Tested(s, r)
                        [] r.kind # "test" /\ ~ ok -> Refused(s, r)
                        [] r.kind = "delete" /\ ok -> Deleted(s, r)
                        [] r.kind \in {"add", "edit"} /\ ok -> Saved(s, r)

FormsNext ==
    \/ \E id \in frm.fleet, k \in Marks, edit \in BOOLEAN : FormsDetail(id, k, edit)
    \/ FormsEnter \/ FormsLeave \/ FormsPoll \/ OpenAdd \/ CloseModal
    \/ \E id \in frm.fleet : OpenEdit(id) \/ OpenDelete(id)
    \/ \E d \in AddDrafts \cup DelDrafts : OnInput(d)
    \/ \E t \in FormTypes : PickType(t)
    \/ NextStep \/ (\E i \in 0 .. 2 : StepTo(i))
    \/ Submit \/ DoDelete \/ TestConnection
    \/ \E r \in frm.reqs : FormsAnswer(r)

-----------------------------------------------------------------------------
(* Properties.                                                             *)

\* An answer that arrives late, after its form was closed, replaced by another
\* device's or by the edit handoff, neither closes the form now on the screen
\* nor writes an error or a test result into it (#319, #353).
AnswersStayHome ==
    [][ \A r \in frm.reqs \ frm'.reqs :
          frm.form # NoForm /\ frm.form.no # r.no => frm'.form = frm.form /\ frm'.step = frm.step ]_frm
=============================================================================
