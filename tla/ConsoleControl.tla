--------------------------- MODULE ConsoleControl ---------------------------
(***************************************************************************)
(* The detail screen at work (screens/detail.js): cards that are patched   *)
(* until their signature changes, the buttons that act on nodes and        *)
(* virtual machines, the dialog that confirms an action, the request that  *)
(* is awaited while the operator moves on, and the operator's note.  The   *)
(* page moves from one device to another without being destroyed.          *)
(***************************************************************************)
EXTENDS ConsoleDetail

CONSTANTS
    Sites,           \* installations, each the sequence of its answers [fleet, caps, sample]
    MaxPosts         \* requests in flight (bound)

VARIABLE ctl
\* ctl is a record:
\*   site    installation             rep     its last answer
\*   sel     selected device, 0 on other screens
\*   sig, cards, base, rows   signature, cards, control and node buttons as built
\*   orders  ghost: the orders of the nodes drawn since the cards were built
\*   last    lastDetail               dlg     confirmState, <<>> when closed
\*   typed   the text asked for is typed      busy    busy
\*   badge   device of resultMsg, 0 for none
\*   bound   noteBoundId              draft   text of the note's field
\*   focus   the field has the focus  notes   saved notes of the devices
\*   posts   requests awaited         sent    last request, and what was shown
\* A text is known by the device it was typed for; 0 is the empty one.

\* nodeNormal of the server: a node in maintenance is not, whatever its standing.
Judged(nodes) == [i \in DOMAIN nodes |-> [nodes[i] EXCEPT !.normal = @ /\ ~nodes[i].maint]]

\* What the server reports of a fault-tolerant device (BuildDevice of
\* internal/deviceview and the derivation of internal/poller it calls): its
\* status follows from its nodes, a device without nodes is down and has no
\* SNMP targets; its redundancy too, unless a volume or a disk that lags makes
\* it simplex.
Derived(d) ==
    /\ d.nodes \in Seq(ToSet(d.nodes)) /\ (d.nodes = <<>> => d.snmp = <<>>)
    /\ \A n \in ToSet(d.nodes) : n # Placeholder /\ "normal" \in DOMAIN n
    /\ d.status = DeriveStatus(Judged(d.nodes))
    /\ d.sync = DeriveSync(Judged(d.nodes), d.status) \/ (d.status # "down" /\ d.sync = "simplex")

ASSUME SitesAssumption ==
    \A site \in DOMAIN Sites :
        /\ 1 \in DOMAIN Sites[site]
        /\ \A r \in DOMAIN Sites[site] : \A d \in ToSet(Sites[site][r].fleet) : isFT(d.type) => Derived(d)

DevIds(site) == UNION {{d.id : d \in ToSet(r.fleet)} : r \in ToSet(Sites[site])}
Rep(c) == Sites[c.site][c.rep]

-----------------------------------------------------------------------------
(* Buttons.                                                                *)

\* controlActionGate: fail closed.
Gate(control, act) ==
    control # <<>> /\ ~control[1].sample /\ act \in control[1].available

NodeMode(n) == IF n.maint THEN "maint" ELSE IF n.down THEN "down" ELSE "up"
NodeActs(mode) == CASE mode = "maint" -> {"node-workoff"} [] mode = "down" -> {"node-recover"}
                    [] OTHER -> {"node-workon", "node-reboot", "node-shutdown"}
VmActs(run) == IF run THEN {"vm-shutdown", "vm-poweroff"} ELSE {"vm-poweron"}
Destructive == {"node-workon", "node-reboot", "node-shutdown", "vm-poweroff"}

\* controlsCard: a row of buttons is made anew when the node's mode changes.
FreshRow(n) == [mode |-> NodeMode(n), target |-> n.name]
PatchRow(row, n) == IF row.mode = NodeMode(n) THEN row ELSE FreshRow(n)
NodesOf(x) == IF x.control = <<>> THEN <<>> ELSE x.control[1].nodes
Order(nodes) == [i \in DOMAIN nodes |-> nodes[i].name]

\* consequenceOf, read off the peer of the node.
Consequence(act, target, nodes) ==
    LET peers == Filter(LAMBDA n : n.name # target, nodes) IN
    IF act \notin {"node-workon", "node-reboot", "node-shutdown"} THEN act
    ELSE IF peers = <<>> \/ peers[1].down \/ peers[1].maint THEN "VMs stop" ELSE "VMs keep running"

-----------------------------------------------------------------------------
(* Rendering.                                                              *)

\* The note's field: another device's text is replaced, a text being typed is
\* left alone.  With the device the badge of the last result goes too.
BindNote(c, id) ==
    IF c.bound # id THEN [c EXCEPT !.bound = id, !.draft = c.notes[id], !.badge = 0]
    ELSE IF c.focus THEN c ELSE [c EXCEPT !.draft = c.notes[id]]

\* Cards: built when the signature changes, else patched.
BuildOrPatch(c, x) ==
    LET nodes == NodesOf(x) IN
    IF c.sig = <<SigOf(x)>>
    THEN [c EXCEPT !.rows = [i \in DOMAIN nodes |-> PatchRow(c.rows[i], nodes[i])],
                   !.orders = @ \cup {Order(nodes)}]
    ELSE [c EXCEPT !.sig = <<SigOf(x)>>, !.cards = Cards(x), !.base = x.control,
                   !.rows = [i \in DOMAIN nodes |-> FreshRow(nodes[i])], !.orders = {Order(nodes)}]

\* render: a device that is gone leaves the page as it is, hidden.
RenderDetail(c) ==
    LET x == BuildDetail(Rep(c), c.sel)
    IN IF c.sel = 0 \/ x = NoDev THEN c
       ELSE BuildOrPatch(BindNote([c EXCEPT !.last = x], x.id), x)
Hidden == ctl.sel = 0 \/ BuildDetail(Rep(ctl), ctl.sel) = NoDev

\* init and destroy leave the same fields behind.
Blank(c) ==
    [c EXCEPT !.sig = <<>>, !.cards = <<>>, !.base = <<>>, !.rows = <<>>, !.orders = {}, !.last = NoDev, !.dlg = <<>>,
              !.typed = FALSE, !.busy = FALSE, !.badge = 0, !.bound = 0, !.draft = 0, !.focus = FALSE]

CtlBoot(site, rep) ==
    ctl = Blank([site |-> site, rep |-> rep, sel |-> 0, sig |-> 0, cards |-> 0, base |-> 0, rows |-> 0, orders |-> 0, last |-> 0,
                 dlg |-> 0, typed |-> 0, busy |-> 0, badge |-> 0, bound |-> 0, draft |-> 0, focus |-> 0,
                 notes |-> [d \in DevIds(site) |-> 0], posts |-> {}, sent |-> <<>>])
CtlInit == \E site \in DOMAIN Sites : CtlBoot(site, 1)

-----------------------------------------------------------------------------
(* Steps.                                                                  *)

CtlAnswer == \E r \in DOMAIN Sites[ctl.site] \ {ctl.rep} : ctl' = RenderDetail([ctl EXCEPT !.rep = r])

\* goDetail, Back within the screen, a link: the page is not destroyed.
CtlOpen == \E d \in DevIds(ctl.site) \ {ctl.sel} : ctl' = RenderDetail([ctl EXCEPT !.sel = d])
CtlLeave == ctl.sel # 0 /\ ctl' = [Blank(ctl) EXCEPT !.sel = 0]

\* A press on an enabled button; enabled is what it was when built.
CtlPress ==
    LET nodeBtns == UNION {{<<a, ctl.rows[i].target>> : a \in NodeActs(ctl.rows[i].mode)} : i \in DOMAIN ctl.rows}
        vmBtns == UNION {{<<a, v.name>> : a \in VmActs(v.run)} : v \in ToSet(ctl.last.control[1].vms)}
        on(card) == Contains(ctl.cards, card)
        btns == (IF on("controls") THEN nodeBtns ELSE {}) \cup (IF on("controls") /\ on("vms") THEN vmBtns ELSE {})
    IN \E b \in btns :
        /\ ~Hidden /\ ctl.dlg = <<>>
        /\ Gate(ctl.base, b[1])
        /\ ctl' = IF ~Gate(ctl.last.control, b[1]) THEN ctl     \* openConfirm refuses
                  ELSE [ctl EXCEPT !.badge = 0, !.typed = FALSE,
                          !.dlg = <<[act |-> b[1], target |-> b[2], dev |-> ctl.last.id,
                                     text |-> Consequence(b[1], b[2], NodesOf(ctl.last))]>>]

CtlType == ctl.dlg # <<>> /\ ~ctl.typed /\ ctl' = [ctl EXCEPT !.typed = TRUE]
CtlCancel == ctl.dlg # <<>> /\ ~ctl.busy /\ ctl' = [ctl EXCEPT !.dlg = <<>>]

\* postAction
Post(c, dev) ==
    LET q == [act |-> c.dlg[1].act, target |-> c.dlg[1].target, dev |-> dev]
    IN [c EXCEPT !.busy = TRUE, !.posts = @ \cup {q},
                 !.sent = <<[q |-> q, dlg |-> c.dlg[1], shown |-> c.last.id, typed |-> c.typed,
                             gate |-> Gate(c.last.control, q.act)]>>]

\* Mutant: the request goes to the device on screen.
Mut_ToShown(c) ==
    IF ~Gate(c.last.control, c.dlg[1].act) THEN [c EXCEPT !.dlg = <<>>, !.badge = c.last.id]
    ELSE Post(c, c.last.id)

\* runConfirm up to its await: closed without a request when the page has
\* moved on; a request that the gate refuses fails at once.
RunConfirm(c) ==
    IF c.dlg[1].dev # c.last.id THEN [c EXCEPT !.dlg = <<>>]
    ELSE IF ~Gate(c.last.control, c.dlg[1].act) THEN [c EXCEPT !.dlg = <<>>, !.badge = c.last.id]
    ELSE Post(c, c.dlg[1].dev)

CtlRun ==
    /\ ctl.dlg # <<>> /\ ~ctl.busy
    /\ ctl.dlg[1].act \in Destructive => ctl.typed
    /\ Cardinality(ctl.posts) < MaxPosts
    /\ ctl' = RunConfirm(ctl)

\* The answer, an error or the end of the 15 s: whatever the page shows now,
\* busy ends and the dialog closes.
CtlAnswered ==
    \E q \in ctl.posts :
        ctl' = [ctl EXCEPT !.posts = @ \ {q}, !.busy = FALSE, !.badge = IF ctl.last.id = q.dev THEN q.dev ELSE @,
                           !.dlg = IF ctl.sel = 0 THEN @ ELSE <<>>]

\* The note: typed, saved (if the field is bound to this device), cleared.
CtlNote ==
    /\ ~Hidden
    /\ \/ ctl.draft # ctl.bound /\ ctl' = [ctl EXCEPT !.draft = ctl.bound, !.focus = TRUE]
       \/ ctl.focus /\ ctl' = RenderDetail([ctl EXCEPT !.focus = FALSE])
       \/ ctl.bound = ctl.last.id /\ ctl' = RenderDetail([ctl EXCEPT !.notes[ctl.last.id] = ctl.draft, !.focus = FALSE])
       \/ ctl' = RenderDetail([ctl EXCEPT !.notes[ctl.last.id] = 0, !.draft = 0])

CtlNext ==
    CtlAnswer \/ CtlOpen \/ CtlLeave \/ CtlPress \/ CtlType \/ CtlCancel \/ CtlRun \/ CtlAnswered \/ CtlNote

-----------------------------------------------------------------------------
(* Properties.                                                             *)

\* Whatever is opened, answered and left in between, what the page does is
\* about the device it shows: a request goes to the device, and the target,
\* of the dialog that was confirmed and of the page that was on screen, is
\* one the server allowed by the last answer rendered, and was spelled out if
\* it is destructive; the badge is of this device; a note is saved for the
\* device it was typed for.
ActsOnShown ==
    /\ \A i \in DOMAIN ctl.sent :
          LET s == ctl.sent[i] IN
          /\ s.q.dev = s.dlg.dev /\ s.q.dev = s.shown /\ s.q.target = s.dlg.target /\ s.gate
          /\ s.q.act \in Destructive => s.typed
    /\ ctl.badge \in {0, ctl.last.id}
    /\ \A d \in DOMAIN ctl.notes : ctl.notes[d] \in {0, d}

\* An answer has brought the nodes in another order since the cards were built, under the
\* same signature: a row whose mode stays the same keeps the node it was made for
\* (detail.js:1046).
Reordered == ctl.orders # {Order(NodesOf(ctl.last))}

\* Cards that were patched, over any sequence of answers, are the cards a fresh page would
\* build, with the same buttons enabled and the same buttons for every node, for the node
\* they name.  Left out is whom the buttons name once the nodes were reordered: a node
\* that had this place since the cards were built, not always the one that has it now.
PatchedIsFresh ==
    LET nodes == NodesOf(ctl.last) IN
    ~Hidden =>
        /\ ctl.cards = Cards(ctl.last) /\ ctl.last = BuildDetail(Rep(ctl), ctl.sel)
        /\ \A a \in ClusterActions : Gate(ctl.base, a) = Gate(ctl.last.control, a)
        /\ DOMAIN ctl.rows = DOMAIN nodes
        /\ \A i \in DOMAIN nodes : \E o \in ctl.orders :
              ctl.rows[i] = [FreshRow(nodes[i]) EXCEPT !.target = o[i]]
        /\ ~Reordered => \A i \in DOMAIN nodes : ctl.rows[i] = FreshRow(nodes[i])

\* No false green: a page with a green header, a green badge of redundancy or
\* a green banner has the nodes for it, and none is green while no node runs.
\* (Not so the pair card: pairState counts a node in maintenance as up.)
NoFalseGreen ==
    LET x == ctl.last
        good == Cardinality({i \in DOMAIN x.nodes : x.nodes[i].tone = "pos"})
    IN ~Hidden /\ isFT(x.type) =>
        /\ x.status = "pos" => good = Len(x.nodes)
        /\ x.sync = "pos" \/ x.ft = "pos" => good >= 2
        /\ good > 0 => x.ft # "neg"

\* The detail page is true: patched as if drawn anew, but for whom the buttons of reordered
\* nodes name; and its header, badge and banner are never green in vain.
DetailIsTrue == PatchedIsFresh /\ NoFalseGreen

=============================================================================
