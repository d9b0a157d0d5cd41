--------------------------- MODULE ConsoleScreens ---------------------------
(***************************************************************************)
(* Two screens that keep their DOM between renders: nodes.js and           *)
(* incidents.js.  A render patches what is there, rebuilds a part when its *)
(* signature changes and touches only the part in view; what a screen      *)
(* shows therefore depends on every render before.  The store and the      *)
(* model are those of ConsoleDesk; scr is the mounted screen, with the     *)
(* fields of the store only it reads.  Wording is left out.                *)
(***************************************************************************)
EXTENDS ConsoleDesk

CONSTANTS
    ScreenReports,   \* answers of the collector
    ScreenClicks,    \* clicks on filters and headers
    CardMax,         \* CARD_MAX: fewer devices are shown as cards
    CardCap, LogCap, \* CAP and LOG_CAP of incidents.js
    AgoUnit,         \* alerts of one such span show the same age
    MaxShow          \* bound: renders

VARIABLE scr

ASSUME ScreenAssumption == CardCap > 0 /\ LogCap > 0 /\ AgoUnit > 0

Ids(seq) == [i \in DOMAIN seq |-> seq[i].id]

-----------------------------------------------------------------------------
(* The nodes screen.                                                       *)

\* physNodes: the nodes of a device, or the device as its only node.
physNodes(d, r) ==
    IF d.nodes = <<>> THEN <<[tone |-> r.tone, role |-> "none", maint |-> FALSE]>>
    ELSE [i \in DOMAIN d.nodes |-> LET n == d.nodes[i] IN
            [tone |-> IF n.maint \/ ~n.run THEN "warn" ELSE "pos",
             role |-> IF n.prim THEN "primary" ELSE "secondary", maint |-> n.maint]]

\* _patchCard and _patchRow: the badge of a device, a window before its state.
Badge(r) == IF r.maintWin THEN "maint" ELSE r.status
HasChip(r) == r.tone \in {"warn", "neg"} \/ r.maintWin
CardHead(r) == [id |-> r.id, type |-> r.type, tone |-> r.tone, badge |-> Badge(r)]
RowCells(r) == [id |-> r.id, type |-> r.type, tone |-> r.tone, cpu |-> r.cpu, mem |-> r.mem,
                sync |-> r.sync, up |-> r.up, chip |-> IF HasChip(r) THEN Badge(r) ELSE "hidden"]

\* PRIO of _renderCards
CardPrio(type) ==
    LET order == <<"EV", "EDGE", "END", "FTS", "NAS", "SRV", "WIN", "PC", "PI", "PRN", "PLC">>
        at == {i \in DOMAIN order : order[i] = type}
    IN IF at = {} THEN Len(order) + 1 ELSE CHOOSE i \in at : TRUE

NodesDom == [screen |-> "nodes", mode |-> "none", cardKey |-> <<>>, cards |-> <<>>,
             rowKey |-> <<>>, rows |-> <<>>]

\* _nodeBlock: a block without values; _patchCard fills those that exist.
BlankBlock == [tone |-> "none"]
_patchCard(card, r, phys) ==
    [head |-> CardHead(r),
     blocks |-> [i \in DOMAIN card.blocks |-> IF i <= Len(phys) THEN phys[i] ELSE card.blocks[i]]]

\* Mutant: the number of physical nodes is not part of the signature.
Mut_IdsOnly(rows, phys) == Ids(rows)

\* orderKey of _renderCards
CardKey(rows, phys) == [i \in DOMAIN rows |-> <<rows[i].id, Len(phys[i])>>]

\* _rebuildCards and _patchCard, on the devices in the order of the cards.
CardsDom(dom, rows, phys) ==
    LET key == CardKey(rows, phys)
        built == IF key = dom.cardKey THEN dom.cards
                 ELSE [i \in DOMAIN rows |-> [head |-> "none", blocks |-> [j \in DOMAIN phys[i] |-> BlankBlock]]]
    IN [dom EXCEPT !.mode = IF rows = <<>> THEN "empty" ELSE "cards", !.cardKey = key,
                   !.cards = [i \in DOMAIN built |-> _patchCard(built[i], rows[i], phys[i])]]

\* _renderCards
_renderCards(dom, fleet, table) ==
    LET rows == SortSeq(table, LAMBDA a, b : Before(CardPrio(a.type), CardPrio(b.type), a.id < b.id))
        dev(r) == CHOOSE d \in ToSet(fleet) : d.id = r.id
    IN CardsDom(dom, rows, [i \in DOMAIN rows |-> physNodes(dev(rows[i]), rows[i])])

\* The entries of _renderRows: company, factory, device; a folded group hides
\* what is below it.
Entries(table, folded) ==
    LET all == ToSet(table)
        group(key, of) == [key |-> key, count |-> Len(of), worst |-> WorstOf(ToSet(of)), open |-> key \notin folded]
        sorted(names) == SetToSeq(names)     \* some fixed order
        in(c) == Filter(LAMBDA r : r.company = c, table)
        at(c, f) == Filter(LAMBDA r : r.company = c /\ r.factory = f, table)
        rows(c, f) == LET devs == at(c, f) IN [i \in DOMAIN devs |-> RowCells(devs[i])]
        factory(c, f) == <<group(<<c, f>>, at(c, f))>> \o (IF <<c, f>> \in folded THEN <<>> ELSE rows(c, f))
        company(c) ==
            LET fs == sorted({r.factory : r \in ToSet(in(c))})
            IN <<group(<<c>>, in(c))>>
               \o (IF <<c>> \in folded THEN <<>> ELSE FlattenSeq([i \in DOMAIN fs |-> factory(c, fs[i])]))
        cos == sorted({r.company : r \in all})
    IN FlattenSeq([i \in DOMAIN cos |-> company(cos[i])])

\* _rebuildRows, _patchGroup and _patchRow, on the entries.
RowsDom(dom, entries) ==
    LET group(e) == "key" \in DOMAIN e
        key == [i \in DOMAIN entries |-> LET e == entries[i] IN IF group(e) THEN <<e.key, e.open>> ELSE <<e.id>>]
        slots == IF key = dom.rowKey THEN DOMAIN dom.rows ELSE DOMAIN entries
    IN [dom EXCEPT !.mode = "table", !.rowKey = key, !.rows = [i \in slots |-> entries[i]]]

\* _renderRows
_renderRows(dom, table, folded) == RowsDom(dom, Entries(table, folded))

\* render: the mode goes by the whole fleet; without a model there is none.
RenderNodes(dom, c, folded, ok) ==
    LET table == IF ok THEN c.memo.model.table ELSE <<>>
        total == IF ok THEN Len(c.memo.model.rows) ELSE 0
    IN IF total < CardMax THEN _renderCards(dom, c.st.fleet, table) ELSE _renderRows(dom, table, folded)

-----------------------------------------------------------------------------
(* The incidents screen.                                                   *)

NoBulk == [shown |-> FALSE]
IncDom == [screen |-> "incidents", view |-> "cards", chips |-> <<>>, active |-> "none",
           face |-> "none", list |-> <<>>, listSig |-> <<>>, bulk |-> NoBulk, more |-> 0, less |-> FALSE,
           log |-> <<>>, logSig |-> <<>>, logFace |-> "none", omitted |-> 0,
           stats |-> <<>>, statsSig |-> <<>>, tools |-> TRUE, m |-> <<>>]

\* mergeDupAlerts: neighbours that read the same become one row, which shows
\* the newest, carries the keys of all and is acknowledged when all are.
mergeDupAlerts(list, built) ==
    LET age(r) == (built - r.time) \div AgoUnit      \* the relative time shown
        same(p, r) == p.host = r.host /\ p.sev = r.sev /\ p.name = r.name /\ p.age = age(r)
        row(r) == [host |-> r.host, name |-> r.name, sev |-> r.sev, time |-> r.time, age |-> age(r),
                   maintWin |-> r.maintWin, acked |-> r.acked, key |-> r.key, keys |-> <<r.key>>]
        join(p, r) == [(IF r.time > p.time THEN row(r) ELSE p) EXCEPT !.keys = Append(p.keys, r.key),
                          !.acked = p.acked /\ r.acked]
    IN FoldLeft(LAMBDA acc, r : IF acc # <<>> /\ same(Last(acc), r) THEN Append(Front(acc), join(Last(acc), r))
                                ELSE Append(acc, row(r)), <<>>, list)

\* rowKey
rowKey(r) == <<r.host, r.sev, r.time, Len(r.keys), r.acked, r.maintWin>>

\* renderList with buildRow: the icon is drawn once, the rest at every render.
renderList(dom, rows) ==
    LET sig == [i \in DOMAIN rows |-> rowKey(rows[i])]
        icon(i) == IF sig = dom.listSig THEN dom.list[i].icon ELSE rows[i].sev
    IN [dom EXCEPT !.listSig = sig, !.list = [i \in DOMAIN rows |-> [icon |-> icon(i), row |-> rows[i]]]]

\* bulkAckKeys
Keys(list, acked) == {r.key : r \in {x \in ToSet(list) : x.acked = acked}}

\* What a card view shows besides the list: banner, skeleton, or one of the
\* three texts of an empty list (emptyCardTitle).
CardFace(s, m, list) ==
    IF m.poll.err THEN "banner"
    ELSE IF s.poll = 0 THEN "skeleton"
    ELSE IF list # <<>> THEN "list"
    ELSE IF s.fleet = <<>> THEN "no devices" ELSE IF s.alert # "all" THEN "no match" ELSE "all clear"

\* The rows of the card view: under "all" and not expanded, at most CardCap,
\* of critical and warning first.
Shown(s, expanded, list) ==
    LET pri == Filter(LAMBDA r : r.sev \in {"critical", "warning"}, list)
    IN IF s.alert = "all" /\ ~expanded THEN Clip(IF pri # <<>> THEN pri ELSE list, CardCap) ELSE list

\* renderCardView: the bulk bar and the buttons below are hidden first.
renderCardView(dom, s, m, expanded, built) ==
    LET list == Filter(LAMBDA r : ~r.fixture, m.alerts.list)     \* visibleCardAlerts
        face == CardFace(s, m, list)
        shown == Shown(s, expanded, list)
        bare == [dom EXCEPT !.face = face, !.bulk = NoBulk, !.more = 0, !.less = FALSE]
    IN IF face # "list" THEN bare
       ELSE renderList([bare EXCEPT !.bulk = [shown |-> TRUE, set |-> Keys(list, FALSE), clear |-> Keys(list, TRUE)],
                                    !.more = IF s.alert = "all" /\ ~expanded THEN Len(list) - Len(shown) ELSE 0,
                                    !.less = s.alert = "all" /\ expanded],
                       mergeDupAlerts(shown, built))

\* renderLogView with capLogRows: rebuilt when the signature changes, which
\* holds device, time and message of every row; newest LogCap rows.
renderLogView(dom, s, m) ==
    LET rows == m.view.full
        msg(r) == <<r.host, r.time, r.name, r.folded>>
        sig == <<s.level, s.logQuery, [i \in DOMAIN rows |-> msg(rows[i])]>>
        cells(r) == [host |-> r.host, time |-> r.time, name |-> r.name, folded |-> r.folded, sev |-> r.sev]
        new == Clip([i \in DOMAIN rows |-> cells(rows[i])], LogCap)
    IN IF rows = <<>>
       THEN [dom EXCEPT !.logFace = IF s.level # "all" \/ s.logQuery # NoQuery THEN "no match" ELSE "quiet",
                        !.logSig = <<>>]
       ELSE IF sig = dom.logSig THEN [dom EXCEPT !.logFace = "list"]
       ELSE [dom EXCEPT !.logFace = "list", !.logSig = sig, !.log = new, !.omitted = Len(rows) - Len(new)]

\* renderStatsView: insights and the five devices of lowest availability,
\* which follows from the state; redrawn when the signature changes.
renderStatsView(dom, m) ==
    LET avail(r) == StatusRank(r.status)
        sig == <<m.insights, [i \in DOMAIN m.rows |-> <<m.rows[i].id, avail(m.rows[i])>>]>>
        lowest == Clip(SortSeq(m.rows, LAMBDA a, b : avail(a) < avail(b)), 5)
        up == [dom EXCEPT !.tools = TRUE]
    IN IF sig = dom.statsSig THEN up
       ELSE [up EXCEPT !.statsSig = sig, !.stats = <<m.insights, Ids(lowest), [i \in DOMAIN lowest |-> avail(lowest[i])]>>]

\* showModelUnavailable: the chips stay as they are.
showModelUnavailable(dom) ==
    [dom EXCEPT !.face = "unavailable", !.bulk = NoBulk, !.more = 0, !.less = FALSE,
                !.logFace = "unavailable", !.stats = <<>>, !.statsSig = <<>>, !.tools = FALSE, !.m = <<>>]

\* render with renderKpis and chipCardsFor.
RenderIncidents(dom, c, sc, ok) ==
    LET m == c.memo.model
        s == c.st
        viewed == [dom EXCEPT !.view = sc.view]
        ready == [viewed EXCEPT !.chips = IF sc.view = "log" THEN m.view.chips ELSE m.alerts.chips,
                                !.active = s.alert, !.m = <<m>>]
    IN IF ~ok THEN showModelUnavailable(viewed)
       ELSE CASE sc.view = "log" -> renderLogView(ready, s, m)
              [] sc.view = "stats" -> renderStatsView(ready, m)
              [] OTHER -> renderCardView(ready, s, m, sc.expanded, sc.built)

\* exportCsv: the rows of the three files; nothing without a model.
exportCsv(dom, kind) ==
    IF dom.m = <<>> THEN <<>>
    ELSE CASE kind = "alerts" -> Filter(LAMBDA r : ~r.fixture, dom.m[1].alerts.all)
           [] kind = "log" -> Filter(LAMBDA r : ~r.fixture, dom.m[1].log)
           [] OTHER -> dom.m[1].rows

-----------------------------------------------------------------------------
(* Steps.                                                                  *)

Blank(key) == IF key = "nodes" THEN NodesDom ELSE IncDom
Rendered(dom, c, sc) ==
    IF sc.at = "none" THEN dom
    ELSE IF sc.at = "nodes" THEN RenderNodes(dom, c, sc.folded, sc.ok)
    ELSE RenderIncidents(dom, c, sc, sc.ok)

\* renderActive, after any change; the ages are those of the last new model.
Drawn(sc) == [sc EXCEPT !.dom = Rendered(@, con', sc)]
Draw(sc) ==
    /\ scr.n < MaxShow
    /\ scr' = Drawn([sc EXCEPT !.built = IF con'.memo.key # con.memo.key THEN now ELSE @, !.n = @ + 1])

ScrInit == scr = [at |-> "none", dom |-> <<>>, view |-> "cards", expanded |-> FALSE, folded |-> {},
                  built |-> 1, ok |-> TRUE, n |-> 0]

\* swapView: the old screen is destroyed, the new one initialised and rendered.
ScrOpen(key) ==
    /\ scr.at # key
    /\ UNCHANGED vars
    /\ Draw([scr EXCEPT !.at = key, !.dom = Blank(key)])

\* Clicks of the incidents screen: tab, "view all" and "show fewer".
ScrTab(view) ==
    /\ scr.at = "incidents" /\ scr.view # view
    /\ UNCHANGED vars
    /\ Draw([scr EXCEPT !.view = view])
ScrExpand ==
    /\ scr.at = "incidents" /\ scr.ok /\ scr.view = "cards"
    /\ scr.dom.more > 0 \/ scr.dom.less
    /\ UNCHANGED vars
    /\ Draw([scr EXCEPT !.expanded = ~ @])

\* A group header of the node table.
ScrFold ==
    \E i \in DOMAIN scr.dom.rows :
        LET e == scr.dom.rows[i] IN
        /\ scr.dom.mode = "table" /\ "key" \in DOMAIN e
        /\ UNCHANGED vars
        /\ Draw([scr EXCEPT !.folded = IF e.key \in @ THEN @ \ {e.key} ELSE @ \cup {e.key}])

\* An answer buildModel throws on: getModel yields nothing until the next one.
ScrThrows ==
    /\ scr.ok /\ con.st.poll > 0
    /\ UNCHANGED vars
    /\ Draw([scr EXCEPT !.ok = FALSE])

\* What changes the store, with the render that follows.
ScrData ==
    /\ \/ \E r \in ScreenReports : AnswerWith(r)
       \/ scr.ok /\ (Failure \/ MaintSet)
    /\ Draw([scr EXCEPT !.ok = TRUE])
ScrAck == scr.ok /\ scr.at = "incidents" /\ Ack /\ Draw(scr)
ScrClick ==
    \E c \in ScreenClicks :
        /\ scr.ok /\ scr.at # "none" /\ ClickOn(c)
        /\ Draw([scr EXCEPT !.expanded = @ /\ c.field # "alert"])

ScreensNext ==
    \/ \E key \in {"nodes", "incidents"} : ScrOpen(key)
    \/ \E view \in {"cards", "log", "stats"} : ScrTab(view)
    \/ ScrExpand \/ (scr.at = "nodes" /\ ScrFold)
    \/ ScrThrows \/ ScrData \/ ScrAck \/ ScrClick

-----------------------------------------------------------------------------
(* Properties.                                                             *)

\* What of the rows of the log is compared: under the chip of all severities their severity
\* is left out, for the signature has neither it nor the label of the device (incidents.js:731),
\* and a row that changes in nothing else keeps the old one.
LogRowsSeen(dom) ==
    IF con.st.level # "all" THEN dom.log
    ELSE [i \in DOMAIN dom.log |-> [dom.log[i] EXCEPT !.sev = "any"]]

\* The parts of a screen that are in view.
Visible(dom) ==
    IF dom.screen = "nodes"
    THEN CASE dom.mode = "cards" -> <<"cards", dom.cards>> [] dom.mode = "table" -> <<"table", dom.rows>>
           [] OTHER -> <<"empty">>
    ELSE CASE dom.view = "cards" -> <<dom.face, dom.chips, dom.active, dom.bulk, dom.more, dom.less,
                                      IF dom.face = "list" THEN dom.list ELSE <<>> >>
           [] dom.view = "log" -> <<dom.logFace, dom.chips, dom.active,
                                    IF dom.logFace = "list" THEN <<LogRowsSeen(dom), dom.omitted>> ELSE <<>> >>
           [] OTHER -> <<dom.stats, dom.tools, [k \in {"alerts", "log", "devices"} |-> exportCsv(dom, k)]>>

\* A screen that has lived through answers, failures, marks, filters, tabs
\* and a model that could not be built shows what a screen opened now would
\* show, but for the severity and the label of a log row that changes in nothing
\* else.  In the list the rows stand for every alert of their chip, merged or
\* left out, and the bulk buttons for those and no other; without a model
\* nothing of the last one can be acknowledged or exported.
ScreenFresh ==
    LET dom == scr.dom
        m == con.memo.model
        listed == scr.at = "incidents" /\ dom.view = "cards" /\ dom.face = "list"
    IN scr.at # "none" =>
       IF scr.ok
       THEN /\ Visible(dom) = Visible(Rendered(Blank(scr.at), con, scr))
            /\ listed => /\ SumOf(LAMBDA x : Len(x.row.keys), dom.list) + dom.more = dom.chips[dom.active]
                         /\ \A x \in ToSet(dom.list) : x.row.acked = (ToSet(x.row.keys) \subseteq dom.bulk.clear)
                         /\ UNION {ToSet(x.row.keys) : x \in ToSet(dom.list)} \subseteq dom.bulk.set \cup dom.bulk.clear
                         /\ dom.bulk.set \cap dom.bulk.clear = {}
            /\ scr.at = "incidents" => Len(exportCsv(dom, "alerts")) = m.alerts.chips["all"]
       ELSE IF scr.at = "nodes" THEN dom.mode = "empty"
       ELSE /\ ~dom.bulk.shown /\ dom.face = "unavailable" /\ dom.more = 0
            /\ dom.logFace = "unavailable" /\ ~dom.tools
            /\ \A kind \in {"alerts", "log", "devices"} : exportCsv(dom, kind) = <<>>
=============================================================================
