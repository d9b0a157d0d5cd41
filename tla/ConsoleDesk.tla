---------------------------- MODULE ConsoleDesk -----------------------------
(***************************************************************************)
(* A console at work: the store, the model every render builds from it     *)
(* (getModel of app.js, buildModel of kpi.js) unless its fingerprint is    *)
(* that of the last one, and the events that change the store: answers and *)
(* failures of the poll, marks of the operator, clicks, ticks, a reload.   *)
(***************************************************************************)
EXTENDS ConsoleModel

CONSTANTS
    Reports,      \* answers of the collector: [fleet, events, overall, sample]
    Clicks,       \* what a click or a key may change: [field, value]
    AckDays,      \* setg.ackAutoDays, in units of the clock (0 = off)
    StaleAfter,   \* 3 * refreshSec, in units of the clock
    Windows,      \* lengths of a maintenance window
    MaxAlerts,    \* alerts kept of one device
    MaxPolls, MaxActs, MaxNow   \* bounds: answers, acts of the operator, clock

ASSUME LimitsAssumption == MaxAlerts \in Nat /\ Windows \subseteq Nat

\* A device has the fields that are normalised; its alerts are a list.
ASSUME ReportsAssumption ==
    \A r \in Reports : \A i \in DOMAIN r.fleet :
        /\ {"alerts", "cpu", "mem", "vmRunning"} \subseteq DOMAIN r.fleet[i]
        /\ r.fleet[i].alerts \in Seq(ToSet(r.fleet[i].alerts))

ASSUME ClicksAssumption ==
    \A c \in Clicks :
        c.field \in {"ov", "nodes", "clusters", "alert", "sort", "query", "search", "fold"}

VARIABLES
    con,          \* [st: store, memo: _memoKey and _memoResult, onset: _onsetMap]
    now,          \* clock
    marked,       \* alerts the operator acknowledged and did not release, by
                  \* what the collector says of them (history variable)
    used          \* answers and acts of the operator so far

vars == <<con, now, marked, used>>

-----------------------------------------------------------------------------
(* Rendering.                                                              *)

\* setState, and render through getModel: the model and the onsets of alerts
\* without a time are computed again when the fingerprint changes.
Render(c, s) ==
    IF c.memo.key = Fingerprint(s) THEN [c EXCEPT !.st = s]
    ELSE [st |-> s, onset |-> OnsetAfter(s.fleet, c.onset, now),
          memo |-> [key |-> Fingerprint(s), model |-> ModelOf(s, c.onset, now)]]

\* initialState with what loadPersisted brings back: the operators' marks.
Boot(acks, maint) ==
    LET s == [fleet |-> <<>>, events |-> <<>>, overall |-> "none", poll |-> 0, at |-> 0,
              err |-> FALSE, stale |-> FALSE, sample |-> FALSE, acks |-> acks, maint |-> maint,
              ov |-> "all", nodes |-> "all", clusters |-> "all", alert |-> "all", level |-> "all",
              sort |-> "host", dir |-> "asc", logQuery |-> NoQuery, search |-> NoQuery, collapsed |-> {}]
    IN Render([st |-> s, onset |-> <<>>, memo |-> [key |-> <<>>]], s)

\* The acknowledgements with those of some alerts added; the older ones keep
\* their time.
AckedToo(acks, keys) ==
    [k \in DOMAIN acks \cup keys |-> IF k \in DOMAIN acks THEN acks[k] ELSE now]

\* applyAutoAck, with its render.
ApplyAutoAck(c) ==
    Render(c, [c.st EXCEPT !.acks =
        AckedToo(@, AutoAckDue(c.st.fleet, DOMAIN c.st.acks, AckDays, c.onset, now))])

\* sweepMaint, with its render.
SweepMaint(c) ==
    Render(c, [c.st EXCEPT !.maint = [d \in DOMAIN @ \ ExpiredMaint(@, now) |-> @[d]]])

\* What every patch of the poll and every tick does: three setState in a row.
Settle(c, s) == SweepMaint(ApplyAutoAck(Render(c, s)))

-----------------------------------------------------------------------------
(* Events.                                                                 *)

Init ==
    /\ now = 1 /\ con = Boot(<<>>, <<>>)
    /\ marked = {} /\ used = [polls |-> 0, acts |-> 0]

\* pullPatch for an answer, and run() after it.
AnswerWith(r) ==
    /\ used.polls < MaxPolls
    /\ con' = Settle(con, [con.st EXCEPT
                 !.fleet = [i \in DOMAIN r.fleet |-> NormalizeDevice(r.fleet[i], MaxAlerts)],
                 !.events = r.events, !.overall = r.overall, !.sample = r.sample,
                 !.poll = @ + 1, !.at = now, !.err = FALSE, !.stale = FALSE])
    /\ used' = [used EXCEPT !.polls = @ + 1]
    /\ UNCHANGED <<now, marked>>
Answer == \E r \in Reports : AnswerWith(r)

\* pullPatch for a failure.
Failure ==
    /\ con' = Settle(con, [con.st EXCEPT !.err = TRUE, !.stale = TRUE])
    /\ UNCHANGED <<now, marked, used>>

\* startTick
Tick ==
    /\ con' = Settle(con, [con.st EXCEPT
                 !.stale = con.st.err \/ (con.st.at # 0 /\ now - con.st.at > StaleAfter)])
    /\ UNCHANGED <<now, marked, used>>

\* What the collector says of an alert: its device, name and time, the time
\* of the state for an alert about the state.
Ident(d, a) == <<d.id, a.name, IF IsState(a) THEN d.since ELSE a.time>>

\* ackAlert on a row of the list: acknowledges, or releases.
Ack ==
    \E a \in ToSet(con.memo.model.alerts.real) :
        LET of(d) == IF IsState(a) THEN {<<d.id, a.name, d.since>>}
                     ELSE {Ident(d, x) : x \in {y \in ToSet(d.alerts) :
                                                    y.name = a.name /\ y.time \in {0, a.time}}}
            mine == UNION {of(d) : d \in {x \in ToSet(con.st.fleet) : x.id = a.host}}
        IN /\ used.acts < MaxActs
           /\ con' = Render(con, [con.st EXCEPT !.acks =
                  IF a.acked THEN [k \in DOMAIN @ \ {a.key} |-> @[k]] ELSE AckedToo(@, {a.key})])
           /\ marked' = IF a.acked THEN marked \ mine ELSE marked \cup mine
           /\ used' = [used EXCEPT !.acts = @ + 1]
           /\ UNCHANGED now

\* maintSet
MaintSet ==
    \E d \in ToSet(con.st.fleet), len \in Windows \cup {0} :
        LET m == con.st.maint IN
        /\ used.acts < MaxActs
        /\ len = 0 => d.id \in DOMAIN m
        /\ con' = Render(con, [con.st EXCEPT !.maint =
               IF len = 0 THEN [x \in DOMAIN m \ {d.id} |-> m[x]]
               ELSE [x \in DOMAIN m \cup {d.id} |-> IF x = d.id THEN now + len ELSE m[x]]])
        /\ used' = [used EXCEPT !.acts = @ + 1]
        /\ UNCHANGED <<now, marked>>

\* Filters, sort order, queries and folded groups.  The severity chips set
\* the filter of the cards and the level of the log together.
ClickOn(c) ==
    /\ used.acts < MaxActs
    /\ con' = Render(con, CASE c.field = "ov" -> [con.st EXCEPT !.ov = c.value]
                            [] c.field = "nodes" -> [con.st EXCEPT !.nodes = c.value]
                            [] c.field = "clusters" -> [con.st EXCEPT !.clusters = c.value]
                            [] c.field = "alert" -> [con.st EXCEPT !.alert = c.value, !.level = c.value]
                            [] c.field = "sort" -> [con.st EXCEPT !.sort = c.value,
                                   !.dir = IF con.st.sort = c.value /\ @ = "asc" THEN "desc" ELSE "asc"]
                            [] c.field = "query" -> [con.st EXCEPT !.logQuery = c.value]
                            [] c.field = "search" -> [con.st EXCEPT !.search = c.value]
                            [] c.field = "fold" -> [con.st EXCEPT !.collapsed =
                                   IF c.value \in @ THEN @ \ {c.value} ELSE @ \cup {c.value}])
    /\ used' = [used EXCEPT !.acts = @ + 1]
    /\ UNCHANGED <<now, marked>>
Click == \E c \in Clicks : ClickOn(c)

\* The page is loaded again; the marks come from local storage.
Reload ==
    /\ con.st.poll > 0
    /\ con' = Boot(con.st.acks, con.st.maint)
    /\ UNCHANGED <<now, marked, used>>

Clock == now < MaxNow /\ now' = now + 1 /\ UNCHANGED <<con, marked, used>>

Next == Answer \/ Failure \/ Tick \/ Ack \/ MaintSet \/ Click \/ Reload \/ Clock

Spec == Init /\ [][Next]_vars

-----------------------------------------------------------------------------
(* Properties.                                                             *)

TypeOK ==
    /\ now \in 1..MaxNow /\ used \in [polls : 0..MaxPolls, acts : 0..MaxActs]
    /\ con.st.poll \in 0..MaxPolls /\ con.st.err \in BOOLEAN /\ con.st.stale \in BOOLEAN
    /\ con.memo.key = Fingerprint(con.st)

Model == con.memo.model

\* What the screens show is what the store says: after any sequence of
\* answers, failures, marks, clicks and reloads the memo of buildModel is the
\* model of the current store, as soon as windows that have ended are swept.
ModelFresh ==
    ExpiredMaint(con.st.maint, now) = {} => Model = ModelOf(con.st, con.onset, now)

\* The surfaces that count alerts agree: the chips of the list count the rows
\* the screen shows, the cards add up to the badge, the verdict follows them,
\* a device that is in order but for its alerts is on the list of those that
\* need attention exactly when an active alert of it is critical (the fixture
\* aside, which no alert list shows), and folding the log hides no event.
AlertsAgree ==
    LET m == Model
        al == m.alerts
        shown == Filter(LAMBDA a : ~a.fixture, al.list)
        crit == {a.host : a \in {x \in ToSet(al.active) : x.sev = "critical"}}
        attn == ToSet(m.attention)
        quiet == {d \in ToSet(con.st.fleet) : d.status = "op" /\ ~isMaint(d) /\ d.id # Fixture}
    IN /\ Len(shown) = al.chips[con.st.alert]
       /\ al.cards["critical"] + al.cards["warning"] + al.cards["info"] = Len(al.active)
       /\ al.chips["all"] = Len(al.active) + al.ackedN
       /\ {d.id : d \in {x \in quiet : x.id \in attn}} = {d.id : d \in {x \in quiet : x.id \in crit}}
       /\ crit \subseteq attn
       /\ (m.verdict = "ok") => (crit = {} /\ m.kpi.down = 0 /\ m.kpi.deg = 0)
       /\ Len(m.view.full) = m.view.chips[con.st.level]
       /\ SumOf(LAMBDA r : r.folded, m.log) =
             Len(Filter(LAMBDA e : e.host # Fixture, con.st.events))
             + SumOf(LAMBDA d : Len(d.traps), con.st.fleet)
             + IF con.st.events = <<>> THEN Len(al.real) ELSE 0

\* The surfaces that count devices agree: the chip of the node table with the
\* list of the overview, every device in one group of the tree, licences
\* between the overview and the clusters, capacity with the allocation, every
\* device in trouble once in the recent changes.
FleetAgrees ==
    LET m == Model
        k == m.kpi
        lic(kind) == {r.id : r \in {x \in ToSet(m.clusters.list) : kind \in x.lic}}
        ft(list) == {d.id : d \in {x \in ToSet(list) : isFT(x.type)}}
        groups(n) == {g \in m.tree : Len(g.key) = n}
        total(n) == SumOf(LAMBDA g : g.count, SetToSeq(groups(n)))
        trouble == {d.id : d \in {x \in ToSet(con.st.fleet) : x.status # "op"}}
    IN /\ k.op + k.deg + k.down = k.total /\ k.resync >= 0
       /\ (con.st.nodes = "attention") => {r.id : r \in ToSet(m.table)} = ToSet(m.attention)
       /\ total(1) = k.total /\ total(2) = k.total
       /\ (con.st.clusters = "all") => /\ lic("perpetual") = ft(m.lics.perpetual)
                                       /\ lic("unknown") = ft(m.lics.unknown)
       /\ Len(m.capacity.headroom) = m.res.counted
       /\ trouble \subseteq ToSet(m.recent)
       /\ Cardinality(ToSet(m.recent)) = Len(m.recent)

\* The surfaces that count agree, on alerts and on devices.
SurfacesAgree == AlertsAgree /\ FleetAgrees

\* An acknowledgement holds: as long as the collector reports an alert the
\* operator acknowledged and did not release, over polls, ticks and reloads
\* and although a time of its own or of the session is shown for it, the
\* alert counts as acknowledged and does not put its device in the queue.
AckHolds ==
    \A d \in ToSet(con.st.fleet) :
        LET held == {a \in ToSet(d.alerts) : Ident(d, a) \in marked} IN
        /\ \A x \in ToSet(Model.alerts.active) :
              x.host = d.id => ~\E a \in held : a.name = x.name /\ a.time \in {0, x.time}
        /\ (d.status = "op" /\ ~isMaint(d)
              /\ \A a \in ToSet(d.alerts) : a.sev = "critical" => a \in held)
             => d.id \notin ToSet(Model.attention)
=============================================================================
