---------------------------- MODULE ConsoleModel ----------------------------
(***************************************************************************)
(* The derived model every screen of the console draws from: buildModel of *)
(* kpi.js with its parts in cluster.js and node.js, and the fingerprint    *)
(* that decides whether it is computed again.  Nothing here has state; s   *)
(* is the store, win the devices in a maintenance window.  Wording, icons  *)
(* and ages are left out: a row is what tells it from another row.         *)
(***************************************************************************)
EXTENDS ConsoleFleet

CONSTANTS FlapWindow, FlapMin   \* FLAP_WINDOW_MS, FLAP_MIN_COUNT

ASSUME ModelAssumption == FlapMin > 1 /\ WarnPct < CritPct

Statuses == {"op", "deg", "down"}
Sevs == {"critical", "warning", "info"}
inMaint(s, t) == ActiveMaint(s.maint, t)

-----------------------------------------------------------------------------
(* Parts of buildModel.                                                    *)

\* KPI block: states and, for FT devices, synchronisation.
Kpi(fleet) ==
    LET n(test(_)) == Count(test, fleet)
        ft(sync) == n(LAMBDA d : isFT(d.type) /\ d.sync = sync)
        ftTotal == n(LAMBDA d : isFT(d.type))
    IN [total |-> Len(fleet), op |-> n(LAMBDA d : d.status = "op"),
        deg |-> n(LAMBDA d : d.status = "deg"), down |-> n(LAMBDA d : d.status = "down"),
        ft |-> ftTotal, synced |-> ft("sync"), simplex |-> ft("simplex"), offline |-> ft("offline"),
        resync |-> ftTotal - ft("sync") - ft("simplex") - ft("offline")]

\* rowOf
RowOf(d, win) ==
    [id |-> d.id, type |-> d.type, status |-> d.status, tone |-> StatusTone(d.status),
     cpu |-> UsageOf(d, d.cpu), mem |-> UsageOf(d, d.mem), sync |-> SyncInfo(d),
     maint |-> isMaint(d), maintWin |-> d.id \in win, isFT |-> isFT(d.type),
     up |-> IF d.status = "down" \/ isNoTel(d.type) THEN NA ELSE d.up,
     company |-> d.company, factory |-> d.factory]

\* overview cards, heat map and FT list: the rows a status filter leaves.
ByStatus(rows, filter) ==
    IF filter = "all" THEN rows ELSE Filter(LAMBDA r : r.status = filter, rows)

\* isAcked, on an alert as the collector reports it.
IsAcked(s, d, a) == <<d.id, a.name, IF IsState(a) THEN d.since ELSE a.time>> \in DOMAIN s.acks

\* Mutant: acknowledged alerts count.
Mut_CritEver(s, win, d) ==
    IF d.id \in win THEN 0 ELSE Count(LAMBDA a : a.sev = "critical", d.alerts)

\* critOf: critical alerts nobody acknowledged, none during a window.
CritOf(s, win, d) ==
    IF d.id \in win THEN 0
    ELSE Count(LAMBDA a : a.sev = "critical" /\ ~IsAcked(s, d, a), d.alerts)

\* isAttn
IsAttn(s, win, d) ==
    d.id \notin win /\ (d.status \in {"down", "deg"} \/ isMaint(d) \/ CritOf(s, win, d) > 0)

\* sortRows; ties and the default go by name.
SortRows(rows, key, dir) ==
    LET rank(r) == CASE key = "status" -> StatusRank(r.status) [] key = "cpu" -> r.cpu
                     [] key = "mem" -> r.mem [] key = "uptime" -> r.up [] OTHER -> 0
        less(a, b) == Before(rank(a), rank(b), a.id < b.id)
    IN SortSeq(rows, LAMBDA a, b : IF dir = "desc" THEN less(b, a) ELSE less(a, b))

\* Node table: filter, "attention" included, then sort.
FleetRows(s, win, rows) ==
    LET byId(id) == CHOOSE d \in ToSet(s.fleet) : d.id = id
    IN SortRows(IF s.nodes = "attention" THEN Filter(LAMBDA r : IsAttn(s, win, byId(r.id)), rows)
                ELSE ByStatus(rows, s.nodes), s.sort, s.dir)

\* attentionAll: by urgency.
Attention(s, win) ==
    LET rank(d) == CASE d.status = "down" -> 0 [] d.status = "deg" -> 1
                     [] CritOf(s, win, d) > 0 -> 2 [] OTHER -> 3
    IN SortSeq(Filter(LAMBDA d : IsAttn(s, win, d), s.fleet),
               LAMBDA x, y : Before(rank(x), rank(y), x.id < y.id))

\* decorate, less wording and ages.
Decorate(s, win, a) ==
    [host |-> a.host, name |-> a.name, sev |-> a.sev, key |-> AckKey(a), time |-> a.time,
     acked |-> AckKey(a) \in DOMAIN s.acks, maintWin |-> a.host \in win, fixture |-> a.fixture,
     folded |-> IF "members" \in DOMAIN a THEN a.members ELSE 1]

\* Alert lists, counters, chips and the bell.
Alerts(s, win, all) ==
    LET real == Filter(LAMBDA a : ~a.fixture, all)
        active == Filter(LAMBDA a : ~a.acked /\ ~a.maintWin, real)
        n(sev, list) == Count(LAMBDA a : sev = "all" \/ a.sev = sev, list)
        top == {sev \in Sevs : n(sev, active) > 0}
    IN [all |-> all, real |-> real, active |-> active, ackedN |-> Len(real) - Len(active),
        preview |-> Clip(active \o Filter(LAMBDA a : a.acked, real), 7),
        cards |-> [sev \in Sevs \cup {"all"} |-> n(sev, active)],
        chips |-> [sev \in Sevs \cup {"all"} |-> n(sev, real)],
        top |-> IF top = {} THEN {} ELSE {CHOOSE x \in top : \A y \in top : SevRank(x) <= SevRank(y)},
        list |-> IF s.alert = "all" THEN all ELSE Filter(LAMBDA a : a.sev = s.alert, all)]

\* fleetVerdict: the worse of the console's and the collector's judgement.
Verdict(s, kpi, al) ==
    LET rank == [ok |-> 0, warning |-> 1, critical |-> 2]
        derived == IF kpi.down > 0 \/ al.cards["critical"] > 0 THEN "critical"
                   ELSE IF kpi.deg > 0 \/ al.cards["warning"] > 0 THEN "warning" ELSE "ok"
    IN IF s.overall # "none" /\ rank[s.overall] > rank[derived] THEN s.overall ELSE derived

\* collapseFlaps: a run of state changes of one device, each within the
\* window of the one before, becomes one row once it is long enough.
CollapseFlaps(rows) ==
    LET n == Len(rows)
        changed(i) == rows[i].name[1] = "STATE_CHANGE"
        linked(i) == /\ changed(i) /\ changed(i + 1)
                     /\ rows[i].host = rows[i + 1].host
                     /\ rows[i].time - rows[i + 1].time \in 0..FlapWindow
        last[i \in 1..n] == IF i < n /\ linked(i) THEN last[i + 1] ELSE i
        worst(i) == CHOOSE v \in {rows[j].sev : j \in i..last[i]} :
                        \A j \in i..last[i] : SevRank(v) <= SevRank(rows[j].sev)
        from[i \in 1..(n + 1)] ==
            IF i = n + 1 THEN <<>>
            ELSE IF changed(i) /\ last[i] - i + 1 >= FlapMin
            THEN <<[rows[i] EXCEPT !.name = <<"STATE_FLAP", "">>, !.sev = worst(i)]
                      @@ [members |-> last[i] - i + 1]>> \o from[last[i] + 1]
            ELSE <<rows[i]>> \o from[i + 1]
    IN from[1]

\* Log: the collector's history, or without one the live alerts, with the
\* traps, newest first, folded, without the fixture.
LogRows(s, win, alerts) ==
    LET newest(list) == SortSeq(list, LAMBDA x, y : x.time > y.time)
        history == [i \in DOMAIN s.events |-> s.events[i] @@ [ackTime |-> s.events[i].time,
                        fixture |-> s.events[i].host = Fixture]]
        merged == newest((IF history # <<>> THEN history ELSE alerts) \o CollectTraps(s.fleet))
        folded == CollapseFlaps(merged)
    IN Filter(LAMBDA r : ~r.fixture, [i \in DOMAIN folded |-> Decorate(s, win, folded[i])])

\* A query finds some devices and some kinds of alerts; NoQuery finds all.
NoQuery == [hosts |-> {}, kinds |-> {}]
Matches(q, r) == q = NoQuery \/ r.host \in q.hosts \/ r.name[1] \in q.kinds
LogView(s, rows) ==
    [full |-> Filter(LAMBDA r : s.level \in {"all", r.sev} /\ Matches(s.logQuery, r), rows),
     chips |-> [sev \in Sevs \cup {"all"} |->
                   Count(LAMBDA r : sev \in {"all", r.sev} /\ Matches(s.logQuery, r), rows)]]

\* Virtual machines, and the allocation of vCPU and memory; a metric a device lacks is left out.
ResAgg(fleet) ==
    LET has(d) == d.unit.vt > 0 \/ d.unit.mt > 0
    IN [counted |-> Count(has, fleet), running |-> SumOf(LAMBDA d : d.vmRunning, fleet),
        vms |-> SumOf(LAMBDA d : Len(d.vms), fleet),
        vt |-> SumOf(LAMBDA d : d.unit.vt, fleet),
        vu |-> SumOf(LAMBDA d : IF d.unit.vt > 0 THEN d.unit.vu ELSE 0, fleet),
        mt |-> SumOf(LAMBDA d : d.unit.mt, fleet),
        mu |-> SumOf(LAMBDA d : IF d.unit.mt > 0 THEN d.unit.mu ELSE 0, fleet)]

\* Licences: those that end, soonest first, those without a date, the others.
Licenses(fleet) ==
    LET of(test(_)) == Filter(LAMBDA d : \E l \in d.lic : test(l), fleet)
        days(d) == (CHOOSE l \in d.lic : TRUE).date
    IN [expiring |-> SortSeq(of(LAMBDA l : l.expires /\ l.date # NoDate),
                             LAMBDA x, y : days(x) < days(y)),
        unknown |-> of(LAMBDA l : l.expires /\ l.date = NoDate),
        perpetual |-> of(LAMBDA l : ~l.expires)]

\* Storage groups of the FT devices, fullest first.
Storage(fleet) ==
    LET groups(d) == [i \in DOMAIN d.storage |-> [id |-> d.id, pct |-> d.storage[i],
                          tone |-> PctTone(d.storage[i])]]
    IN SortSeq(Filter(LAMBDA g : g.pct # NA,
                      FlattenSeq([i \in DOMAIN fleet |->
                          IF isFT(fleet[i].type) THEN groups(fleet[i]) ELSE <<>>])),
               LAMBDA x, y : x.pct > y.pct)

\* Recent changes: the newest event of each device, newest first, then the
\* devices that are down or degraded without one.
RecentChanges(fleet, rows) ==
    LET events == FlattenSeq([i \in DOMAIN fleet |->
                      [j \in DOMAIN fleet[i].changes |-> [id |-> fleet[i].id, at |-> fleet[i].changes[j]]]])
        sorted == SortSeq(events, LAMBDA x, y : x.at > y.at)
        seen == {e.id : e \in ToSet(sorted)}
    IN KeysOf([i \in DOMAIN sorted |-> sorted[i].id])
         \o LET rest == Filter(LAMBDA r : r.id \notin seen /\ r.status \in {"down", "deg"}, rows)
            IN [i \in DOMAIN rest |-> rest[i].id]

\* Collection status: devices in error, of a tier too, and nodes in service.
Collect(fleet) ==
    LET errs == Filter(LAMBDA d : d.error \/ d.tiers # {}, fleet)
        maint == SumOf(LAMBDA d : Count(LAMBDA n : n.maint, d.nodes), fleet)
    IN [errs |-> [i \in DOMAIN errs |-> errs[i].id], maint |-> maint,
        ok |-> errs = <<>> /\ maint = 0]

\* pollStat
PollStat(s) == [sample |-> s.sample, stale |-> s.stale, err |-> s.err]

\* topConsumers and the ranks of the capacity screen.
Rank(rows, field) ==
    LET v(r) == IF field = "cpu" THEN r.cpu ELSE r.mem
    IN SortSeq(Filter(LAMBDA r : ~isNoTel(r.type) /\ v(r) # NA, rows), LAMBDA x, y : v(x) > v(y))

\* platforms
Platforms(fleet) ==
    [t \in {d.type : d \in ToSet(fleet)} |->
        [total |-> Count(LAMBDA d : d.type = t, fleet),
         up |-> Count(LAMBDA d : d.type = t /\ d.status # "down", fleet)]]

\* incInsights: the messages met most, the devices with most critical, then
\* most, active alerts, the time to acknowledge, the oldest active alert.
Insights(s, al, log) ==
    LET all == al.real \o log
        names == KeysOf([i \in DOMAIN all |-> all[i].name])
        times(n) == Count(LAMBDA r : r.name = n, all)
        hosts == KeysOf([i \in DOMAIN al.active |-> al.active[i].host])
        n(h) == Count(LAMBDA a : a.host = h, al.active)
        crit(h) == Count(LAMBDA a : a.host = h /\ a.sev = "critical", al.active)
        began(k) == LET same == Filter(LAMBDA a : a.key = k, al.real)
                    IN IF same = <<>> THEN 0 ELSE same[1].time
        timed == {k \in DOMAIN s.acks : began(k) # 0 /\ s.acks[k] >= began(k)}
        waits == SortSeq(SetToSeq({<<s.acks[k] - began(k), k>> : k \in timed}),
                         LAMBDA x, y : x[1] < y[1])
        m == Len(waits)
    IN [messages |-> Clip(SortSeq(names, LAMBDA x, y : times(x) > times(y)), 5),
        devices |-> Clip(SortSeq(hosts, LAMBDA x, y : Before(crit(y), crit(x), n(x) > n(y))), 5),
        oldest |-> {a.time : a \in {x \in ToSet(al.active) :
                                        \A y \in ToSet(al.active) : x.time <= y.time}},
        acks |-> m, sum |-> SumOf(LAMBDA w : w[1], waits),
        median2 |-> IF m = 0 THEN 0 ELSE waits[(m + 1) \div 2][1] + waits[m \div 2 + 1][1]]

\* buildClusterRows
ClusterRows(s, rows) ==
    LET ft == Filter(LAMBDA r : r.isFT, rows)
        lic(r) == LET d == CHOOSE x \in ToSet(s.fleet) : x.id = r.id IN
                  {IF l.expires THEN Expiry(l) ELSE "perpetual" : l \in d.lic}
        list == ByStatus(ft, s.clusters)
    IN [list |-> [i \in DOMAIN list |-> list[i] @@ [lic |-> lic(list[i])]],
        counts |-> [f \in Statuses \cup {"all"} |-> Len(ByStatus(ft, f))]]

\* buildCapacityModel
Capacity(fleet, rows) ==
    LET pct(u, t) == IF t > 0 THEN (2 * 100 * u + t) \div (2 * t) ELSE 0
        units == Filter(LAMBDA d : d.unit.vt > 0 \/ d.unit.mt > 0, fleet)
        worst(h) == IF h.v > h.m THEN h.v ELSE h.m
        head == [i \in DOMAIN units |-> LET u == units[i].unit IN
                    [id |-> units[i].id, v |-> pct(u.vu, u.vt), m |-> pct(u.mu, u.mt),
                     freeV |-> IF u.vt > u.vu THEN u.vt - u.vu ELSE 0]]
        perNode(d) == [n \in {v.node : v \in ToSet(d.vms)} \ {""} |->
                          [id |-> d.id, node |-> n, total |-> Count(LAMBDA v : v.node = n, d.vms),
                           running |-> Count(LAMBDA v : v.node = n /\ v.run, d.vms)]]
    IN [cpu |-> Rank(rows, "cpu"), mem |-> Rank(rows, "mem"),
        headroom |-> SortSeq(head, LAMBDA x, y : worst(x) > worst(y)),
        vmByNode |-> UNION {LET p == perNode(d) IN {p[n] : n \in DOMAIN p} : d \in ToSet(fleet)},
        tight |-> Count(LAMBDA h : h.v >= WarnPct \/ h.m >= WarnPct, head)]

WorstOf(rows) == IF \E r \in rows : r.status = "down" THEN "down"
                 ELSE IF \E r \in rows : r.status = "deg" THEN "deg" ELSE "op"

\* buildTree: company, factory, device; what is unassigned is a group too.
Tree(s, rows) ==
    LET all == ToSet(rows)
        group(key, of) == [key |-> key, count |-> Cardinality(of), worst |-> WorstOf(of),
                           collapsed |-> key \in s.collapsed]
    IN {group(<<c>>, {r \in all : r.company = c}) : c \in {r.company : r \in all}}
       \cup {group(<<r.company, r.factory>>,
                   {x \in all : x.company = r.company /\ x.factory = r.factory}) : r \in all}

\* buildSearchList: devices, then alerts, eight at most.
SearchList(s, rows, real) ==
    IF s.search = NoQuery THEN <<>>
    ELSE LET devs == Filter(LAMBDA d : d.id \in s.search.hosts, rows)
             als == Filter(LAMBDA a : Matches(s.search, a), real)
         IN Clip([i \in DOMAIN devs |-> <<"node", devs[i].id, devs[i].status>>]
                   \o [i \in DOMAIN als |-> <<"incident", als[i].host, als[i].sev>>], 8)

-----------------------------------------------------------------------------
(* buildModel.                                                             *)

\* The model, of the rows, the alerts, the log and the counters.
ModelWith(s, win, rows, al, log, kpi) ==
    LET attn == Attention(s, win)
    IN [kpi |-> kpi, rows |-> rows, servers |-> ByStatus(rows, s.ov),
        table |-> FleetRows(s, win, rows), attention |-> [i \in DOMAIN attn |-> attn[i].id],
        alerts |-> al, verdict |-> Verdict(s, kpi, al), log |-> log, view |-> LogView(s, log),
        res |-> ResAgg(s.fleet), lics |-> Licenses(s.fleet), storage |-> Storage(s.fleet),
        recent |-> RecentChanges(s.fleet, rows), collect |-> Collect(s.fleet), poll |-> PollStat(s),
        platforms |-> Platforms(s.fleet), clusters |-> ClusterRows(s, rows),
        capacity |-> Capacity(s.fleet, rows), tree |-> Tree(s, rows),
        search |-> SearchList(s, rows, al.real), insights |-> Insights(s, al, log)]

\* The same, of the devices in a window and the alerts of the fleet.
ModelFrom(s, win, live) ==
    ModelWith(s, win, [i \in DOMAIN s.fleet |-> RowOf(s.fleet[i], win)],
              Alerts(s, win, [i \in DOMAIN live |-> Decorate(s, win, live[i])]),
              LogRows(s, win, live), Kpi(s.fleet))

\* The model of a state, without looking at the memo.
ModelOf(s, on, t) == ModelFrom(s, inMaint(s, t), CollectAlerts(s.fleet, on, t))

\* Mutant: the state of the collection is left out.
Mut_NoPollState(s) ==
    <<s.poll, s.ov, s.alert, s.level, s.logQuery, s.sort, s.dir, s.nodes, s.clusters, s.search,
      DOMAIN s.acks, s.maint, s.collapsed, s.sample, s.overall,
      [i \in DOMAIN s.fleet |-> s.fleet[i].id]>>

\* The fingerprint.  Of the fleet it holds the ids and the newest stamp, which
\* an answer changes together with poll; what an operator edits on a device
\* is not part of it.
Fingerprint(s) ==
    <<s.poll, s.ov, s.alert, s.level, s.logQuery, s.sort, s.dir, s.nodes, s.clusters, s.search,
      DOMAIN s.acks, s.maint, s.collapsed, s.sample, s.stale, s.err, s.overall,
      [i \in DOMAIN s.fleet |-> s.fleet[i].id]>>
=============================================================================
