---------------------------- MODULE ConsoleFleet ----------------------------
(***************************************************************************)
(* The console's view of one device and of its alerts (data.js, alert.js,  *)
(* format.js, time.js): what a reading of the collector is normalised to,  *)
(* which alerts it gives rise to, and the key under which an alert is      *)
(* acknowledged.  Times are numbers, 0 where the collector gave none; the  *)
(* name of an alert is a pair, its kind and its description; devices are   *)
(* numbers, in the order their names sort.                                 *)
(***************************************************************************)
EXTENDS Integers, Sequences, FiniteSets, SequencesExt

CONSTANTS
    Fixture,      \* the device TEST_FIXTURE_RE matches
    WarnPct, CritPct   \* usage thresholds

NA == -1
NoDate == -999
StateKind == "DEVICE_STATE"
IsState(a) == a.name[1] = StateKind
FTTypes == {"EV", "EDGE", "END", "FTS"}
isFT(type) == type \in FTTypes
isNoTel(type) == type \in {"PLC", "PRN"}

SevRank(sev) == CASE sev = "critical" -> 0 [] sev = "warning" -> 1 [] sev = "info" -> 2
StatusRank(status) == CASE status = "down" -> 0 [] status = "deg" -> 1 [] OTHER -> 2
Filter(test(_), seq) == SelectSeq(seq, test)
Count(test(_), seq) == Len(SelectSeq(seq, test))
Clip(seq, n) == SubSeq(seq, 1, IF Len(seq) < n THEN Len(seq) ELSE n)
\* x before y, or tie where they are equal.
Before(x, y, tie) == x < y \/ (x = y /\ tie)
SumOf(term(_), seq) == FoldLeft(LAMBDA sum, x : sum + term(x), 0, seq)
\* The keys of an object in the order they were first set.
KeysOf(seq) == FoldLeft(LAMBDA keys, k : IF Contains(keys, k) THEN keys ELSE Append(keys, k), <<>>, seq)

-----------------------------------------------------------------------------
(* Normalisation (data.js).                                                *)

\* deriveStatus on the nodes of a cluster; one node per element.
DeriveStatus(nodes) ==
    IF \A i \in DOMAIN nodes : ~nodes[i].run THEN "down"
    ELSE IF \E i \in DOMAIN nodes : ~nodes[i].run \/ ~nodes[i].normal THEN "deg"
    ELSE "op"

\* deriveSync: only a running node in normal standing counts for redundancy.
DeriveSync(nodes, status) ==
    IF nodes = <<>> THEN CASE status = "op" -> "sync" [] status = "deg" -> "simplex"
                           [] OTHER -> "offline"
    ELSE IF \A i \in DOMAIN nodes : ~nodes[i].run THEN "offline"
    ELSE IF Cardinality({i \in DOMAIN nodes : nodes[i].run /\ nodes[i].normal}) >= 2
         THEN "sync" ELSE "simplex"

\* normalizeDevice: telemetry a PLC or a printer cannot have is NA, a usage is clamped, VM
\* counts the collector leaves out are those of its list, at most 25 alerts
\* (MaxAlerts) are kept, and what has no type or status is refused.
NormalizeDevice(raw, maxAlerts) ==
    LET pct(v) == IF isNoTel(raw.type) \/ v < 0 THEN NA ELSE IF v > 100 THEN 100 ELSE v
    IN [raw EXCEPT !.cpu = pct(@), !.mem = pct(@),
                   !.vmRunning = IF @ = NA THEN Count(LAMBDA v : v.run, raw.vms) ELSE @,
                   !.alerts = Clip(@, maxAlerts)]

-----------------------------------------------------------------------------
(* Usage, synchronisation and maintenance of a device (format.js).         *)

PctTone(v) == IF v = NA THEN "mut" ELSE IF v >= CritPct THEN "neg"
              ELSE IF v >= WarnPct THEN "warn" ELSE "pos"
StatusTone(status) == CASE status = "down" -> "neg" [] status = "deg" -> "warn" [] OTHER -> "pos"

\* usageOf
UsageOf(d, v) == IF v < 0 \/ d.status = "down" \/ isNoTel(d.type) THEN NA ELSE v

\* syncInfo
SyncInfo(d) ==
    IF ~isFT(d.type) THEN IF d.status = "down" THEN "offline" ELSE "online"
    ELSE IF d.sync \in {"sync", "simplex"} THEN d.sync ELSE "offline"

isMaint(d) == \E i \in DOMAIN d.nodes : d.nodes[i].maint

\* Licence: perpetual, of unknown expiry, or the days left (licTone).
LicTone(days) == IF days < 0 THEN "neg" ELSE IF days <= 60 THEN "warn" ELSE "mut"
Expiry(lic) ==    \* parseLicDate, NoDate where the text is missing or no date
    IF lic.date = NoDate THEN "unknown" ELSE LicTone(lic.date)

-----------------------------------------------------------------------------
(* Alerts (alert.js).                                                      *)

\* Mutant: the key is made of the time shown, which a session makes up.
Mut_KeyFromShownTime(a) == <<a.host, a.name, a.time>>

\* alertAckKey as decorate, autoAckDue and escalDue call it.
AckKey(a) == <<a.host, a.name, a.ackTime>>

\* The time shown for an alert without one: when this session first saw it.
Onset(onset, k, now) == IF k \in DOMAIN onset THEN onset[k] ELSE now

\* collectAlerts, one device: what the collector reports and, unless it
\* already reports it, an alert for the state of the device.
DevAlerts(d, onset, now) ==
    LET alert(name, sev, time, ackTime, k) ==
            [host |-> d.id, name |-> name, sev |-> sev, ackTime |-> ackTime,
             time |-> IF time # 0 THEN time ELSE Onset(onset, <<d.id, k>>, now),
             fixture |-> d.id = Fixture]
        reported == [i \in DOMAIN d.alerts |->
            LET a == d.alerts[i] IN
            alert(a.name, a.sev, a.time, IF IsState(a) THEN d.since ELSE a.time, a.name)]
        own(sev) == <<alert(<<StateKind, d.status>>, sev, d.since, d.since, d.status)>>
    IN reported \o
       IF d.status = "down" /\ ~\E i \in DOMAIN d.alerts : IsState(d.alerts[i])
       THEN own("critical")
       ELSE IF d.status = "deg" /\ d.alerts = <<>> THEN own("warning") ELSE <<>>

\* The order of collectAlerts: most severe first, the newest first among equals.
ByUrgency(alerts) ==
    SortSeq(alerts, LAMBDA a, b : Before(SevRank(a.sev), SevRank(b.sev), a.time > b.time))

\* collectAlerts
CollectAlerts(fleet, onset, now) ==
    ByUrgency(FlattenSeq([i \in DOMAIN fleet |-> DevAlerts(fleet[i], onset, now)]))

\* The onsets collectAlerts leaves behind: those of the alerts it met that
\* have no time of their own.
OnsetAfter(fleet, onset, now) ==
    LET met(d) == {d.alerts[i].name : i \in {j \in DOMAIN d.alerts : d.alerts[j].time = 0}}
                  \cup IF d.since = 0 /\ Len(DevAlerts(d, <<>>, now)) > Len(d.alerts)
                       THEN {d.status} ELSE {}
    IN [k \in UNION {{<<d.id, n>> : n \in met(d)} : d \in ToSet(fleet)} |-> Onset(onset, k, now)]

\* collectTraps
CollectTraps(fleet) ==
    FlattenSeq([i \in DOMAIN fleet |-> [j \in DOMAIN fleet[i].traps |->
        [host |-> fleet[i].id, name |-> <<"TRAP", "">>, sev |-> fleet[i].traps[j].sev,
         time |-> fleet[i].traps[j].time, ackTime |-> fleet[i].traps[j].time,
         fixture |-> FALSE]]])

\* activeMaint and expiredMaint on windows id -> end.
ActiveMaint(maint, now) == {id \in DOMAIN maint : maint[id] > now}
ExpiredMaint(maint, now) == {id \in DOMAIN maint : maint[id] <= now}

\* The alerts nobody has acknowledged for a time (autoAckDue, escalDue).
Overdue(fleet, acked, age, onset, now) ==
    {a \in ToSet(CollectAlerts(fleet, onset, now)) :
        ~a.fixture /\ AckKey(a) \notin acked /\ now - a.time >= age}

\* autoAckDue: keys to acknowledge; 0 turns it off.
AutoAckDue(fleet, acked, days, onset, now) ==
    IF days = 0 THEN {} ELSE {AckKey(a) : a \in Overdue(fleet, acked, days, onset, now)}
=============================================================================
