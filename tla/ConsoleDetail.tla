--------------------------- MODULE ConsoleDetail ----------------------------
(***************************************************************************)
(* The detail page of one device: what buildDetail (compute/detail.js)     *)
(* makes of its last reading, and which cards the screen builds from it    *)
(* (buildCards and sigOf of screens/detail.js).  Texts are left out; a     *)
(* row is known by its kind and its tone.  A field the device does not     *)
(* report is NA, or the empty sequence; endu says whether an Endurance     *)
(* reports its modules, which no server of this repository does.           *)
(***************************************************************************)
EXTENDS ConsoleFleet

NoDev == [id |-> 0]

Row(key, tone) == [key |-> key, tone |-> tone]
Tone(bad, worse, good) == IF bad THEN "neg" ELSE IF worse THEN "warn" ELSE good
\* The tone of a temperature or a level that has two limits.
Above(v, crit, warn) == IF v = NA THEN "mut" ELSE Tone(v >= crit, v >= warn, "pos")
Below(v, crit, warn) == IF v = NA THEN "" ELSE Tone(v <= crit, v <= warn, "")

\* The device with the id asked for; none at all rather than another one.
DeviceOf(fleet, id) ==
    IF \E i \in DOMAIN fleet : fleet[i].id = id
    THEN fleet[CHOOSE i \in DOMAIN fleet : fleet[i].id = id] ELSE NoDev

Variant(d) ==
    CASE d.type = "PLC" -> "plc" [] d.type = "NAS" -> "nas" [] d.type = "WIN" -> "win" [] d.type = "PI" -> "pi"
      [] d.type \in {"SRV", "PRN", "PC"} -> "srv" [] d.type = "FTS" -> "fts" [] OTHER -> "ft"

\* resource: shares of the cluster's capacity that are allocated.
Resource(d) ==
    LET pct(used, tot) == IF tot = 0 THEN 0 ELSE (200 * used + tot) \div (2 * tot)
        u == d.unit
    IN IF u.vt = 0 /\ u.mt = 0 THEN <<>> ELSE <<pct(u.vu, u.vt), pct(u.mu, u.mt)>>

-----------------------------------------------------------------------------
(* Tiles.                                                                  *)

UsageTile(d, key, v) == Row(key, PctTone(UsageOf(d, v)))
TileUp == Row("up", "")

\* tilesPLC: status, protocol, port, maker.
GoRun(plc) == plc.run \in {"RUN", "MONITOR"}
TilesPLC(d) ==
    <<Row("status", Tone(d.status = "down", d.plc.run # "" /\ ~GoRun(d.plc), "pos")),
      Row("protocol", ""), Row("port", ""), Row("maker", "")>>

\* tilesNAS: a health that is not reported is not green.
TilesNAS(d) ==
    <<UsageTile(d, "cpu", d.cpu), UsageTile(d, "mem", d.mem), Row("storage", PctTone(d.vol)),
      Row("health", CASE d.health = "" -> "mut" [] d.health = "normal" -> "pos" [] OTHER -> "neg")>>

TilesWIN(d) == <<UsageTile(d, "cpu", d.cpu), UsageTile(d, "mem", d.mem), Row("disk", PctTone(d.vol)), TileUp>>

TilesPI(d) ==
    <<UsageTile(d, "cpu", d.cpu), UsageTile(d, "mem", d.mem), Row("temperature", Above(d.temp, 75, 65)), Row("net", "")>>

TilesPC(d) == <<Row("host", ""), Row("os", ""), Row("services", ""), Row("net", "")>>

\* A cluster shows CPU and memory on its cards, not on tiles as well.
Tiles(d) ==
    CASE d.type = "PLC" -> TilesPLC(d) [] d.type = "NAS" -> TilesNAS(d) [] d.type = "WIN" -> TilesWIN(d)
      [] d.type = "PI" -> TilesPI(d) [] d.type = "PC" -> TilesPC(d)
      [] d.type = "FTS" -> <<Row("enclosures", ""), TileUp>>
      [] d.type = "PRN" -> <<Row("toner", Below(d.toner, 10, 25)), TileUp>>
      [] d.type = "SRV" /\ d.bmc # NA -> <<Row("bmc", IF d.bmc = 1 THEN "pos" ELSE "neg"), TileUp>>
      [] d.type = "END" -> <<Row("modules", ""), TileUp>>
      [] OTHER -> <<Row("vm", ""), TileUp>>

-----------------------------------------------------------------------------
(* Nodes, hardware, licence, alerts.                                       *)

Placeholder == [name |-> "none"]
\* rawNodes: the nodes; else the SNMP targets that answer; else a placeholder
\* for each node there should be.
RawNodes(d) ==
    LET up == {i \in DOMAIN d.snmp : d.snmp[i]} IN
    IF d.nodes # <<>> THEN d.nodes
    ELSE IF up # {} THEN [i \in 1..Cardinality(up) |-> [name |-> "snmp", run |-> TRUE, normal |-> TRUE,
                                                        maint |-> FALSE, prim |-> FALSE]]
    ELSE IF isFT(d.type) THEN <<Placeholder, Placeholder>> ELSE <<Placeholder>>

\* nodeRow: maintenance is planned, hence amber even when the node is off.
NodeRow(d, n) ==
    [name |-> n.name,
     tone |-> IF n = Placeholder THEN Tone(d.status = "down", FALSE, "pos")
              ELSE IF n.maint THEN "warn" ELSE Tone(~n.run, ~n.normal, "pos")]
NodeRows(d) == [i \in DOMAIN RawNodes(d) |-> NodeRow(d, RawNodes(d)[i])]

\* hw: the nodes and, on a Proxmox host, its disks, ports and pools.
Hardware(d) ==
    LET nodes == Filter(LAMBDA n : n # Placeholder, RawNodes(d))
    IN [i \in DOMAIN nodes |-> Row("node", Tone(~nodes[i].run, ~nodes[i].normal, "pos"))]
       \o [i \in DOMAIN d.disks |-> Row("disk", Tone(d.disks[i].bad, d.disks[i].worn, "pos"))]
       \o [i \in DOMAIN d.ports |-> Row("port", IF d.ports[i] THEN "pos" ELSE "mut")]
       \o [i \in DOMAIN d.pools |-> Row("pool", Tone(d.pools[i] >= 90, d.pools[i] >= 78, "pos"))]

\* license: one that expires on no known date is unknown, not perpetual.
License(d) ==
    IF d.lic = {} THEN "none"
    ELSE LET lic == CHOOSE l \in d.lic : TRUE IN IF ~lic.expires THEN "perpetual" ELSE Expiry(lic)

\* The six newest alerts, the eight first traps.
DetailAlerts(d) == Clip(SortSeq(d.alerts, LAMBDA a, b : a.time > b.time), 6)
DetailTraps(d) == Clip(d.traps, 8)

Notices(d) ==
    (IF \E n \in ToSet(d.nodes) : n.maint THEN <<Row("maintenance", "warn")>> ELSE <<>>)
    \o (IF d.rebooted THEN <<Row("reboot", "info")>> ELSE <<>>)
    \o (IF d.error THEN <<Row("collection", "neg")>> ELSE <<>>)
    \o (IF d.type = "PLC" /\ d.plc.msg THEN <<Row("plc", "neg")>> ELSE <<>>)

-----------------------------------------------------------------------------
(* PLC.                                                                    *)

SEV_ORD == [none |-> 0, observation |-> 1, minor |-> 2, partial |-> 3, major |-> 4]
PlcTone(mod) == IF mod.sev \in {"partial", "major"} THEN "neg" ELSE IF mod.sev # "none" THEN "warn"
                ELSE IF mod.err THEN "neg" ELSE "pos"

PlcMain(d) == Tone(d.status = "down", (d.plc.run # "" /\ ~GoRun(d.plc)) \/ d.plc.err, "pos")

\* plcDiag: the severity of the controller, else the worst of its modules.
PlcDiag(d) ==
    LET diag == d.plc.diag
        worst == IF diag.sev # "none" THEN diag.sev
                 ELSE FoldLeft(LAMBDA w, m : IF SEV_ORD[m.sev] > SEV_ORD[w] THEN m.sev ELSE w, "none", diag.modules)
    IN [state |-> IF worst \in {"partial", "major"} THEN "err" ELSE IF worst # "none" THEN "warn"
                  ELSE IF diag.err THEN "err" ELSE "ok",
        modules |-> [i \in DOMAIN diag.modules |-> PlcTone(diag.modules[i])],
        history |-> IF diag.modules = <<>> THEN <<>> ELSE Clip(diag.history, 4)]

\* plcClock: a clock off, either way, by more than a day.
PlcClock(d) == IF d.plc.skew = NA THEN "none" ELSE IF d.plc.skew > 86400 THEN "bad" ELSE "good"

\* plcSd: a card that wears out, fails or lost power while writing.
PlcSd(d) ==
    LET sd == d.plc.sd IN
    IF sd = <<>> THEN <<>>
    ELSE <<Row("status", "")>>
         \o (IF sd[1].ready THEN <<Row("lifetime", Tone(FALSE, sd[1].worn, "")), Row("error", Tone(FALSE, sd[1].err, "")),
                                   Row("protect", "")>> ELSE <<>>)
         \o (IF sd[1].power THEN <<Row("power", "warn")>> ELSE <<>>)

-----------------------------------------------------------------------------
(* Control.                                                                *)

ClusterActions == {"node-workon", "node-workoff", "node-reboot", "node-shutdown", "node-recover",
                   "vm-shutdown", "vm-poweroff", "vm-poweron"}

\* normalizeCapabilities: what is not advertised is not supported.
Capability(caps) == [supported |-> caps.supported, actions |-> IF caps.supported THEN caps.actions ELSE {}]

\* clusterActionAvailability
Available(caps, action) == Capability(caps).supported /\ action \in Capability(caps).actions

\* control: of a fault-tolerant device; sample data is read-only.
Control(d, rep) ==
    LET sample == d.sample \/ rep.sample
    IN [sample |-> sample,
        capability |-> IF sample THEN Capability([supported |-> FALSE]) ELSE Capability(rep.caps),
        available |-> {a \in ClusterActions : ~sample /\ Available(rep.caps, a)},
        nodes |-> [i \in DOMAIN d.nodes |-> [name |-> d.nodes[i].name, maint |-> d.nodes[i].maint,
                                             down |-> ~d.nodes[i].run]],
        vms |-> [i \in DOMAIN d.vms |-> [name |-> d.vms[i].name, run |-> d.vms[i].run]]]

\* procs: a mode of protection that has lost a leg is not green.
ProcTone(v) ==
    IF ~v.mirror \/ ~v.nic \/ v.cand = 1 THEN "neg"
    ELSE CASE v.ft = "ft" -> "pos" [] v.ft = "ha" -> "info" [] OTHER -> "mut"
Procs(d) == [i \in DOMAIN d.vms |-> Row(d.vms[i].name, ProcTone(d.vms[i]))]

\* statusReason
StatusReason(d) ==
    LET crit == Count(LAMBDA a : a.sev = "critical", d.alerts)
        warn == Count(LAMBDA a : a.sev = "warning", d.alerts)
    IN IF isMaint(d) \/ d.status = "op" THEN ""
       ELSE IF d.status = "down" THEN IF isFT(d.type) THEN "" ELSE "no answer"
       ELSE IF crit > 0 THEN "critical"
       ELSE IF UsageOf(d, d.mem) >= 78 THEN "memory"
       ELSE IF warn > 0 THEN "warning" ELSE ""

\* The result: header, protection banner and cards.
SyncTone(d) ==
    IF (IF Variant(d) \in {"srv", "plc"} THEN d.status # "down" ELSE d.sync = "sync") THEN "pos"
    ELSE IF d.sync = "simplex" THEN "warn" ELSE "neg"
FtTone(d) == Tone(d.status = "down", d.sync = "simplex", "pos")

BuildDetail(rep, id) ==
    LET d == DeviceOf(rep.fleet, id)
        plc == d.type = "PLC"
    IN IF d = NoDev THEN NoDev
       ELSE [id |-> d.id, variant |-> Variant(d), type |-> d.type,
             status |-> IF isMaint(d) THEN "warn" ELSE StatusTone(d.status), reason |-> StatusReason(d),
             sync |-> SyncTone(d), ft |-> FtTone(d),
             tiles |-> Tiles(d), notices |-> Notices(d), nodes |-> NodeRows(d), hw |-> Hardware(d),
             resource |-> Resource(d), license |-> License(d), alerts |-> DetailAlerts(d),
             traps |-> DetailTraps(d), procs |-> Procs(d),
             plc |-> IF plc THEN <<[main |-> PlcMain(d), diag |-> PlcDiag(d), clock |-> PlcClock(d), sd |-> PlcSd(d),
                                    comm |-> d.plc.comm, net |-> d.plc.net, vars |-> d.plc.vars]>> ELSE <<>>,
             printer |-> d.toner # NA, bmc |-> d.bmc # NA, endurance |-> d.type = "END" /\ d.endu,
             control |-> IF isFT(d.type) THEN <<Control(d, rep)>> ELSE <<>>]

-----------------------------------------------------------------------------
(* Cards.                                                                  *)

If(test, card) == IF test THEN <<card>> ELSE <<>>

\* buildCards
Cards(x) ==
    LET p == x.plc[1] IN
    CASE x.variant = "plc" ->
            <<"controller">> \o If(p.comm > 0, "comm") \o If(p.clock # "none", "clock")
            \o If(Len(p.diag.modules) > 0, "diag") \o If(p.net > 0, "net") \o If(Len(p.sd) > 0, "sd")
            \o If(p.vars > 0, "vars") \o <<"alerts">>
      [] x.variant \in {"pi", "win"} -> <<x.variant, "chart", "alerts">>
      [] x.variant = "nas" -> <<"nas">> \o If(Len(x.procs) > 0, "vms") \o <<"alerts">>
      [] x.variant = "srv" /\ x.printer -> <<"printer", "alerts">>
      [] x.variant = "srv" -> <<"server">> \o If(x.bmc, "bmc") \o <<"chart">> \o If(Len(x.procs) > 0, "vms")
                              \o <<"hardware", "alerts">>
      [] x.variant = "fts" -> <<"enclosure", "chart", "hardware", "alerts">>
      [] OTHER -> <<"pair">> \o If(x.endurance, "endurance") \o <<"chart">> \o If(~x.endurance, "vms")
                  \o If(x.license # "none", "license") \o <<"hardware", "alerts">>
                  \o If(x.control # <<>>, "controls") \o If(Len(x.traps) > 0, "traps")

\* Mutant: the actions the server allows are not part of the signature.
Mut_NoCapability(x) ==
    <<x.id, x.variant, [i \in DOMAIN x.notices |-> x.notices[i].key], Len(x.nodes), Len(x.procs), Len(x.alerts),
      Len(x.traps), x.license # "none", x.bmc, x.plc, x.hw, x.printer, x.endurance>>

\* sigOf: what makes the cards be built again, instead of patched: counts of
\* rows, not what is in them, and the actions that are allowed.
SigOf(x) ==
    LET count(plc) == <<plc.comm, plc.vars, plc.net, Len(plc.sd), Len(plc.diag.modules), Len(plc.diag.history),
                        plc.clock # "none">>
        rows == <<Len(x.tiles), Len(x.nodes), Len(x.hw), Len(x.procs), Len(x.alerts), Len(x.traps)>>
    IN [id |-> x.id, variant |-> x.variant, rows |-> rows, notices |-> [i \in DOMAIN x.notices |-> x.notices[i].key],
        plc |-> IF x.plc = <<>> THEN <<>> ELSE count(x.plc[1]), license |-> x.license # "none",
        resource |-> x.resource # <<>>, printer |-> x.printer, bmc |-> x.bmc, endurance |-> x.endurance,
        control |-> IF x.control = <<>> THEN {} ELSE
                    {<<Len(x.control[1].nodes), Len(x.control[1].vms), x.control[1].capability>>}]
=============================================================================
