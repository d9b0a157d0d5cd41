---------------------------- MODULE MC_ConsoleUi ----------------------------
(***************************************************************************)
(* Three parts of the console that share no state, in one run: navigation, *)
(* the topology canvas and the detail page with its control dialog.  desk  *)
(* says whose behaviour it is; the others rest in an initial state.        *)
(***************************************************************************)
EXTENDS ConsoleNav, ConsoleTopo, ConsoleControl

VARIABLE desk

MCAddresses ==
    {Hash("incidents", "stats"), Hash("logs", ""), Hash("unknown", ""), Hash("detail", "d1")}

Card(id, co, fa) ==
    [id |-> id, type |-> "CAM", company |-> co, factory |-> fa, topo |-> FALSE, opt |-> 0, mgmt |-> id,
     vms |-> <<>>, nodes |-> <<>>, snmp |-> <<TRUE>>]
Vm(node, ip) == [node |-> node, ip |-> ip]
Node(name, run, normal) == [name |-> name, run |-> run, normal |-> normal]

\* A pair with known structure and virtual machines on both nodes, on none of
\* them and elsewhere; a pair without; an Endurance; a host and its guest; a
\* run of plain cards interrupted by a device with a branch.
Real == [Card(1, 1, 1) EXCEPT !.type = "EV", !.topo = TRUE,
          !.nodes = <<Node("n0", TRUE, TRUE), Node("n1", TRUE, FALSE)>>,
          !.vms = <<Vm("n0", 0), Vm("n1", 0), Vm("gone", 0), Vm("n1", 0)>>]
Pair == [Card(2, 1, 1) EXCEPT !.type = "FTS", !.nodes = <<Node("n0", FALSE, TRUE), Node("n1", TRUE, TRUE)>>,
          !.vms = <<Vm("n0", 0), Vm("n1", 0), Vm("n1", 0)>>]
Host == [Card(3, 2, 0) EXCEPT !.type = "SRV", !.opt = 3, !.vms = <<Vm("", 4), Vm("", 0)>>]
Guest == [Card(4, 2, 0) EXCEPT !.type = "PC"]
Nas  == [Card(6, 0, 1) EXCEPT !.type = "NAS", !.snmp = <<TRUE, FALSE>>]
Endu == [Card(7, 2, 1) EXCEPT !.type = "END", !.nodes = <<Node("A", TRUE, TRUE)>>]
Bare == [Card(8, 1, 2) EXCEPT !.type = "EV"]    \* nodes not known: a plain card

MCFleets == {
    <<Real, Pair, Host, Guest, Card(5, 2, 0), Card(9, 2, 0), Card(10, 2, 0)>>,
    <<Endu, Bare, Nas, Card(5, 1, 2), Card(9, 1, 2), Pair>>,
    <<Card(5, 0, 0), [Real EXCEPT !.vms = <<>>, !.company = 2], Host>>,
    <<>> }

\* Devices as the detail page reads them.
Plain(id, type, status) ==
    [id |-> id, type |-> type, status |-> status, sync |-> DeriveSync(<<>>, status), cpu |-> 10, mem |-> 80, unit |-> [vt |-> 0, vu |-> 0, mt |-> 0, mu |-> 0],
     nodes |-> <<>>, snmp |-> <<status = "op", status # "down">>, vms |-> <<>>, alerts |-> <<>>, traps |-> <<>>, lic |-> {},
     error |-> FALSE, rebooted |-> FALSE, sample |-> FALSE, disks |-> <<>>, ports |-> <<>>, pools |-> <<>>, vol |-> NA,
     health |-> "", temp |-> NA, toner |-> NA, bmc |-> NA, plc |-> NA, endu |-> FALSE]
CtlNode(name, run, normal, maint) == [name |-> name, run |-> run, normal |-> normal, maint |-> maint, prim |-> FALSE]
Up(name) == CtlNode(name, TRUE, TRUE, FALSE)
Off(name) == CtlNode(name, FALSE, FALSE, FALSE)
InWork(name) == CtlNode(name, TRUE, TRUE, TRUE)    \* by its mode, in normal standing
Cluster(id, type, nodes) ==
    LET status == DeriveStatus(Judged(nodes))
    IN [Plain(id, type, status) EXCEPT !.nodes = nodes, !.sync = DeriveSync(Judged(nodes), status),
         !.unit = [vt |-> 8, vu |-> 5, mt |-> 16, mu |-> 16],
         !.vms = <<[name |-> "vm", run |-> status # "down", ft |-> "ft", mirror |-> status = "op", nic |-> TRUE, cand |-> NA]>>]
Report(devs, actions) == [fleet |-> devs, caps |-> [supported |-> actions # {}, actions |-> actions], sample |-> FALSE]

\* Two clusters: nodes reordered (the first pair's rows are patched, its buttons keep their
\* targets), one in maintenance and the other cluster removed with an action revoked, both
\* off in the demo fleet.
Second == Cluster(2, "EDGE", <<Up("n1"), Off("n0")>>)
Few == {"node-workon", "node-shutdown", "node-workoff", "vm-poweron"}
PairSite == <<
    Report(<<Cluster(1, "EV", <<Up("n0"), Up("n1")>>), Second>>, Few),
    Report(<<Cluster(1, "EV", <<Up("n1"), Up("n0")>>), Second>>, Few),
    Report(<<[Cluster(1, "EV", <<InWork("n0"), Up("n1")>>) EXCEPT !.traps = <<1>>]>>, Few \ {"node-shutdown"}),
    [Report(<<Cluster(1, "EV", <<Off("n0"), Off("n1")>>), Second>>, {}) EXCEPT !.sample = TRUE] >>

\* Every sign of trouble of the other types of device, and its absence.
Diag(sev, err, modules) == [sev |-> sev, err |-> err, modules |-> modules, history |-> <<1, 2>>]
Fine == [run |-> "RUN", err |-> FALSE, msg |-> FALSE, diag |-> Diag("none", FALSE, <<>>), skew |-> NA, sd |-> <<>>,
         comm |-> 0, net |-> 0, vars |-> 0]
Worn == [Fine EXCEPT !.run = "PROGRAM", !.err = TRUE, !.msg = TRUE, !.skew = 90000, !.comm = 2, !.net = 1, !.vars = 3,
          !.diag = Diag("none", TRUE, <<[sev |-> "minor", err |-> FALSE], [sev |-> "major", err |-> TRUE]>>),
          !.sd = <<[ready |-> TRUE, worn |-> TRUE, err |-> FALSE, power |-> TRUE]>>]
Guests == <<[name |-> "vm", run |-> TRUE, ft |-> "ha", mirror |-> TRUE, nic |-> TRUE, cand |-> NA]>>
Alarms == <<[sev |-> "warning", time |-> 1], [sev |-> "critical", time |-> 2]>>
MixedSite == <<
    Report(<<[Plain(3, "PLC", "op") EXCEPT !.plc = Fine],
             [Plain(4, "NAS", "op") EXCEPT !.health = "normal", !.vol = 50],
             [Plain(5, "SRV", "op") EXCEPT !.bmc = 1, !.vms = Guests, !.pools = <<80>>],
             [Plain(6, "PI", "op") EXCEPT !.temp = 60], Cluster(7, "END", <<Up("A"), Up("B")>>),
             [Plain(8, "PRN", "op") EXCEPT !.toner = 50]>>, {}),
    Report(<<[Plain(3, "PLC", "deg") EXCEPT !.plc = Worn, !.alerts = Alarms],
             [Plain(4, "NAS", "deg") EXCEPT !.health = "attention", !.vol = 95, !.vms = Guests],
             [Plain(5, "SRV", "deg") EXCEPT !.bmc = 0, !.pools = <<95, 10>>, !.ports = <<FALSE>>,
                      !.disks = <<[bad |-> FALSE, worn |-> TRUE]>>, !.rebooted = TRUE],
             [Plain(6, "PI", "deg") EXCEPT !.temp = 76],
             [Cluster(7, "END", <<Up("A"), Off("B")>>) EXCEPT !.alerts = Alarms, !.lic = {[expires |-> TRUE, date |-> NoDate]}],
             [Plain(8, "PRN", "deg") EXCEPT !.toner = 5]>>, {}),
    Report(<<[Plain(3, "PLC", "down") EXCEPT !.plc = Fine, !.error = TRUE], Plain(5, "SRV", "down"),
             [Plain(7, "END", "down") EXCEPT !.snmp = <<>>], Plain(8, "PRN", "down")>>, {}) >>
MCSites == <<PairSite, MixedSite>>

UiVars == <<navVars, topo, ctl, desk>>

NoTopo == topo = [fleet |-> <<>>, folded |-> {}, focus |-> NA]

UiInit ==
    /\ desk \in {"nav", "topo", "control"}
    /\ IF desk = "nav" THEN NavInit ELSE Boot(Hash("overview", ""))
    /\ IF desk = "topo" THEN TopoInit ELSE NoTopo
    /\ IF desk = "control" THEN CtlInit ELSE CtlBoot(1, 1)

Here(name) == desk = name /\ UNCHANGED desk
NavStep == Here("nav") /\ NavNext /\ UNCHANGED <<topo, ctl>>
TopoStep == Here("topo") /\ TopoNext /\ UNCHANGED <<navVars, ctl>>
CtlStep == Here("control") /\ CtlNext /\ UNCHANGED <<navVars, topo>>

UiSpec == UiInit /\ [][NavStep \/ TopoStep \/ CtlStep]_UiVars /\ NavFairness
=============================================================================
