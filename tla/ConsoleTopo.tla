---------------------------- MODULE ConsoleTopo -----------------------------
(***************************************************************************)
(* The topology canvas (buildTopo of topo.js): companies, their factories  *)
(* and devices, with the branch of a device (console, nodes, groups of     *)
(* virtual machines) drawn to its right; the layout is searched over the   *)
(* number of grid columns and of canvas columns for the largest scale that *)
(* fits.  Lengths are those of the source.  A box holds twice its vertical *)
(* position, for positions may be halves.  Links, texts and colours are    *)
(* left out.                                                               *)
(*                                                                         *)
(* What the screen keeps: the fleet, the folded keys, the focused company. *)
(***************************************************************************)
EXTENDS ConsoleFleet

CONSTANTS
    TopoFleets,     \* fleets shown
    MaxFolds,       \* keys folded at once (bound)
    MAX_D, MAX_C    \* columns tried in a grid and on the canvas

VARIABLE topo       \* [fleet, folded, focus]

PAD == 24
CO == [x |-> 24, w |-> 176, h |-> 46]
FA == [x |-> 220, w |-> 204, h |-> 40]
GRID_X == 458
CARD == [w |-> 164, h |-> 62, gx |-> 26, gy |-> 12]
BAND_GAP == 24
ROW_GAP_FULL == 22
CO_GAP == 34
CANVAS_COL_GAP == 48
XD == [w |-> 252, h |-> 140]
ENDU == [w |-> 595]
XN == [x |-> 288, w |-> 208, h |-> 74, gy |-> 14]
XE == [x |-> 532, w |-> 142, h |-> 106]
XV == [x |-> 718, w |-> 212, h |-> 92, gy |-> 12]
RE == [x |-> 274, w |-> 140, h |-> 118]
RN == [x |-> 430, w |-> 182, h |-> 82]
RG == [x |-> 628, w |-> 96, h |-> 58]
RV == [x |-> 740, w |-> 212, h |-> 86, gy |-> 9]
LANE_GAP == 16

Larger(a, b) == IF a > b THEN a ELSE b
Smaller(a, b) == IF a < b THEN a ELSE b
Largest(seq) == FoldLeft(Larger, 0, seq)
Ceil(n, d) == (n + d - 1) \div d

-----------------------------------------------------------------------------
(* Groups.                                                                 *)

\* devSort: by type, then by name.
TYPE_KEYS == <<"EV", "EDGE", "END", "FTS", "SRV", "PLC", "PC", "NAS", "WIN", "PI", "PRN">>
TypeRank(type) == IF Contains(TYPE_KEYS, type) THEN CHOOSE i \in DOMAIN TYPE_KEYS : TYPE_KEYS[i] = type ELSE 99
DevSort(devs) == SortSeq(devs, LAMBDA x, y : Before(TypeRank(x.type), TypeRank(y.type), x.id < y.id))

\* A device that is a virtual machine of a host is drawn with the host.
HostedIps(fleet) ==
    UNION {{v.ip : v \in ToSet(d.vms)} : d \in {x \in ToSet(fleet) : ~isFT(x.type)}} \ {0}
Placed(fleet) == Filter(LAMBDA d : d.mgmt \notin HostedIps(fleet), fleet)

\* Companies, those with a known inner structure first; 0 is "unassigned".
Companies(fleet) ==
    LET real(c) == \E d \in ToSet(Placed(fleet)) : d.company = c /\ d.topo
    IN SortSeq(SetToSeq({d.company : d \in ToSet(Placed(fleet))}),
               LAMBDA a, b : Before(IF real(a) THEN 0 ELSE 1, IF real(b) THEN 0 ELSE 1, a < b))
Shown(t) ==
    IF t.focus \in ToSet(Companies(t.fleet)) THEN <<t.focus>> ELSE Companies(t.fleet)
DevsOf(fleet, c, f) == DevSort(Filter(LAMBDA d : d.company = c /\ d.factory = f, Placed(fleet)))
Factories(fleet, c) ==
    SortSeq(SetToSeq({d.factory : d \in {x \in ToSet(Placed(fleet)) : x.company = c}}), <)

-----------------------------------------------------------------------------
(* Size of a device with its branch.                                       *)

\* typeRows: how many lines the card of a device has that is not of an FT
\* pair; opt of them depend on what the device reports.  0: a plain card.
TypeRows(d) ==
    CASE d.type = "PLC" -> 3 + Smaller(2, d.opt)
      [] d.type = "SRV" -> 5 + Smaller(4, d.opt)
      [] d.type = "NAS" -> 4 + Smaller(1, d.opt)
      [] d.type \in {"PRN", "PC", "WIN", "PI"} -> 4
      [] d.type = "END" -> 6
      [] OTHER -> 0

StackH(n, h, gy) == IF n > 0 THEN n * h + (n - 1) * gy ELSE 0
Expandable(d) == IF isFT(d.type) THEN d.nodes # <<>> ELSE d.vms # <<>> \/ TypeRows(d) > 0
BranchOpen(t, d) == <<"topo", d.id>> \notin t.folded
NodesFolded(t, d) == <<"nd", d.id>> \in t.folded

\* fullDevH; the flow of an Endurance pair is two boxes deep.
FullDevH(d) ==
    IF d.type = "END" THEN 186 + 2 * 54
    ELSE IF isFT(d.type) \/ TypeRows(d) = 0 THEN XD.h
    ELSE Larger(XD.h, 92 + 20 * TypeRows(d))

\* Mutant: the height of a lane is that of its node.
Mut_LaneOfNode(t, d) ==
    LET nodes == Clip(d.nodes, 2)
    IN [i \in DOMAIN nodes |->
          [vms |-> IF i = 1 THEN d.vms ELSE <<>>, folded |-> FALSE, h |-> RN.h]]

\* realLanes: a virtual machine on a node that is not drawn goes to the first.
RealLanes(t, d) ==
    LET nodes == Clip(d.nodes, 2)
        lane(v) == IF \E i \in DOMAIN nodes : nodes[i].name = v.node
                   THEN CHOOSE i \in DOMAIN nodes : /\ nodes[i].name = v.node
                                                    /\ \A j \in 1..(i - 1) : nodes[j].name # v.node
                   ELSE 1
    IN [i \in DOMAIN nodes |->
          LET vms == Filter(LAMBDA v : lane(v) = i, d.vms)
              folded == vms # <<>> /\ <<"vg", d.id, nodes[i].name>> \in t.folded
              blk == IF folded THEN 0 ELSE StackH(Len(vms), RV.h, RV.gy)
          IN [vms |-> vms, folded |-> folded,
              h |-> Larger(RN.h, Larger(IF vms = <<>> THEN 0 ELSE RG.h, blk))]]
LanesH(lanes) ==
    IF lanes = <<>> THEN 0 ELSE SumOf(LAMBDA l : l.h, lanes) + LANE_GAP * (Len(lanes) - 1)

VmBlockH(d) == StackH(Len(d.vms), XV.h, XV.gy)

\* xRowH
RowH(t, d) ==
    LET nodesH == StackH(Len(Clip(d.nodes, 2)), XN.h, XN.gy) IN
    IF d.type = "END" THEN FullDevH(d)
    ELSE IF ~isFT(d.type) THEN Larger(FullDevH(d), VmBlockH(d))
    ELSE IF d.topo THEN IF BranchOpen(t, d)
                        THEN Largest(<<XD.h, RE.h, LanesH(RealLanes(t, d))>>) ELSE XD.h
    ELSE IF NodesFolded(t, d) THEN Larger(XD.h, nodesH)
    ELSE Largest(<<XD.h, nodesH, XE.h, VmBlockH(d)>>)

\* xRowW
RowW(t, d) ==
    IF d.type = "END" THEN ENDU.w
    ELSE IF ~isFT(d.type) THEN XN.x + (IF d.vms = <<>> THEN 0 ELSE XV.w)
    ELSE IF d.topo /\ ~BranchOpen(t, d) THEN XD.w
    ELSE IF d.topo
    THEN LET right(l) == IF l.vms = <<>> THEN 0 ELSE IF l.folded THEN RG.x + RG.w ELSE RV.x + RV.w
             lanes == RealLanes(t, d)
         IN Largest(<<RN.x + RN.w>> \o [i \in DOMAIN lanes |-> right(lanes[i])])
    ELSE IF NodesFolded(t, d) THEN XN.x + XN.w
    ELSE IF d.vms = <<>> THEN XE.x + XE.w ELSE XV.x + XV.w

-----------------------------------------------------------------------------
(* Plan.                                                                   *)

\* gridBlock: plain cards, filled column by column.
GridBlock(n, D) ==
    LET per == Ceil(n, D)
        cols == Ceil(n, per)
    IN [per |-> per, w |-> cols * CARD.w + (cols - 1) * CARD.gx, h |-> StackH(per, CARD.h, CARD.gy)]

\* The rows of a factory: a device with a branch has one of its own, plain
\* cards in between share a grid.
BandRows(devs) ==
    FoldLeft(LAMBDA rows, d :
        IF Expandable(d) THEN Append(rows, [full |-> TRUE, devs |-> <<d>>])
        ELSE IF rows # <<>> /\ ~Last(rows).full
             THEN [rows EXCEPT ![Len(rows)].devs = Append(@, d)]
             ELSE Append(rows, [full |-> FALSE, devs |-> <<d>>]), <<>>, devs)

\* Rows one below the other from top.
LayRows(t, rows, D, top) ==
    FoldLeft(LAMBDA acc, r :
        LET gap == IF acc.rows = <<>> THEN 0
                   ELSE IF r.full \/ Last(acc.rows).full THEN ROW_GAP_FULL ELSE CARD.gy
            grid == GridBlock(Len(r.devs), D)
            h == IF r.full THEN RowH(t, r.devs[1]) ELSE grid.h
            w == IF r.full THEN RowW(t, r.devs[1]) ELSE grid.w
        IN [y |-> acc.y + gap + h, w |-> Larger(acc.w, w),
            rows |-> Append(acc.rows, [full |-> r.full, devs |-> r.devs, y |-> acc.y + gap, h |-> h,
                                       per |-> grid.per])],
        [y |-> top, w |-> CARD.w, rows |-> <<>>], rows)

\* planCompany
PlanCompany(t, c, D) ==
    LET band(acc, f) ==
            LET top == acc.h + IF acc.bands = <<>> THEN 0 ELSE BAND_GAP
                laid == IF <<"fa", c, f>> \in t.folded
                        THEN [y |-> top + FA.h, w |-> acc.w, rows |-> <<>>]
                        ELSE LayRows(t, BandRows(DevsOf(t.fleet, c, f)), D, top)
            IN [acc EXCEPT !.h = laid.y, !.w = Larger(@, laid.w),
                  !.bands = Append(@, [f |-> f, top |-> top, h |-> laid.y - top, rows |-> laid.rows])]
        none == [c |-> c, h |-> 0, w |-> CARD.w, bands |-> <<>>]
        plan == IF <<"co", c>> \in t.folded THEN [none EXCEPT !.h = CO.h]
                ELSE FoldLeft(band, none, Factories(t.fleet, c))
    IN [plan EXCEPT !.w = @ + GRID_X]

\* Height of companies one below the other.
ColumnH(list) == SumOf(LAMBDA p : p.h, list) + IF list = <<>> THEN 0 ELSE (Len(list) - 1) * CO_GAP

\* packFor: companies fill C canvas columns of about the same height.
Columns(plans, C) ==
    FoldLeft(LAMBDA acc, p :
        LET last == acc[Len(acc)] IN
        IF last # <<>> /\ Len(acc) < C /\ C * ColumnH(Append(last, p)) > ColumnH(plans)
        THEN Append(acc, <<p>>) ELSE [acc EXCEPT ![Len(acc)] = Append(@, p)], <<(<<>>)>>, plans)

\* ... which stand side by side.
Arrange(cols, C) ==
    LET width(list) == IF list = <<>> THEN GRID_X + CARD.w ELSE Largest([i \in DOMAIN list |-> list[i].w])
        left[j \in DOMAIN cols] == IF j = 1 THEN 0 ELSE left[j - 1] + width(cols[j - 1]) + CANVAS_COL_GAP
        place(j) == [i \in DOMAIN cols[j] |->
                        [plan |-> cols[j][i], dx |-> left[j],
                         dy |-> PAD + ColumnH(SubSeq(cols[j], 1, i - 1)) + IF i > 1 THEN CO_GAP ELSE 0]]
    IN [cos |-> FlattenSeq([j \in DOMAIN cols |-> place(j)]), used |-> Len(cols), C |-> C,
        w |-> left[Len(cols)] + width(Last(cols)) + PAD,
        h |-> Largest([j \in DOMAIN cols |-> ColumnH(cols[j]) + 2 * PAD])]
Plans(t, shown, D) == [i \in DOMAIN shown |-> PlanCompany(t, shown[i], D)]
PackFor(t, D, C) == Arrange(Columns(Plans(t, Shown(t), D), C), C)

\* The scale at which a layout fits the reference stage (926 by 618) is the
\* smaller of two quotients; Fits(p, q): that of p is the larger one.
Fits(p, q) ==
    LET scale(l) == IF 926 * l.h <= 618 * l.w THEN <<926, l.w>> ELSE <<618, l.h>>
    IN scale(p)[1] * scale(q)[2] > scale(q)[1] * scale(p)[2]

\* |log(w / h / 1.62)| <= log(2.6 / 1.62)
GoodRatio(l) == 10 * l.w <= 26 * l.h /\ 26000 * l.w >= 26244 * l.h

\* The first of the layouts with the largest scale, of good ratio if any is.
Best(packs) ==
    LET good == Filter(GoodRatio, packs)
        first(list) == FoldLeft(LAMBDA best, l : IF Fits(l, best) THEN l ELSE best, list[1], list)
    IN first(IF good # <<>> THEN good ELSE packs)
BestPack(t) ==
    Best(Filter(LAMBDA l : l.used >= l.C, FlattenSeq([D \in 1..MAX_D |-> [C \in 1..MAX_C |-> PackFor(t, D, C)]])))

-----------------------------------------------------------------------------
(* Drawing.  y2 is twice the vertical position.                            *)

Box(kind, id, x, y2, w, h) == [kind |-> kind, id |-> id, x |-> x, y2 |-> y2, w |-> w, h |-> h]
\* A box of height h around the line at cy2.
Centred(kind, id, x, cy2, w, h) == Box(kind, id, x, cy2 - h, w, h)
Stack(kind, id, x, cy2, w, h, gy, n) ==
    [i \in 1..n |-> Box(kind, Append(id, i), x, cy2 - StackH(n, h, gy) + 2 * (i - 1) * (h + gy), w, h)]

\* pushDevice: a full card is as high as its contents, a compact one fixed.
DeviceBox(d, x, y2, full) ==
    IF full THEN Box("device", <<d.id>>, x, y2, IF d.type = "END" THEN ENDU.w ELSE XD.w, FullDevH(d))
    ELSE Box("device", <<d.id>>, x, y2, CARD.w, CARD.h)

\* pushRealRow: console, then per node a lane with its virtual machines.
RealRow(t, d, cy2) ==
    LET lanes == RealLanes(t, d)
        top(i) == cy2 - LanesH(lanes) + 2 * (SumOf(LAMBDA l : l.h, SubSeq(lanes, 1, i - 1)) + (i - 1) * LANE_GAP)
        lane(i) ==
            LET l == lanes[i]
                mid == top(i) + l.h
            IN <<Centred("node", <<d.id, i>>, GRID_X + RN.x, mid, RN.w, RN.h)>>
               \o (IF l.vms = <<>> THEN <<>>
                   ELSE <<Centred("vmgroup", <<d.id, i>>, GRID_X + RG.x, mid, RG.w, RG.h)>>)
               \o (IF l.folded THEN <<>>
                   ELSE Stack("vm", <<d.id, i>>, GRID_X + RV.x, mid, RV.w, RV.h, RV.gy, Len(l.vms)))
    IN <<Centred("eac", <<d.id>>, GRID_X + RE.x, cy2, RE.w, RE.h)>>
       \o FlattenSeq([i \in DOMAIN lanes |-> lane(i)])

\* A device with its branch, its row r starting at dy.
FullRow(t, r, dy) ==
    LET d == r.devs[1]
        cy2 == 2 * (r.y + dy) + r.h
        n == Len(Clip(d.nodes, 2))
        card == DeviceBox(d, GRID_X, cy2 - FullDevH(d), TRUE)
        branch ==
            IF d.type = "END" \/ (isFT(d.type) /\ d.topo /\ ~BranchOpen(t, d)) THEN <<>>
            ELSE IF ~isFT(d.type)
            THEN Stack("vm", <<d.id>>, GRID_X + XN.x, cy2, XV.w, XV.h, XV.gy, Len(d.vms))
            ELSE IF d.topo THEN RealRow(t, d, cy2)
            ELSE Stack("node", <<d.id>>, GRID_X + XN.x, cy2, XN.w, XN.h, XN.gy, n)
                 \o IF NodesFolded(t, d) THEN <<>>
                    ELSE <<Centred("eac", <<d.id>>, GRID_X + XE.x, cy2, XE.w, XE.h)>>
                         \o Stack("vm", <<d.id>>, GRID_X + XV.x, cy2, XV.w, XV.h, XV.gy, Len(d.vms))
    IN <<card>> \o branch

\* Plain cards of a grid.
GridRow(r, dy) ==
    [i \in DOMAIN r.devs |->
        DeviceBox(r.devs[i], GRID_X + ((i - 1) \div r.per) * (CARD.w + CARD.gx),
                  2 * (r.y + dy + ((i - 1) % r.per) * (CARD.h + CARD.gy)), FALSE)]

\* The boxes of a company at its place on the canvas.
CompanyBoxes(t, co) ==
    LET p == co.plan
        band(b) == <<Centred("factory", <<p.c, b.f>>, FA.x, 2 * (b.top + co.dy) + b.h, FA.w, FA.h)>>
                   \o FlattenSeq([k \in DOMAIN b.rows |->
                          IF b.rows[k].full THEN FullRow(t, b.rows[k], co.dy) ELSE GridRow(b.rows[k], co.dy)])
        boxes == <<Centred("company", <<p.c>>, CO.x, 2 * co.dy + p.h, CO.w, CO.h)>>
                 \o FlattenSeq([k \in DOMAIN p.bands |-> band(p.bands[k])])
    IN [i \in DOMAIN boxes |-> [boxes[i] EXCEPT !.x = @ + co.dx]]

\* buildTopo
Drawn(t, p) ==
    [w |-> p.w, h |-> p.h, boxes |-> FlattenSeq([i \in DOMAIN p.cos |-> CompanyBoxes(t, p.cos[i])])]
BuildTopo(t) == Drawn(t, BestPack(t))

\* summary and pRows: the strip above the canvas and the list of factories.
NodeStatus(n) == IF ~n.run THEN "down" ELSE IF n.normal THEN "op" ELSE "deg"
TopoSummary(fleet) ==
    [nodes |-> SumOf(LAMBDA d : Len(IF d.nodes = <<>> THEN d.snmp ELSE d.nodes), fleet),
     healthy |-> SumOf(LAMBDA d : IF d.nodes = <<>> THEN Count(LAMBDA up : up, d.snmp)
                                  ELSE Count(LAMBDA n : NodeStatus(n) = "op", d.nodes), fleet),
     rows |-> [i \in DOMAIN Companies(fleet) |-> LET c == Companies(fleet)[i] IN
                  [k \in DOMAIN Factories(fleet, c) |-> Len(DevsOf(fleet, c, Factories(fleet, c)[k]))]]]

-----------------------------------------------------------------------------
(* What the screen does: new answers, folding, focusing.                   *)

TopoInit == topo \in [fleet : TopoFleets, folded : {{}}, focus : {NA}]

TopoAnswer == \E f \in TopoFleets : topo' = [topo EXCEPT !.fleet = f]

\* handleClick: the + of a box.
FoldKeys(fleet) ==
    {<<"co", d.company>> : d \in ToSet(fleet)} \cup {<<"fa", d.company, d.factory>> : d \in ToSet(fleet)}
    \cup {<<"topo", d.id>> : d \in {x \in ToSet(fleet) : isFT(x.type) /\ x.topo}}
    \cup {<<"nd", d.id>> : d \in {x \in ToSet(fleet) : isFT(x.type) /\ ~x.topo}}
    \cup UNION {{<<"vg", d.id, n.name>> : n \in ToSet(d.nodes)} : d \in {x \in ToSet(fleet) : x.topo}}
TopoFold ==
    \E k \in FoldKeys(topo.fleet) :
        /\ k \in topo.folded \/ Cardinality(topo.folded) < MaxFolds
        /\ topo' = [topo EXCEPT !.folded = IF k \in @ THEN @ \ {k} ELSE @ \cup {k}]

TopoFocus ==
    \E c \in ToSet(Companies(topo.fleet)) \cup {NA} : topo' = [topo EXCEPT !.focus = c]

TopoNext == TopoAnswer \/ TopoFold \/ TopoFocus

-----------------------------------------------------------------------------
(* Properties.                                                             *)

Disjoint(a, b) ==
    \/ a.x + a.w <= b.x \/ b.x + b.w <= a.x
    \/ a.y2 + 2 * a.h <= b.y2 \/ b.y2 + 2 * b.h <= a.y2

\* A canvas c of the topology t: no overlap, nothing outside, all devices.
Sound(t, c) ==
    LET open(d) == /\ d.company \in ToSet(Shown(t)) /\ <<"co", d.company>> \notin t.folded
                   /\ <<"fa", d.company, d.factory>> \notin t.folded
        due == {<<d.id>> : d \in {x \in ToSet(Placed(t.fleet)) : open(x)}}
        cards == Filter(LAMBDA b : b.kind = "device", c.boxes)
    IN /\ \A i, j \in DOMAIN c.boxes : i < j => Disjoint(c.boxes[i], c.boxes[j])
       /\ \A b \in ToSet(c.boxes) : /\ b.x >= 0 /\ b.x + b.w <= c.w
                                    /\ b.y2 >= 0 /\ b.y2 + 2 * b.h <= 2 * c.h
       /\ {b.id : b \in ToSet(cards)} = due /\ Len(cards) = Cardinality(due)
       /\ SumOf(LAMBDA r : SumOf(LAMBDA n : n, r), TopoSummary(t.fleet).rows) = Len(Placed(t.fleet))

\* Whatever is folded and whichever layout wins the search, no two boxes of
\* the canvas overlap, all lie on it, every device of a factory that is open
\* is drawn exactly once, and the list of factories counts every device that
\* is not the virtual machine of a host.
LayoutSound == Sound(topo, BuildTopo(topo))
=============================================================================
