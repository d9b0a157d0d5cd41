-------------------------- MODULE SharedSyncProofs --------------------------
(***************************************************************************)
(* What the durable queue of SharedSync promises, for any number of tabs,  *)
(* keys, edits, faults and reloads: an edit that was saved is not lost,    *)
(* and a screen takes up an answer only when the server had merged all its *)
(* edits.  Both need one tab per browser: two tabs of one browser write    *)
(* the same localStorage entry, each its own queue.                        *)
(***************************************************************************)
EXTENDS SharedSync, SequenceTheorems, TLAPS

OneTabPerBrowser == \A t, u \in Tabs : BrowserOf[t] = BrowserOf[u] => t = u

\* The deltas of the first n edits.
Dated(n) == [key : Keys, val : Nat, edit : 1..n]

\* The types, with every delta one of an edit made so far.
SyncTypes ==
    /\ TypeOK
    /\ \A t \in Tabs : tab[t].queue \in Seq(Dated(edits))
    /\ outbox \in [Browsers -> Seq(Dated(edits))]
    /\ late \subseteq Dated(edits)

\* A tab s, the saved queue o, the edits d that were saved and those the server has
\* merged, a.  An edit passes from the first to the second to the server: the saved queue
\* holds what the server lacks, the queue in memory what the saved one holds.  A request
\* is for the head of the queue, and a read that no edit has overtaken was sent, and
\* answered, while the queue was empty.
Keeps(s, o, d, a) ==
    /\ d \subseteq a \union Edits(o)
    /\ Edits(o) \subseteq a \union Edits(s.queue)
    /\ s.request # "none" => s.queue # <<>>
    /\ s.request = "ok" => Head(s.queue).edit \in a
    /\ s.read # "none" /\ ~s.superseded => s.queue = <<>>
    /\ s.read = "answered" /\ ~s.superseded => d \subseteq s.seen

KeepsAll == \A t \in Tabs : Keeps(tab[t], outbox[BrowserOf[t]], durable[t], applied)

SyncInv == SyncTypes /\ KeepsAll

-----------------------------------------------------------------------------
(* Queues and marks.                                                       *)

\* Later edits leave a delta what it is.
LEMMA DatedGrows ==
    ASSUME NEW m \in Nat, NEW n \in Nat, m <= n
    PROVE  Dated(m) \subseteq Dated(n) /\ Seq(Dated(m)) \subseteq Seq(Dated(n))
<1>1. Dated(m) \subseteq Dated(n)
    BY DEF Dated
<1> QED BY <1>1

\* A dated delta is a delta.
LEMMA DatedIsDelta == ASSUME NEW n \in Nat PROVE Dated(n) \subseteq Delta /\ Seq(Dated(n)) \subseteq Queue
<1>1. Dated(n) \subseteq Delta
    BY DEF Dated, Delta
<1> QED BY <1>1 DEF Queue

\* The edits of a queue: none, its head and the rest, and one more at its end.
LEMMA EditsFacts ==
    /\ Edits(<<>>) = {}
    /\ \A q \in Queue : q # <<>> =>
          /\ Head(q) \in Delta /\ Tail(q) \in Queue
          /\ Edits(q) = {Head(q).edit} \union Edits(Tail(q))
    /\ \A q \in Queue, d \in Delta :
          /\ Append(q, d) \in Queue /\ Append(q, d) # <<>>
          /\ Edits(q) \subseteq Edits(Append(q, d))
          /\ q # <<>> => Head(Append(q, d)) = Head(q)
<1>1. Edits(<<>>) = {}
    BY DEF Edits
<1>2. ASSUME NEW q \in Queue, q # <<>>
      PROVE  /\ Head(q) \in Delta /\ Tail(q) \in Queue
             /\ Edits(q) = {Head(q).edit} \union Edits(Tail(q))
  <2>1. /\ Head(q) \in Delta /\ Tail(q) \in Queue /\ Head(q) = q[1]
        /\ Len(q) \in Nat /\ Len(q) > 0 /\ DOMAIN q = 1..Len(q)
        /\ DOMAIN Tail(q) = 1..(Len(q) - 1)
        /\ \A i \in 1..(Len(q) - 1) : Tail(q)[i] = q[i + 1]
    BY <1>2, HeadTailProperties, EmptySeq, LenProperties DEF Queue
  <2>2. ASSUME NEW e \in Edits(q) PROVE e = Head(q).edit \/ e \in Edits(Tail(q))
    <3>1. PICK i \in 1..Len(q) : e = q[i].edit
        BY <2>1 DEF Edits
    <3>2. CASE i = 1
        BY <2>1, <3>1, <3>2
    <3>3. CASE i # 1
      <4>1. i - 1 \in 1..(Len(q) - 1) /\ (i - 1) + 1 = i
          BY <2>1, <3>3
      <4>2. Tail(q)[i - 1].edit = e
          BY <2>1, <3>1, <4>1
      <4> QED BY <2>1, <4>1, <4>2 DEF Edits
    <3> QED BY <3>2, <3>3
  <2>3. Head(q).edit \in Edits(q)
    <3>1. 1 \in DOMAIN q
        BY <2>1
    <3> QED BY <2>1, <3>1 DEF Edits
  <2>4. ASSUME NEW e \in Edits(Tail(q)) PROVE e \in Edits(q)
    <3>1. PICK i \in 1..(Len(q) - 1) : e = Tail(q)[i].edit
        BY <2>1 DEF Edits
    <3>2. i + 1 \in DOMAIN q /\ q[i + 1].edit = e
        BY <2>1, <3>1
    <3> QED BY <3>2 DEF Edits
  <2> QED BY <2>1, <2>2, <2>3, <2>4
<1>3. ASSUME NEW q \in Queue, NEW d \in Delta
      PROVE  /\ Append(q, d) \in Queue /\ Append(q, d) # <<>>
             /\ Edits(q) \subseteq Edits(Append(q, d))
             /\ q # <<>> => Head(Append(q, d)) = Head(q)
  <2>1. /\ Append(q, d) \in Queue /\ Append(q, d) # <<>>
        /\ DOMAIN q = 1..Len(q) /\ Len(q) \in Nat
        /\ DOMAIN Append(q, d) = 1..(Len(q) + 1)
        /\ \A i \in 1..Len(q) : Append(q, d)[i] = q[i]
    BY AppendProperties, LenProperties DEF Queue
  <2>2. ASSUME NEW i \in 1..Len(q) PROVE i \in DOMAIN Append(q, d) /\ Append(q, d)[i].edit = q[i].edit
    BY <2>1
  <2>3. Edits(q) \subseteq Edits(Append(q, d))
    BY <2>1, <2>2 DEF Edits
  <2>4. q # <<>> => Head(Append(q, d)) = Head(q)
    BY <2>1, HeadTailProperties, EmptySeq DEF Queue
  <2> QED BY <2>1, <2>3, <2>4
<1> QED BY <1>1, <1>2, <1>3

\* The server's map stays a map.
LEMMA MergeTypes ==
    ASSUME NEW m \in Marks, NEW d, d.key \in Keys, d.val \in Nat
    PROVE  Merge(m, d) \in Marks
<1>1. [m EXCEPT ![d.key] = d.val] \in Marks
    BY DEF Marks
<1> QED BY <1>1 DEF Merge, keepNewest, Marks

-----------------------------------------------------------------------------
(* The steps of a coordinator, on the record of its state.                 *)

\* What merging more edits at the server leaves true.
LEMMA KeepsGrows ==
    ASSUME NEW s, NEW o, NEW d, NEW a, NEW b, a \subseteq b, Keeps(s, o, d, a)
    PROVE  Keeps(s, o, d, b)
BY DEF Keeps

\* The queue is saved.
LEMMA KeepsSaved ==
    ASSUME NEW s \in Tab, NEW o, NEW d, NEW a, Keeps(s, o, d, a)
    PROVE  Keeps(s, s.queue, d \union Edits(s.queue), a)
BY EditsFacts DEF Keeps

\* The first PUT of a queue.
LEMMA KeepsPushing ==
    ASSUME NEW s \in Tab, NEW o, NEW d, NEW a, Keeps(s, o, d, a), s.queue # <<>>
    PROVE  Keeps(Pushing(s), o, d, a) /\ Pushing(s) \in Tab /\ Pushing(s).queue = s.queue
           /\ Pushing(s).marks = s.marks
<1> DEFINE p == Pushing(s)
<1>1. /\ p \in Tab /\ p.queue = s.queue /\ p.request = "sent" /\ p.read = s.read
      /\ p.superseded = s.superseded /\ p.seen = s.seen /\ p.marks = s.marks
  <2>1. 1 \in 1..2
      OBVIOUS
  <2>2. p = [[[s EXCEPT !.drain = "live"] EXCEPT !.request = "sent"] EXCEPT !.attempt = 1]
      BY DEF Pushing
  <2> QED BY <2>1, <2>2 DEF Tab
<1> HIDE DEF p
<1>2. Keeps(p, o, d, a)
    BY <1>1 DEF Keeps
<1> QED BY <1>1, <1>2 DEF p

\* The mark of a failed save does not matter.
LEMMA KeepsBlocked ==
    ASSUME NEW s \in Tab, NEW o, NEW d, NEW a, Keeps(s, o, d, a), NEW b \in BOOLEAN
    PROVE  LET p == [s EXCEPT !.blocked = b]
           IN  p \in Tab /\ p.queue = s.queue /\ p.marks = s.marks /\ Keeps(p, o, d, a)
<1> DEFINE p == [s EXCEPT !.blocked = b]
<1>1. /\ p \in Tab /\ p.queue = s.queue /\ p.request = s.request /\ p.read = s.read
      /\ p.superseded = s.superseded /\ p.seen = s.seen /\ p.marks = s.marks
    BY DEF Tab
<1> HIDE DEF p
<1>2. Keeps(p, o, d, a)
    BY <1>1 DEF Keeps
<1> QED BY <1>1, <1>2 DEF p

\* drain and runDrain up to the first await.
LEMMA KeepsDrained ==
    ASSUME NEW s \in Tab, NEW o, NEW d, NEW a, Keeps(s, o, d, a), NEW ok \in BOOLEAN
    PROVE  LET p == Drained(s, ok)
           IN  p \in Tab /\ p.queue = s.queue /\ p.marks = s.marks /\ Keeps(p, o, d, a)
<1>1. CASE s.drain # "none" \/ s.queue = <<>>
    BY <1>1 DEF Drained
<1>2. CASE ~(s.drain # "none" \/ s.queue = <<>>) /\ ~ok
  <2> DEFINE p == [s EXCEPT !.drain = "stale"]
  <2>1. /\ p \in Tab /\ p.queue = s.queue /\ p.request = s.request /\ p.read = s.read
        /\ p.superseded = s.superseded /\ p.seen = s.seen /\ p.marks = s.marks
      BY DEF Tab
  <2>2. Drained(s, ok) = p
      BY <1>2 DEF Drained
  <2> HIDE DEF p
  <2>3. Keeps(p, o, d, a)
      BY <2>1 DEF Keeps
  <2> QED BY <2>1, <2>2, <2>3
<1>3. CASE ~(s.drain # "none" \/ s.queue = <<>>) /\ ok
  <2> DEFINE p == [s EXCEPT !.blocked = FALSE]
  <2>1. p \in Tab /\ p.queue = s.queue /\ p.marks = s.marks /\ Keeps(p, o, d, a)
      BY KeepsBlocked
  <2>2. Drained(s, ok) = Pushing(p)
      BY <1>3 DEF Drained
  <2> HIDE DEF p
  <2>3. Pushing(p) \in Tab /\ Pushing(p).queue = p.queue /\ Pushing(p).marks = p.marks
        /\ Keeps(Pushing(p), o, d, a)
      BY <1>3, <2>1, KeepsPushing
  <2> QED BY <2>1, <2>2, <2>3
<1> QED BY <1>1, <1>2, <1>3

\* refreshKind up to its await: the read begins while the queue is empty.
LEMMA KeepsReading ==
    ASSUME NEW s \in Tab, NEW o, NEW d, NEW a, Keeps(s, o, d, a)
    PROVE  LET p == Reading(s)
           IN  p \in Tab /\ p.queue = s.queue /\ p.marks = s.marks /\ Keeps(p, o, d, a)
<1>1. CASE pending(s) \/ s.read # "none"
    BY <1>1 DEF Reading
<1>2. CASE ~(pending(s) \/ s.read # "none")
  <2> DEFINE p == [s EXCEPT !.read = "sent"]
  <2>1. /\ p \in Tab /\ p.queue = s.queue /\ p.request = s.request /\ p.read = "sent"
        /\ p.superseded = s.superseded /\ p.seen = s.seen /\ p.marks = s.marks
      BY DEF Tab
  <2>2. Reading(s) = p /\ s.queue = <<>>
      BY <1>2 DEF Reading, pending
  <2> HIDE DEF p
  <2>3. Keeps(p, o, d, a)
      BY <2>1, <2>2 DEF Keeps
  <2> QED BY <2>1, <2>2, <2>3
<1> QED BY <1>1, <1>2

\* runDrain after its loop.
LEMMA KeepsAfterDrain ==
    ASSUME NEW s \in Tab, NEW o, NEW d, NEW a, NEW ok \in BOOLEAN,
           Keeps(s, o, d, a) \/ Keeps([s EXCEPT !.request = "none"], o, d, a)
    PROVE  LET p == AfterDrain(s, ok)
           IN  p \in Tab /\ p.queue = s.queue /\ p.marks = s.marks /\ Keeps(p, o, d, a)
<1> DEFINE r == [s EXCEPT !.drain = "none", !.request = "none", !.attempt = 1]
           n == [s EXCEPT !.request = "none"]
<1>1. /\ r \in Tab /\ r.queue = s.queue /\ r.request = "none" /\ r.read = s.read
      /\ r.superseded = s.superseded /\ r.seen = s.seen /\ r.marks = s.marks
  <2>1. 1 \in 1..2
      OBVIOUS
  <2>2. r = [[[s EXCEPT !.drain = "none"] EXCEPT !.request = "none"] EXCEPT !.attempt = 1]
      OBVIOUS
  <2> QED BY <2>1, <2>2 DEF Tab
<1>2. /\ n.queue = s.queue /\ n.read = s.read
      /\ n.superseded = s.superseded /\ n.seen = s.seen
    BY DEF Tab
<1>3. AfterDrain(s, ok) = IF ok THEN [Reading(r) EXCEPT !.again = r.read # "none"] ELSE r
    BY DEF AfterDrain
<1>4. Keeps(s, o, d, a) \/ Keeps(n, o, d, a)
    OBVIOUS
<1> HIDE DEF r, n
<1>5. Keeps(r, o, d, a)
    BY <1>1, <1>2, <1>4 DEF Keeps
<1>6. CASE ~ok
    BY <1>1, <1>3, <1>5, <1>6
<1>7. CASE ok
  <2> DEFINE g == Reading(r)
             p == [g EXCEPT !.again = r.read # "none"]
  <2>1. g \in Tab /\ g.queue = r.queue /\ g.marks = r.marks /\ Keeps(g, o, d, a)
      BY <1>1, <1>5, KeepsReading
  <2> HIDE DEF g
  <2>2. /\ p \in Tab /\ p.queue = g.queue /\ p.request = g.request /\ p.read = g.read
        /\ p.superseded = g.superseded /\ p.seen = g.seen /\ p.marks = g.marks
      BY <2>1 DEF Tab
  <2>3. AfterDrain(s, ok) = p
      BY <1>3, <1>7 DEF g
  <2> HIDE DEF p
  <2>4. Keeps(p, o, d, a)
      BY <2>1, <2>2 DEF Keeps
  <2> QED BY <1>1, <2>1, <2>2, <2>3, <2>4
<1> QED BY <1>6, <1>7

\* The end of a read.
LEMMA KeepsReadEnded ==
    ASSUME NEW s \in Tab, NEW o, NEW d, NEW a, Keeps(s, o, d, a)
    PROVE  LET p == ReadEnded(s)
           IN  p \in Tab /\ p.queue = s.queue /\ p.marks = s.marks /\ Keeps(p, o, d, a)
<1> DEFINE p == ReadEnded(s)
<1>1. /\ p \in Tab /\ p.queue = s.queue /\ p.request = s.request /\ p.read = "none"
      /\ p.superseded = FALSE /\ p.marks = s.marks
    BY DEF Tab, ReadEnded, NoMarks, Marks
<1> HIDE DEF p
<1>2. Keeps(p, o, d, a)
    BY <1>1 DEF Keeps
<1> QED BY <1>1, <1>2 DEF p

\* A new map on the screen.
LEMMA KeepsShown ==
    ASSUME NEW s \in Tab, NEW o, NEW d, NEW a, Keeps(s, o, d, a), NEW m \in Marks
    PROVE  LET p == [s EXCEPT !.marks = m]
           IN  p \in Tab /\ p.queue = s.queue /\ Keeps(p, o, d, a)
<1> DEFINE p == [s EXCEPT !.marks = m]
<1>1. /\ p \in Tab /\ p.queue = s.queue /\ p.request = s.request /\ p.read = s.read
      /\ p.superseded = s.superseded /\ p.seen = s.seen
    BY DEF Tab
<1> HIDE DEF p
<1>2. Keeps(p, o, d, a)
    BY <1>1 DEF Keeps
<1> QED BY <1>1, <1>2 DEF p

\* A page that has just loaded its queue o.
LEMMA KeepsLoaded ==
    ASSUME NEW b, saved[b] \in Marks, outbox[b] \in Queue, NEW d, NEW a,
           d \subseteq a \union Edits(outbox[b])
    PROVE  LET p == Loaded(b)
           IN  p \in Tab /\ p.queue = outbox[b] /\ Keeps(p, outbox[b], d, a)
<1> DEFINE p == Loaded(b)
<1>1. p \in Tab /\ p.queue = outbox[b] /\ p.request = "none" /\ p.read = "none"
    BY DEF Tab, Loaded, NoMarks, Marks
<1> HIDE DEF p
<1>2. Keeps(p, outbox[b], d, a)
    BY <1>1 DEF Keeps
<1> QED BY <1>1, <1>2 DEF p

-----------------------------------------------------------------------------
(* The steps of the system.                                                *)

\* A tab enqueues one more delta.
LEMMA KeepsAppended ==
    ASSUME NEW s \in Tab, NEW o, NEW d, NEW a, Keeps(s, o, d, a), NEW x \in Delta
    PROVE  LET p == [s EXCEPT !.queue = Append(@, x), !.superseded = s.read # "none"]
           IN  p \in Tab /\ p.queue = Append(s.queue, x) /\ p.marks = s.marks
               /\ Keeps(p, o, d, a)
<1> DEFINE p == [s EXCEPT !.queue = Append(@, x), !.superseded = s.read # "none"]
<1>1. s.queue \in Queue /\ Append(s.queue, x) \in Queue
    BY EditsFacts DEF Tab
<1>2. /\ p \in Tab /\ p.queue = Append(s.queue, x) /\ p.request = s.request /\ p.read = s.read
      /\ p.superseded = (s.read # "none") /\ p.seen = s.seen /\ p.marks = s.marks
    BY <1>1 DEF Tab
<1> HIDE DEF p
<1>3. Keeps(p, o, d, a)
    BY <1>1, <1>2, EditsFacts DEF Keeps
<1> QED BY <1>2, <1>3 DEF p

\* A step of one tab and of the server, other tabs having other browsers.
LEMMA OneTabMoves ==
    ASSUME OneTabPerBrowser, SyncInv, NEW t \in Tabs, NEW p \in Tab,
           NEW o \in Seq(Dated(edits')), NEW d \in SUBSET (1..edits'),
           tab' = [tab EXCEPT ![t] = p], p.queue \in Seq(Dated(edits')),
           outbox' = [outbox EXCEPT ![BrowserOf[t]] = o],
           durable' = [durable EXCEPT ![t] = d],
           Keeps(p, o, d, applied'),
           applied \subseteq applied', applied' \subseteq 1..edits',
           marks' \in Marks, saved' \in [Browsers -> Marks], late' \subseteq Dated(edits'),
           edits <= edits', edits' \in 0..MaxEdits, netFaults' \in 0..MaxNetFaults,
           storageFaults' \in 0..MaxStorageFaults, reloads' \in 0..MaxReloads
    PROVE  SyncInv'
<1> USE ConstantsAssumption
<1>1. /\ tab \in [Tabs -> Tab] /\ outbox \in [Browsers -> Seq(Dated(edits))]
      /\ durable \in [Tabs -> SUBSET (1..edits)] /\ edits \in Nat /\ edits' \in Nat
    BY DEF SyncInv, SyncTypes, TypeOK
<1>2. /\ Dated(edits) \subseteq Dated(edits') /\ Seq(Dated(edits)) \subseteq Seq(Dated(edits'))
      /\ Seq(Dated(edits')) \subseteq Queue /\ Dated(edits') \subseteq Delta
    BY <1>1, DatedGrows, DatedIsDelta
<1>3. \A u \in Tabs : BrowserOf[u] \in Browsers
    BY DEF Browsers
<1>4. tab' \in [Tabs -> Tab] /\ outbox' \in [Browsers -> Seq(Dated(edits'))]
    BY <1>1, <1>2
<1>5. durable' \in [Tabs -> SUBSET (1..edits')]
    BY <1>1
<1>6. outbox' \in [Browsers -> Queue]
    BY <1>2, <1>4
<1>7. \A u \in Tabs : tab'[u].queue \in Seq(Dated(edits'))
    BY <1>1, <1>2 DEF SyncInv, SyncTypes
<1>8. SyncTypes'
    BY <1>2, <1>4, <1>5, <1>6, <1>7 DEF SyncTypes, TypeOK
<1>9. ASSUME NEW u \in Tabs
      PROVE  Keeps(tab'[u], outbox'[BrowserOf[u]], durable'[u], applied')
  <2>1. CASE u = t
      BY <1>1, <1>3, <2>1
  <2>2. CASE u # t
    <3>1. BrowserOf[u] # BrowserOf[t]
        BY <2>2 DEF OneTabPerBrowser
    <3>2. /\ tab'[u] = tab[u] /\ durable'[u] = durable[u]
          /\ outbox'[BrowserOf[u]] = outbox[BrowserOf[u]]
        BY <1>1, <1>3, <2>2, <3>1
    <3>3. Keeps(tab[u], outbox[BrowserOf[u]], durable[u], applied)
        BY DEF SyncInv, KeepsAll
    <3> QED BY <3>2, <3>3, KeepsGrows
  <2> QED BY <2>1, <2>2
<1>10. KeepsAll'
    BY <1>9 DEF KeepsAll
<1> QED BY <1>8, <1>10 DEF SyncInv

\* The parts of a tab t that satisfies the invariant.
LEMMA TabFacts ==
    ASSUME SyncInv, NEW t \in Tabs
    PROVE  /\ tab \in [Tabs -> Tab] /\ tab[t] \in Tab /\ tab[t].queue \in Seq(Dated(edits))
           /\ tab[t].queue \in Queue
           /\ BrowserOf[t] \in Browsers /\ outbox[BrowserOf[t]] \in Seq(Dated(edits))
           /\ outbox[BrowserOf[t]] \in Queue /\ saved[BrowserOf[t]] \in Marks
           /\ outbox = [outbox EXCEPT ![BrowserOf[t]] = outbox[BrowserOf[t]]]
           /\ durable = [durable EXCEPT ![t] = durable[t]] /\ durable[t] \in SUBSET (1..edits)
           /\ Keeps(tab[t], outbox[BrowserOf[t]], durable[t], applied)
           /\ applied \subseteq 1..edits /\ marks \in Marks /\ saved \in [Browsers -> Marks]
           /\ late \subseteq Dated(edits) /\ edits \in Nat /\ edits \in 0..MaxEdits
           /\ netFaults \in 0..MaxNetFaults /\ storageFaults \in 0..MaxStorageFaults
           /\ reloads \in 0..MaxReloads
<1> USE ConstantsAssumption
<1>1. BrowserOf[t] \in Browsers
    BY DEF Browsers
<1>2. tab[t].queue \in Seq(Dated(edits)) /\ outbox \in [Browsers -> Seq(Dated(edits))]
    BY DEF SyncInv, SyncTypes
<1>3. /\ tab \in [Tabs -> Tab] /\ outbox \in [Browsers -> Queue] /\ saved \in [Browsers -> Marks]
      /\ durable \in [Tabs -> SUBSET (1..edits)] /\ edits \in Nat
    BY DEF SyncInv, SyncTypes, TypeOK
<1>4. Keeps(tab[t], outbox[BrowserOf[t]], durable[t], applied)
    BY DEF SyncInv, KeepsAll
<1>5. tab[t].queue \in Queue
    BY <1>2, <1>3, DatedIsDelta
<1>6. /\ outbox = [outbox EXCEPT ![BrowserOf[t]] = outbox[BrowserOf[t]]]
      /\ durable = [durable EXCEPT ![t] = durable[t]]
    BY <1>1, <1>3
<1>7. tab[t] \in Tab /\ saved[BrowserOf[t]] \in Marks /\ durable[t] \in SUBSET (1..edits)
    BY <1>1, <1>3
<1>8. outbox[BrowserOf[t]] \in Seq(Dated(edits)) /\ outbox[BrowserOf[t]] \in Queue
    BY <1>1, <1>2, <1>3
<1> QED BY <1>1, <1>2, <1>3, <1>4, <1>5, <1>6, <1>7, <1>8 DEF SyncInv, SyncTypes, TypeOK

\* What a save for the tab t leaves in the outbox and among the saved edits, those of the
\* first n: the tab p still keeps its edits.
Written(t, p, n, a) ==
    \E o \in Seq(Dated(n)), d \in SUBSET (1..n) :
        /\ outbox' = [outbox EXCEPT ![BrowserOf[t]] = o]
        /\ durable' = [durable EXCEPT ![t] = d]
        /\ Keeps(p, o, d, a)

\* persistQueues for the queue of a tab p.
LEMMA SaveFacts ==
    ASSUME SyncInv, NEW t \in Tabs, NEW n \in Nat, edits <= n, NEW p \in Tab, NEW ok \in BOOLEAN,
           NEW q, q = p.queue, q \in Seq(Dated(n)), Save(t, q, ok), NEW a,
           Keeps(p, outbox[BrowserOf[t]], durable[t], a)
    PROVE  storageFaults' \in 0..MaxStorageFaults /\ Written(t, p, n, a)
<1> USE ConstantsAssumption
<1>1. /\ outbox[BrowserOf[t]] \in Seq(Dated(edits)) /\ durable[t] \in SUBSET (1..edits)
      /\ outbox = [outbox EXCEPT ![BrowserOf[t]] = outbox[BrowserOf[t]]]
      /\ durable = [durable EXCEPT ![t] = durable[t]] /\ storageFaults \in 0..MaxStorageFaults
      /\ edits \in Nat /\ durable \in [Tabs -> SUBSET (1..edits)]
    BY TabFacts DEF SyncInv, SyncTypes, TypeOK
<1>2. storageFaults' \in 0..MaxStorageFaults
    BY <1>1 DEF Save
<1>3. CASE ok
  <2> DEFINE d == durable[t] \union Edits(p.queue)
  <2>1. Edits(p.queue) \subseteq 1..n
    <3>1. \A i \in DOMAIN p.queue : p.queue[i] \in Dated(n)
        BY ElementOfSeq, LenProperties
    <3> QED BY <3>1 DEF Edits, Dated
  <2>2. d \in SUBSET (1..n)
      BY <1>1, <2>1
  <2>3. /\ outbox' = [outbox EXCEPT ![BrowserOf[t]] = p.queue]
        /\ durable' = [durable EXCEPT ![t] = d]
      BY <1>1, <1>3 DEF Save
  <2>4. Keeps(p, p.queue, d, a)
      BY KeepsSaved
  <2> QED BY <1>2, <2>2, <2>3, <2>4 DEF Written
<1>4. CASE ~ok
  <2>1. outbox' = outbox /\ durable' = durable
      BY <1>4 DEF Save
  <2>2. outbox[BrowserOf[t]] \in Seq(Dated(n)) /\ durable[t] \in SUBSET (1..n)
      BY <1>1, DatedGrows
  <2> QED BY <1>1, <1>2, <1>4, <2>1, <2>2 DEF Written
<1> QED BY <1>3, <1>4

\* The same for a step that neither edits nor saves.
LEMMA OneTabAlone ==
    ASSUME OneTabPerBrowser, SyncInv, NEW t \in Tabs, NEW p \in Tab,
           tab' = [tab EXCEPT ![t] = p], p.queue \in Seq(Dated(edits)),
           UNCHANGED <<outbox, durable, edits>>,
           Keeps(p, outbox[BrowserOf[t]], durable[t], applied'),
           applied \subseteq applied', applied' \subseteq 1..edits,
           marks' \in Marks, saved' \in [Browsers -> Marks], late' \subseteq Dated(edits),
           netFaults' \in 0..MaxNetFaults,
           storageFaults' \in 0..MaxStorageFaults, reloads' \in 0..MaxReloads
    PROVE  SyncInv'
<1> DEFINE o == outbox[BrowserOf[t]]
           d == durable[t]
<1>1. /\ o \in Seq(Dated(edits')) /\ d \in SUBSET (1..edits') /\ edits' \in 0..MaxEdits
      /\ edits <= edits' /\ p.queue \in Seq(Dated(edits')) /\ applied' \subseteq 1..edits'
      /\ late' \subseteq Dated(edits')
    BY TabFacts
<1>2. outbox' = [outbox EXCEPT ![BrowserOf[t]] = o] /\ durable' = [durable EXCEPT ![t] = d]
    BY TabFacts
<1> HIDE DEF o, d
<1>3. Keeps(p, o, d, applied')
    BY DEF o, d
<1> QED BY <1>1, <1>2, <1>3, OneTabMoves

\* The head of a queue is a delta of an edit made so far.
LEMMA HeadDated ==
    ASSUME SyncInv, NEW t \in Tabs, tab[t].queue # <<>>
    PROVE  LET h == Head(tab[t].queue)
           IN  h \in Dated(edits) /\ h.key \in Keys /\ h.val \in Nat /\ h.edit \in 1..edits
<1>1. Head(tab[t].queue) \in Dated(edits)
    BY TabFacts, HeadTailProperties
<1> QED BY <1>1 DEF Dated

\* The server handles the request of a tab.
LEMMA HandleStep ==
    ASSUME OneTabPerBrowser, SyncInv, NEW t \in Tabs, Handle(t) PROVE SyncInv'
<1> USE ConstantsAssumption
<1> DEFINE s == tab[t]
           h == Head(s.queue)
<1>1. PICK out \in {"ok", "failed", "failedAfterRename"} :
        /\ IF out = "ok" THEN NoFault ELSE Fault
        /\ IF out = "failed" THEN UNCHANGED <<marks, applied>>
           ELSE marks' = Merge(marks, h) /\ applied' = applied \union {h.edit}
        /\ tab' = [tab EXCEPT ![t].request = IF out = "ok" THEN "ok" ELSE "failed"]
    BY DEF Handle
<1>2. s.request = "sent" /\ UNCHANGED <<outbox, saved, late, durable, edits, storageFaults, reloads>>
    BY DEF Handle
<1>3. s \in Tab /\ Keeps(s, outbox[BrowserOf[t]], durable[t], applied) /\ s.queue # <<>>
    BY <1>2, TabFacts DEF Keeps
<1>4. h.key \in Keys /\ h.val \in Nat /\ h.edit \in 1..edits
    BY <1>3, HeadDated
<1>5. Merge(marks, h) \in Marks
    BY <1>4, TabFacts, MergeTypes
<1>6. /\ marks' \in Marks /\ applied \subseteq applied' /\ applied' \subseteq 1..edits
      /\ out = "ok" => h.edit \in applied'
    BY <1>1, <1>4, <1>5, TabFacts
<1>7. netFaults' \in 0..MaxNetFaults
    BY <1>1, TabFacts DEF Fault, NoFault
<1> DEFINE p == [s EXCEPT !.request = IF out = "ok" THEN "ok" ELSE "failed"]
<1>8. /\ p \in Tab /\ p.queue = s.queue /\ p.read = s.read /\ p.superseded = s.superseded
      /\ p.seen = s.seen /\ (p.request = "ok" => out = "ok")
    BY <1>3 DEF Tab
<1>9. tab' = [tab EXCEPT ![t] = p]
    BY <1>1, TabFacts
<1>10. Keeps(s, outbox[BrowserOf[t]], durable[t], applied')
    BY <1>3, <1>6, KeepsGrows
<1>11. p.request = "ok" => Head(s.queue).edit \in applied'
    BY <1>6, <1>8
<1> HIDE DEF p, s
<1>12. Keeps(p, outbox[BrowserOf[t]], durable[t], applied')
    BY <1>3, <1>8, <1>10, <1>11 DEF Keeps
<1>13. p.queue \in Seq(Dated(edits))
    BY <1>8, TabFacts DEF s
<1> QED BY <1>2, <1>6, <1>7, <1>8, <1>9, <1>12, <1>13, TabFacts, OneTabAlone

\* A late request, a console elsewhere.
LEMMA ElsewhereStep ==
    ASSUME SyncInv,
           \/ \E d \in late : HandleLate(d)
           \/ \E k \in Keys : OtherConsole(k)
    PROVE  SyncInv'
<1> USE ConstantsAssumption
<1>0. /\ marks \in Marks /\ late \subseteq Dated(edits) /\ edits \in 0..MaxEdits /\ edits \in Nat
      /\ applied \subseteq 1..edits
    BY DEF SyncInv, SyncTypes, TypeOK
<1>1. /\ marks' \in Marks /\ late' \subseteq late /\ applied \subseteq applied'
      /\ applied' \subseteq 1..edits' /\ edits' \in 0..MaxEdits /\ edits <= edits' /\ edits' \in Nat
      /\ UNCHANGED <<tab, outbox, saved, durable, netFaults, storageFaults, reloads>>
  <2>1. ASSUME NEW d \in late, HandleLate(d)
        PROVE  /\ marks' \in Marks /\ late' \subseteq late /\ applied \subseteq applied'
               /\ applied' \subseteq 1..edits' /\ edits' = edits
               /\ UNCHANGED <<tab, outbox, saved, durable, netFaults, storageFaults, reloads>>
    <3>1. d.key \in Keys /\ d.val \in Nat /\ d.edit \in 1..edits
        BY <1>0 DEF Dated
    <3>2. Merge(marks, d) \in Marks
        BY <1>0, <3>1, MergeTypes
    <3> QED BY <1>0, <2>1, <3>1, <3>2 DEF HandleLate, counters
  <2>2. ASSUME NEW k \in Keys, OtherConsole(k)
        PROVE  /\ marks' \in Marks /\ late' = late /\ applied' = applied
               /\ edits' = edits + 1 /\ edits' \in 0..MaxEdits
               /\ UNCHANGED <<tab, outbox, saved, durable, netFaults, storageFaults, reloads>>
    <3>1. edits' = edits + 1 /\ edits' \in 0..MaxEdits
        BY <1>0, <2>2 DEF OtherConsole
    <3>2. PICK v \in {0, edits'} : marks' = Merge(marks, [key |-> k, val |-> v, edit |-> edits'])
        BY <2>2 DEF OtherConsole
    <3> DEFINE d == [key |-> k, val |-> v, edit |-> edits']
    <3>3. d.key \in Keys /\ d.val \in Nat
        BY <1>0, <3>1
    <3>4. marks' \in Marks
        BY <1>0, <3>2, <3>3, MergeTypes
    <3> QED BY <2>2, <3>1, <3>4 DEF OtherConsole
  <2>3. CASE \E d \in late : HandleLate(d)
      BY <1>0, <2>1, <2>3
  <2>4. CASE \E k \in Keys : OtherConsole(k)
    <3>1. /\ marks' \in Marks /\ late' = late /\ applied' = applied
          /\ edits' = edits + 1 /\ edits' \in 0..MaxEdits
          /\ UNCHANGED <<tab, outbox, saved, durable, netFaults, storageFaults, reloads>>
        BY <2>2, <2>4
    <3> QED BY <1>0, <3>1
  <2> QED BY <2>3, <2>4
<1>2. /\ Dated(edits) \subseteq Dated(edits') /\ Seq(Dated(edits)) \subseteq Seq(Dated(edits'))
      /\ Dated(edits') \subseteq Delta
    BY <1>0, <1>1, DatedGrows, DatedIsDelta
<1>3. /\ tab \in [Tabs -> Tab] /\ outbox \in [Browsers -> Queue] /\ saved \in [Browsers -> Marks]
      /\ durable \in [Tabs -> SUBSET (1..edits)] /\ outbox \in [Browsers -> Seq(Dated(edits))]
      /\ \A t \in Tabs : tab[t].queue \in Seq(Dated(edits))
      /\ netFaults \in 0..MaxNetFaults /\ storageFaults \in 0..MaxStorageFaults
      /\ reloads \in 0..MaxReloads
    BY DEF SyncInv, SyncTypes, TypeOK
<1>4. durable \in [Tabs -> SUBSET (1..edits')] /\ outbox \in [Browsers -> Seq(Dated(edits'))]
    BY <1>0, <1>1, <1>2, <1>3
<1>5. SyncTypes'
    BY <1>0, <1>1, <1>2, <1>3, <1>4 DEF SyncTypes, TypeOK
<1>6. KeepsAll'
    BY <1>1, KeepsGrows DEF SyncInv, KeepsAll
<1> QED BY <1>5, <1>6 DEF SyncInv

\* The server answers a read: what the tab has saved is merged when its queue is empty.
LEMMA AnswerReadStep ==
    ASSUME OneTabPerBrowser, SyncInv, NEW t \in Tabs, AnswerRead(t) PROVE SyncInv'
<1> USE ConstantsAssumption
<1> DEFINE s == tab[t]
           p == [s EXCEPT !.read = "answered", !.got = marks, !.seen = applied]
<1>1. /\ s.read = "sent" /\ tab' = [tab EXCEPT ![t] = p]
      /\ UNCHANGED <<marks, outbox, saved, late, applied, durable, counters>>
    BY TabFacts DEF AnswerRead
<1>2. /\ s \in Tab /\ Keeps(s, outbox[BrowserOf[t]], durable[t], applied)
      /\ applied \in SUBSET (1..MaxEdits) /\ marks \in Marks
    BY TabFacts
<1>3. /\ p \in Tab /\ p.queue = s.queue /\ p.request = s.request /\ p.read = "answered"
      /\ p.superseded = s.superseded /\ p.seen = applied
  <2>1. p = [[[s EXCEPT !.read = "answered"] EXCEPT !.got = marks] EXCEPT !.seen = applied]
      OBVIOUS
  <2> QED BY <1>2, <2>1 DEF Tab
<1> HIDE DEF p, s
<1>4. Keeps(p, outbox[BrowserOf[t]], durable[t], applied)
    BY <1>1, <1>2, <1>3, EditsFacts DEF Keeps
<1>5. p.queue \in Seq(Dated(edits))
    BY <1>3, TabFacts DEF s
<1> QED BY <1>1, <1>3, <1>4, <1>5, TabFacts, OneTabAlone DEF counters

\* An edit on the screen of a tab.
LEMMA EditStep ==
    ASSUME OneTabPerBrowser, SyncInv, NEW t \in Tabs, NEW k \in Keys, Edit(t, k) PROVE SyncInv'
<1> USE ConstantsAssumption
<1> DEFINE x == ackDelta(tab[t].marks, k)
           m == [tab[t].marks EXCEPT ![k] = x.val]
           s == [tab[t] EXCEPT !.marks = m]
           e == [s EXCEPT !.queue = Append(@, x), !.superseded = s.read # "none"]
           b == BrowserOf[t]
<1>1. /\ edits' = edits + 1 /\ edits' \in 0..MaxEdits /\ edits' \in Nat /\ edits <= edits'
      /\ enqueue(t, s, x) /\ saved' = [saved EXCEPT ![b] = m]
      /\ UNCHANGED <<marks, late, applied, netFaults, reloads>>
    BY TabFacts DEF Edit
<1>2. x \in Dated(edits') /\ x \in Delta /\ x.val \in Nat
  <2>1. /\ x.key = k /\ x.val \in {edits', 0} /\ x.edit = edits'
        /\ x = [key |-> k, val |-> x.val, edit |-> edits']
      BY DEF ackDelta
  <2> HIDE DEF x
  <2>2. x.val \in Nat /\ edits' \in 1..edits'
      BY <1>1, <2>1, TabFacts
  <2> QED BY <1>1, <2>1, <2>2 DEF Dated, Delta
<1>3. tab[t] \in Tab /\ tab[t].marks \in Marks
    BY TabFacts DEF Tab
<1>4. m \in Marks
    BY <1>2, <1>3 DEF Marks
<1>5. s \in Tab /\ s.queue = tab[t].queue /\ Keeps(s, outbox[b], durable[t], applied)
    BY <1>3, <1>4, TabFacts, KeepsShown
<1>6. saved' \in [Browsers -> Marks]
    BY <1>1, <1>4, TabFacts
<1>7. /\ Seq(Dated(edits)) \subseteq Seq(Dated(edits')) /\ Dated(edits) \subseteq Dated(edits')
      /\ s.queue \in Seq(Dated(edits')) /\ late' \subseteq Dated(edits')
      /\ outbox[b] \in Seq(Dated(edits')) /\ durable[t] \in SUBSET (1..edits')
      /\ applied' \subseteq 1..edits' /\ s.queue \in Queue
    BY <1>1, <1>5, TabFacts, DatedGrows
<1> HIDE DEF x, m, s
<1>8. CASE Len(s.queue) >= QueueLimit
  <2> DEFINE p == [s EXCEPT !.blocked = TRUE]
  <2>1. tab' = [tab EXCEPT ![t] = p] /\ UNCHANGED <<outbox, durable, storageFaults>>
      BY <1>1, <1>8 DEF enqueue
  <2>2. p \in Tab /\ p.queue = s.queue /\ Keeps(p, outbox[b], durable[t], applied)
      BY <1>5, KeepsBlocked
  <2> HIDE DEF p
  <2> QED BY <1>1, <1>6, <1>7, <2>1, <2>2, TabFacts, OneTabMoves
<1>9. CASE ~(Len(s.queue) >= QueueLimit)
  <2>1. PICK ok \in BOOLEAN :
          /\ Save(t, e.queue, ok)
          /\ tab' = [tab EXCEPT ![t] = IF ok THEN Drained(e, TRUE)
                                       ELSE [e EXCEPT !.blocked = TRUE]]
      BY <1>1, <1>9 DEF enqueue
  <2>2. /\ e \in Tab /\ e.queue = Append(s.queue, x) /\ Keeps(e, outbox[b], durable[t], applied)
      BY <1>2, <1>5, KeepsAppended
  <2>3. e.queue \in Seq(Dated(edits'))
      BY <1>2, <1>7, <2>2, AppendProperties
  <2> HIDE DEF e
  <2>4. /\ storageFaults' \in 0..MaxStorageFaults
        /\ \E o \in Seq(Dated(edits')), d \in SUBSET (1..edits') :
              /\ outbox' = [outbox EXCEPT ![b] = o] /\ durable' = [durable EXCEPT ![t] = d]
              /\ Keeps(e, o, d, applied)
    <3>1. PICK n \in Nat : n = edits'
        BY <1>1
    <3>2. e.queue \in Seq(Dated(n)) /\ edits <= n
        BY <1>1, <2>3, <3>1
    <3>3. Save(t, e.queue, ok) /\ Keeps(e, outbox[BrowserOf[t]], durable[t], applied)
        BY <2>1, <2>2
    <3>4. storageFaults' \in 0..MaxStorageFaults /\ Written(t, e, n, applied)
        BY <2>2, <3>2, <3>3, SaveFacts
    <3> QED BY <3>1, <3>4 DEF Written
  <2>5. PICK o \in Seq(Dated(edits')), d \in SUBSET (1..edits') :
              /\ outbox' = [outbox EXCEPT ![b] = o] /\ durable' = [durable EXCEPT ![t] = d]
              /\ Keeps(e, o, d, applied)
      BY <2>4
  <2> DEFINE p == IF ok THEN Drained(e, TRUE) ELSE [e EXCEPT !.blocked = TRUE]
  <2>6. p \in Tab /\ p.queue = e.queue /\ Keeps(p, o, d, applied)
      BY <2>2, <2>5, KeepsDrained, KeepsBlocked
  <2>7. tab' = [tab EXCEPT ![t] = p]
      BY <2>1
  <2> HIDE DEF p
  <2> QED BY <1>1, <1>6, <1>7, <2>3, <2>4, <2>5, <2>6, <2>7, TabFacts, OneTabMoves
<1> QED BY <1>8, <1>9

\* The timer, a click on Retry or the start of the page.
LEMMA RetryStep ==
    ASSUME OneTabPerBrowser, SyncInv, NEW t \in Tabs, Retry(t) PROVE SyncInv'
<1> DEFINE s == tab[t]
           b == BrowserOf[t]
<1>1. UNCHANGED <<marks, saved, late, applied, edits, netFaults, reloads>>
    BY DEF Retry
<1>2. s \in Tab /\ Keeps(s, outbox[b], durable[t], applied) /\ s.queue \in Seq(Dated(edits))
    BY TabFacts
<1>3. CASE s.queue # <<>> /\ s.drain = "none" /\ s.blocked
  <2>1. PICK ok \in BOOLEAN : Save(t, s.queue, ok) /\ tab' = [tab EXCEPT ![t] = Drained(s, ok)]
      BY <1>3 DEF Retry
  <2>2. edits \in Nat /\ edits <= edits
      BY TabFacts
  <2> HIDE DEF s
  <2>3. storageFaults' \in 0..MaxStorageFaults /\ Written(t, s, edits, applied)
      BY <1>2, <2>1, <2>2, SaveFacts
  <2>4. PICK o \in Seq(Dated(edits)), d \in SUBSET (1..edits) :
              /\ outbox' = [outbox EXCEPT ![BrowserOf[t]] = o]
              /\ durable' = [durable EXCEPT ![t] = d]
              /\ Keeps(s, o, d, applied)
      BY <2>3 DEF Written
  <2> DEFINE p == Drained(s, ok)
  <2>5. p \in Tab /\ p.queue = s.queue /\ Keeps(p, o, d, applied)
      BY <1>2, <2>4, KeepsDrained
  <2>6. tab' = [tab EXCEPT ![t] = p]
      BY <2>1
  <2> HIDE DEF p
  <2> QED BY <1>1, <1>2, <2>2, <2>3, <2>4, <2>5, <2>6, TabFacts, OneTabMoves
<1>4. CASE ~(s.queue # <<>> /\ s.drain = "none" /\ s.blocked)
  <2> DEFINE r == Drained(s, TRUE)
             p == Reading(r)
  <2>1. tab' = [tab EXCEPT ![t] = p] /\ UNCHANGED <<outbox, durable, storageFaults>>
      BY <1>4 DEF Retry
  <2>2. r \in Tab /\ r.queue = s.queue /\ Keeps(r, outbox[b], durable[t], applied)
      BY <1>2, KeepsDrained
  <2> HIDE DEF r
  <2>3. p \in Tab /\ p.queue = s.queue /\ Keeps(p, outbox[b], durable[t], applied)
      BY <2>2, KeepsReading
  <2>4. p.queue \in Seq(Dated(edits))
      BY <1>2, <2>3
  <2> HIDE DEF p
  <2> QED BY <1>1, <2>1, <2>3, <2>4, TabFacts, OneTabAlone
<1> QED BY <1>3, <1>4

\* The PUT was accepted: the head, which the server has merged, leaves the queue.
LEMMA PushAcceptedStep ==
    ASSUME OneTabPerBrowser, SyncInv, NEW t \in Tabs, PushAccepted(t) PROVE SyncInv'
<1> DEFINE s == tab[t]
           b == BrowserOf[t]
           rest == [s EXCEPT !.queue = Tail(@)]
           n == [rest EXCEPT !.request = "none"]
<1>1. s.request = "ok" /\ UNCHANGED <<marks, saved, late, applied, edits, netFaults, reloads>>
    BY DEF PushAccepted
<1>2. PICK ok \in BOOLEAN :
        /\ Save(t, rest.queue, ok)
        /\ tab' = [tab EXCEPT ![t] = IF ~ok THEN AfterDrain([s EXCEPT !.blocked = TRUE], FALSE)
                                     ELSE IF rest.queue # <<>> THEN Pushing(rest)
                                     ELSE AfterDrain(rest, TRUE)]
    BY DEF PushAccepted
<1>3. /\ s \in Tab /\ Keeps(s, outbox[b], durable[t], applied) /\ s.queue \in Seq(Dated(edits))
      /\ s.queue \in Queue /\ edits \in Nat /\ edits <= edits
    BY TabFacts
<1>4. s.queue # <<>> /\ Head(s.queue).edit \in applied /\ (s.read # "none" => s.superseded)
    BY <1>1, <1>3 DEF Keeps
<1>5. /\ Tail(s.queue) \in Queue /\ Tail(s.queue) \in Seq(Dated(edits))
      /\ Edits(s.queue) \subseteq applied \union Edits(Tail(s.queue))
    BY <1>3, <1>4, EditsFacts, HeadTailProperties
<1>6. /\ rest \in Tab /\ rest.queue = Tail(s.queue) /\ rest.read = s.read
      /\ rest.superseded = s.superseded /\ rest.request = s.request
    BY <1>3, <1>5 DEF Tab
<1>7. /\ n \in Tab /\ n.queue = Tail(s.queue) /\ n.read = s.read
      /\ n.superseded = s.superseded /\ n.request = "none"
    BY <1>3, <1>5 DEF Tab
<1>8. Pushing(rest) = Pushing(n)
    BY <1>3 DEF Pushing, Tab
<1>9. ASSUME NEW p \in Tab, p.queue \in Seq(Dated(edits)), storageFaults' \in 0..MaxStorageFaults,
             NEW o \in Seq(Dated(edits)), NEW d \in SUBSET (1..edits),
             outbox' = [outbox EXCEPT ![b] = o], durable' = [durable EXCEPT ![t] = d],
             Keeps(p, o, d, applied), tab' = [tab EXCEPT ![t] = p]
      PROVE  SyncInv'
  <2>1. /\ edits' \in 0..MaxEdits /\ edits <= edits' /\ o \in Seq(Dated(edits'))
        /\ d \in SUBSET (1..edits') /\ p.queue \in Seq(Dated(edits'))
        /\ applied \subseteq applied' /\ applied' \subseteq 1..edits'
        /\ Keeps(p, o, d, applied') /\ late' \subseteq Dated(edits') /\ marks' \in Marks
        /\ saved' \in [Browsers -> Marks] /\ netFaults' \in 0..MaxNetFaults
        /\ reloads' \in 0..MaxReloads
      BY <1>1, <1>3, <1>9, TabFacts
  <2> QED BY <1>9, <2>1, OneTabMoves
<1> HIDE DEF s, rest, n
<1>10. Keeps(n, outbox[b], durable[t], applied)
    BY <1>3, <1>4, <1>5, <1>7 DEF Keeps
<1>11. storageFaults' \in 0..MaxStorageFaults /\ Written(t, n, edits, applied)
    BY <1>2, <1>3, <1>5, <1>6, <1>7, <1>10, SaveFacts
<1>12. CASE ~ok
  <2> DEFINE q == [s EXCEPT !.blocked = TRUE]
             p == AfterDrain(q, FALSE)
  <2>1. tab' = [tab EXCEPT ![t] = p]
      BY <1>2, <1>12
  <2>2. outbox' = outbox /\ durable' = durable
      BY <1>2, <1>12 DEF Save
  <2>3. q \in Tab /\ q.queue = s.queue /\ Keeps(q, outbox[b], durable[t], applied)
      BY <1>3, KeepsBlocked
  <2> HIDE DEF q
  <2>4. p \in Tab /\ p.queue = q.queue /\ Keeps(p, outbox[b], durable[t], applied)
      BY <2>3, KeepsAfterDrain
  <2>5. p.queue \in Seq(Dated(edits))
      BY <1>3, <2>3, <2>4
  <2> HIDE DEF p
  <2> QED BY <1>1, <1>11, <2>1, <2>2, <2>4, <2>5, TabFacts, OneTabAlone
<1>13. CASE ok
  <2>1. PICK o \in Seq(Dated(edits)), d \in SUBSET (1..edits) :
              /\ outbox' = [outbox EXCEPT ![BrowserOf[t]] = o]
              /\ durable' = [durable EXCEPT ![t] = d]
              /\ Keeps(n, o, d, applied)
      BY <1>11 DEF Written
  <2>2. CASE rest.queue # <<>>
    <3> DEFINE p == Pushing(n)
    <3>1. tab' = [tab EXCEPT ![t] = p]
        BY <1>2, <1>8, <1>13, <2>2
    <3>2. p \in Tab /\ p.queue = n.queue /\ Keeps(p, o, d, applied)
        BY <1>6, <1>7, <2>1, <2>2, KeepsPushing
    <3> HIDE DEF p
    <3> QED BY <1>5, <1>7, <1>9, <1>11, <2>1, <3>1, <3>2
  <2>3. CASE rest.queue = <<>>
    <3> DEFINE p == AfterDrain(rest, TRUE)
    <3>1. tab' = [tab EXCEPT ![t] = p]
        BY <1>2, <1>13, <2>3
    <3>2. Keeps([rest EXCEPT !.request = "none"], o, d, applied)
        BY <2>1 DEF n
    <3>3. p \in Tab /\ p.queue = rest.queue /\ Keeps(p, o, d, applied)
        BY <1>6, <3>2, KeepsAfterDrain
    <3> HIDE DEF p
    <3> QED BY <1>5, <1>6, <1>9, <1>11, <2>1, <3>1, <3>3
  <2> QED BY <2>2, <2>3
<1> QED BY <1>12, <1>13

\* The PUT failed.
LEMMA PushFailedStep ==
    ASSUME OneTabPerBrowser, SyncInv, NEW t \in Tabs, PushFailed(t) PROVE SyncInv'
<1> USE ConstantsAssumption
<1> DEFINE s == tab[t]
           r == [s EXCEPT !.request = "sent", !.attempt = 2]
           p == IF s.attempt = 1 THEN r ELSE AfterDrain(s, FALSE)
           b == BrowserOf[t]
<1>1. /\ s.request # "none"
      /\ IF s.request = "failed" THEN NoFault ELSE Fault
      /\ late' \in {late} \union (IF s.request = "sent" THEN {late \union {Head(s.queue)}} ELSE {})
      /\ tab' = [tab EXCEPT ![t] = p]
      /\ UNCHANGED <<marks, outbox, saved, applied, durable, edits, storageFaults, reloads>>
    BY DEF PushFailed
<1>2. /\ s \in Tab /\ Keeps(s, outbox[b], durable[t], applied) /\ s.queue \in Seq(Dated(edits))
      /\ s.queue # <<>>
    BY <1>1, TabFacts DEF Keeps
<1>3. netFaults' \in 0..MaxNetFaults
    BY <1>1, TabFacts DEF Fault, NoFault
<1>4. late' \subseteq Dated(edits)
    BY <1>1, <1>2, TabFacts, HeadDated
<1>5. /\ r \in Tab /\ r.queue = s.queue /\ r.request = "sent" /\ r.read = s.read
      /\ r.superseded = s.superseded /\ r.seen = s.seen
  <2>1. 2 \in 1..2
      OBVIOUS
  <2>2. r = [[s EXCEPT !.request = "sent"] EXCEPT !.attempt = 2]
      OBVIOUS
  <2> QED BY <1>2, <2>1, <2>2 DEF Tab
<1> HIDE DEF s, r
<1>6. Keeps(r, outbox[b], durable[t], applied)
    BY <1>2, <1>5 DEF Keeps
<1>7. p \in Tab /\ p.queue = s.queue /\ Keeps(p, outbox[b], durable[t], applied)
    BY <1>2, <1>5, <1>6, KeepsAfterDrain
<1> HIDE DEF p
<1>8. p.queue \in Seq(Dated(edits))
    BY <1>2, <1>7
<1> QED BY <1>1, <1>3, <1>4, <1>7, <1>8, TabFacts, OneTabAlone

\* The answer of a read, or its failure.
LEMMA ReadStep ==
    ASSUME OneTabPerBrowser, SyncInv, NEW t \in Tabs, ReadArrives(t) \/ ReadFails(t) PROVE SyncInv'
<1> USE ConstantsAssumption
<1> DEFINE s == tab[t]
           b == BrowserOf[t]
           ended == ReadEnded(s)
           shown == [ended EXCEPT !.marks = s.got]
<1>1. /\ s \in Tab /\ Keeps(s, outbox[b], durable[t], applied) /\ s.queue \in Seq(Dated(edits))
      /\ s.got \in Marks
    BY TabFacts DEF Tab
<1>2. ended \in Tab /\ ended.queue = s.queue /\ Keeps(ended, outbox[b], durable[t], applied)
    BY <1>1, KeepsReadEnded
<1>3. \E p \in {shown, ended, Reading(ended)} : tab' = [tab EXCEPT ![t] = p]
    BY DEF ReadArrives, ReadFails
<1>4. /\ netFaults' \in 0..MaxNetFaults /\ saved' \in [Browsers -> Marks]
      /\ UNCHANGED <<marks, outbox, late, applied, durable, edits, storageFaults, reloads>>
  <2>1. CASE ReadArrives(t)
      BY <1>1, <2>1, TabFacts DEF ReadArrives, counters
  <2>2. CASE ReadFails(t)
      BY <2>2, TabFacts DEF ReadFails, Fault
  <2> QED BY <2>1, <2>2
<1> HIDE DEF s, ended
<1>5. PICK p \in {shown, ended, Reading(ended)} : tab' = [tab EXCEPT ![t] = p]
    BY <1>3
<1>6. p \in Tab /\ p.queue = s.queue /\ Keeps(p, outbox[b], durable[t], applied)
  <2>1. CASE p = shown
      BY <1>1, <1>2, <2>1, KeepsShown
  <2>2. CASE p = ended
      BY <1>2, <2>2
  <2>3. CASE p = Reading(ended)
      BY <1>2, <2>3, KeepsReading
  <2> QED BY <1>5, <2>1, <2>2, <2>3
<1>7. p.queue \in Seq(Dated(edits))
    BY <1>1, <1>6
<1> QED BY <1>4, <1>5, <1>6, <1>7, TabFacts, OneTabAlone

\* The page is reloaded.
LEMMA ReloadStep ==
    ASSUME OneTabPerBrowser, SyncInv, NEW t \in Tabs, Reload(t) PROVE SyncInv'
<1> USE ConstantsAssumption
<1> DEFINE s == tab[t]
           b == BrowserOf[t]
           p == Loaded(b)
<1>1. /\ tab' = [tab EXCEPT ![t] = p]
      /\ late' \in {late} \union (IF s.request = "sent" THEN {late \union {Head(s.queue)}} ELSE {})
      /\ UNCHANGED <<marks, outbox, saved, applied, durable, edits, netFaults, storageFaults>>
    BY DEF Reload
<1>2. reloads' \in 0..MaxReloads
    BY TabFacts DEF Reload
<1>3. /\ durable[t] \subseteq applied \union Edits(outbox[b])
      /\ s.request = "sent" => s.queue # <<>>
    BY TabFacts DEF Keeps
<1>4. late' \subseteq Dated(edits)
    BY <1>1, <1>3, TabFacts, HeadDated
<1>5. p \in Tab /\ p.queue = outbox[b] /\ Keeps(p, outbox[b], durable[t], applied)
    BY <1>3, TabFacts, KeepsLoaded
<1> HIDE DEF p
<1>6. p.queue \in Seq(Dated(edits))
    BY <1>5, TabFacts
<1> QED BY <1>1, <1>2, <1>4, <1>5, <1>6, TabFacts, OneTabAlone

-----------------------------------------------------------------------------
(* The theorems.                                                           *)

\* The initial state satisfies the invariant.
LEMMA SyncStart == Init => SyncInv
<1> SUFFICES ASSUME Init PROVE SyncInv
    OBVIOUS
<1> USE ConstantsAssumption DEF Init
<1>1. NoMarks \in Marks /\ edits \in Nat
    BY DEF NoMarks, Marks
<1>2. \A q : <<>> \in Seq(q)
    OBVIOUS
<1>3. /\ outbox \in [Browsers -> Seq(Dated(edits))] /\ outbox \in [Browsers -> Queue]
      /\ saved \in [Browsers -> Marks]
    BY <1>1, <1>2 DEF Queue
<1>4. ASSUME NEW t \in Tabs
      PROVE  /\ tab[t] \in Tab /\ tab[t].queue \in Seq(Dated(edits))
             /\ Keeps(tab[t], outbox[BrowserOf[t]], durable[t], applied)
  <2>1. BrowserOf[t] \in Browsers /\ durable[t] = {} /\ tab[t] = Loaded(BrowserOf[t])
      BY DEF Browsers
  <2>2. /\ saved[BrowserOf[t]] \in Marks /\ outbox[BrowserOf[t]] \in Queue
        /\ outbox[BrowserOf[t]] \in Seq(Dated(edits))
      BY <1>3, <2>1
  <2>3. {} \subseteq applied \union Edits(outbox[BrowserOf[t]])
      OBVIOUS
  <2> QED BY <2>1, <2>2, <2>3, KeepsLoaded
<1>5. tab \in [Tabs -> Tab]
    BY <1>4
<1>6. SyncTypes
    BY <1>1, <1>3, <1>4, <1>5 DEF SyncTypes, TypeOK
<1> QED BY <1>4, <1>6 DEF SyncInv, KeepsAll

\* Every step keeps it.
LEMMA SyncStep ==
    ASSUME OneTabPerBrowser, SyncInv, [Next]_vars PROVE SyncInv'
<1>1. CASE Next
  <2>1. CASE \E t \in Tabs : Handle(t) \/ AnswerRead(t)
      BY <2>1, HandleStep, AnswerReadStep
  <2>2. CASE (\E d \in late : HandleLate(d)) \/ \E k \in Keys : OtherConsole(k)
      BY <2>2, ElsewhereStep
  <2>3. CASE \E t \in Tabs, k \in Keys : Edit(t, k)
      BY <2>3, EditStep
  <2>4. CASE \E t \in Tabs : Retry(t) \/ PushAccepted(t) \/ PushFailed(t)
      BY <2>4, RetryStep, PushAcceptedStep, PushFailedStep
  <2>5. CASE \E t \in Tabs : ReadArrives(t) \/ ReadFails(t) \/ Reload(t)
      BY <2>5, ReadStep, ReloadStep
  <2> QED BY <1>1, <2>1, <2>2, <2>3, <2>4, <2>5 DEF Next, Server
<1>2. CASE UNCHANGED vars
    BY <1>2 DEF vars, counters, SyncInv, SyncTypes, TypeOK, KeepsAll, Keeps
<1> QED BY <1>1, <1>2

\* The inductive invariant of the synchroniser.
THEOREM SyncInvariant == OneTabPerBrowser => (Spec => []SyncInv)
<1> SUFFICES ASSUME OneTabPerBrowser PROVE Spec => []SyncInv
    OBVIOUS
<1>1. SyncInv /\ [Next]_vars => SyncInv'
    BY SyncStep
<1> QED BY <1>1, SyncStart, PTL DEF Spec

\* shared_sync.js: an edit saved in the outbox of a browser with one console reaches the
\* server or stays in the outbox, whatever fails.
THEOREM SavedEditsSurvive == OneTabPerBrowser => (Spec => []NoEditLost)
<1> SUFFICES ASSUME OneTabPerBrowser PROVE Spec => []NoEditLost
    OBVIOUS
<1>1. SyncInv => NoEditLost
    BY DEF SyncInv, KeepsAll, Keeps, NoEditLost
<1>2. Spec => []SyncInv
    BY SyncInvariant
<1> QED BY <1>1, <1>2, PTL

\* Neither the PUTs nor what follows them touch the map on the screen.
LEMMA MarksStay ==
    ASSUME NEW s \in Tab, NEW ok \in BOOLEAN
    PROVE  /\ AfterDrain(s, ok) \in Tab /\ AfterDrain(s, ok).marks = s.marks
           /\ Pushing(s) \in Tab /\ Pushing(s).marks = s.marks
<1>0. 1 \in 1..2
    OBVIOUS
<1>1. ASSUME NEW r \in Tab PROVE Reading(r) \in Tab /\ Reading(r).marks = r.marks
    BY DEF Reading, Tab
<1> DEFINE r == [[[s EXCEPT !.drain = "none"] EXCEPT !.request = "none"] EXCEPT !.attempt = 1]
           g == Reading(r)
           p == [[[s EXCEPT !.drain = "live"] EXCEPT !.request = "sent"] EXCEPT !.attempt = 1]
<1>2. r \in Tab /\ r.marks = s.marks /\ p \in Tab /\ p.marks = s.marks
    BY <1>0 DEF Tab
<1>3. Pushing(s) = p /\ AfterDrain(s, ok) = IF ok THEN [g EXCEPT !.again = r.read # "none"] ELSE r
    BY DEF Pushing, AfterDrain
<1>4. g \in Tab /\ g.marks = r.marks
    BY <1>1, <1>2
<1> HIDE DEF r, g, p
<1>5. [g EXCEPT !.again = r.read # "none"] \in Tab /\ [g EXCEPT !.again = r.read # "none"].marks = g.marks
    BY <1>4 DEF Tab
<1> QED BY <1>2, <1>3, <1>4, <1>5

\* A step that neither edits nor reloads changes the map on a screen only when it takes
\* up an answer that no edit has overtaken.
LEMMA ScreensChange ==
    ASSUME SyncInv, NEW u \in Tabs, Next, <<edits, reloads>>' = <<edits, reloads>>,
           tab'[u].marks # tab[u].marks
    PROVE  tab[u].read = "answered" /\ tab[u].queue = <<>> /\ ~tab[u].superseded
<1> USE ConstantsAssumption
<1>0. tab \in [Tabs -> Tab] /\ edits \in Nat /\ reloads \in Nat
    BY DEF SyncInv, SyncTypes, TypeOK
<1>1. ~(\E t \in Tabs, k \in Keys : Edit(t, k)) /\ ~(\E t \in Tabs : Reload(t))
  <2>1. edits' # edits + 1 /\ reloads' # reloads + 1
      BY <1>0
  <2>2. ASSUME NEW t \in Tabs, NEW k \in Keys, Edit(t, k) PROVE edits' = edits + 1
      BY <2>2 DEF Edit
  <2>3. ASSUME NEW t \in Tabs, Reload(t) PROVE reloads' = reloads + 1
      BY <2>3 DEF Reload
  <2> QED BY <2>1, <2>2, <2>3
<1>2. ASSUME NEW p \in Tab, NEW t \in Tabs, tab' = [tab EXCEPT ![t] = p], p.marks = tab[t].marks
      PROVE  FALSE
    BY <1>0, <1>2
<1>3. tab' # tab
    OBVIOUS
<1>4. ASSUME NEW t \in Tabs
      PROVE  /\ tab[t] \in Tab /\ Keeps(tab[t], outbox[BrowserOf[t]], durable[t], applied)
             /\ tab[t].queue \in Queue /\ marks \in Marks /\ applied \in SUBSET (1..MaxEdits)
    BY TabFacts
<1>5. ASSUME NEW t \in Tabs, Handle(t) PROVE FALSE
  <2>1. PICK r \in {"ok", "failed"} : tab' = [tab EXCEPT ![t].request = r]
      BY <1>5 DEF Handle
  <2> DEFINE p == [tab[t] EXCEPT !.request = r]
  <2>2. p \in Tab /\ p.marks = tab[t].marks /\ tab' = [tab EXCEPT ![t] = p]
      BY <1>0, <2>1 DEF Tab
  <2> QED BY <1>2, <2>2
<1>6. ASSUME NEW t \in Tabs, AnswerRead(t) PROVE FALSE
  <2> DEFINE p == [[[tab[t] EXCEPT !.read = "answered"] EXCEPT !.got = marks] EXCEPT !.seen = applied]
  <2>1. tab' = [tab EXCEPT ![t] = p]
      BY <1>6 DEF AnswerRead
  <2>2. p \in Tab /\ p.marks = tab[t].marks
      BY <1>4 DEF Tab
  <2> QED BY <1>2, <2>1, <2>2
<1>7. ~(\E d \in late : HandleLate(d)) /\ ~(\E k \in Keys : OtherConsole(k))
    BY <1>3 DEF HandleLate, OtherConsole
<1>8. ASSUME NEW t \in Tabs, Retry(t) PROVE FALSE
  <2> DEFINE r == Drained(tab[t], TRUE)
  <2>1. \/ \E ok \in BOOLEAN : tab' = [tab EXCEPT ![t] = Drained(tab[t], ok)]
        \/ tab' = [tab EXCEPT ![t] = Reading(r)]
      BY <1>8 DEF Retry
  <2>2. ASSUME NEW ok \in BOOLEAN
        PROVE  Drained(tab[t], ok) \in Tab /\ Drained(tab[t], ok).marks = tab[t].marks
      BY <1>4, KeepsDrained
  <2>3. r \in Tab /\ r.marks = tab[t].marks /\ Keeps(r, outbox[BrowserOf[t]], durable[t], applied)
      BY <1>4, KeepsDrained
  <2> HIDE DEF r
  <2>4. Reading(r) \in Tab /\ Reading(r).marks = tab[t].marks
      BY <2>3, KeepsReading
  <2> QED BY <1>2, <2>1, <2>2, <2>4
<1>9. ASSUME NEW t \in Tabs, PushAccepted(t) PROVE FALSE
  <2> DEFINE s == tab[t]
             rest == [s EXCEPT !.queue = Tail(@)]
             q == [s EXCEPT !.blocked = TRUE]
  <2>1. \E p \in {AfterDrain(q, FALSE), Pushing(rest), AfterDrain(rest, TRUE)} :
            tab' = [tab EXCEPT ![t] = p]
      BY <1>9 DEF PushAccepted
  <2>2. s.request = "ok" /\ s \in Tab /\ Keeps(s, outbox[BrowserOf[t]], durable[t], applied)
        /\ Tail(s.queue) \in Queue
      BY <1>4, <1>9, EditsFacts DEF PushAccepted, Keeps
  <2>3. rest \in Tab /\ rest.marks = s.marks /\ q \in Tab /\ q.marks = s.marks
      BY <2>2 DEF Tab
  <2> HIDE DEF s, rest, q
  <2>4. ASSUME NEW r \in Tab, r.marks = s.marks, NEW ok \in BOOLEAN
        PROVE  /\ AfterDrain(r, ok) \in Tab /\ AfterDrain(r, ok).marks = s.marks
               /\ Pushing(r) \in Tab /\ Pushing(r).marks = s.marks
      BY <2>4, MarksStay
  <2> QED BY <1>2, <2>1, <2>3, <2>4 DEF s
<1>10. ASSUME NEW t \in Tabs, PushFailed(t) PROVE FALSE
  <2> DEFINE s == tab[t]
             r == [[s EXCEPT !.request = "sent"] EXCEPT !.attempt = 2]
  <2>1. \E p \in {AfterDrain(s, FALSE), r} : tab' = [tab EXCEPT ![t] = p]
      BY <1>10 DEF PushFailed
  <2>2. 2 \in 1..2
      OBVIOUS
  <2>3. s \in Tab /\ r \in Tab /\ r.marks = s.marks
      BY <1>4, <2>2 DEF Tab
  <2>4. AfterDrain(s, FALSE) \in Tab /\ AfterDrain(s, FALSE).marks = s.marks
      BY <2>3, MarksStay
  <2> QED BY <1>2, <2>1, <2>3, <2>4
<1>11. ASSUME NEW t \in Tabs, ReadFails(t) \/ (ReadArrives(t) /\ Overtaken(tab[t])) PROVE FALSE
  <2> DEFINE e == ReadEnded(tab[t])
  <2>1. \E p \in {e, Reading(e)} : tab' = [tab EXCEPT ![t] = p]
      BY <1>11 DEF ReadFails, ReadArrives
  <2>2. e \in Tab /\ e.marks = tab[t].marks /\ Keeps(e, outbox[BrowserOf[t]], durable[t], applied)
      BY <1>4, KeepsReadEnded
  <2> HIDE DEF e
  <2>3. Reading(e) \in Tab /\ Reading(e).marks = tab[t].marks
      BY <2>2, KeepsReading
  <2> QED BY <1>2, <2>1, <2>2, <2>3
<1>12. PICK t \in Tabs : ReadArrives(t) /\ ~Overtaken(tab[t])
    BY <1>1, <1>5, <1>6, <1>7, <1>8, <1>9, <1>10, <1>11 DEF Next, Server
<1>13. t = u
  <2>1. \A v \in Tabs : v # t => tab'[v] = tab[v]
      BY <1>0, <1>12 DEF ReadArrives
  <2> QED BY <2>1
<1> QED BY <1>12, <1>13 DEF ReadArrives, Overtaken, pending

\* shared_sync.js: in a browser with one console, the map on the screen is replaced only
\* by one the server gave after it had merged every edit of that screen.
THEOREM AnswersIncludeEdits == OneTabPerBrowser => (Spec => ReadYourWrites)
<1> SUFFICES ASSUME OneTabPerBrowser PROVE Spec => ReadYourWrites
    OBVIOUS
<1> DEFINE Good == \A t \in Tabs : tab'[t].marks # tab[t].marks
                                   /\ <<edits, reloads>>' = <<edits, reloads>>
                     => durable[t] \union Edits(tab[t].queue) \subseteq tab[t].seen
<1>1. ASSUME SyncInv, Next PROVE Good
  <2> SUFFICES ASSUME NEW t \in Tabs, tab'[t].marks # tab[t].marks,
                      <<edits, reloads>>' = <<edits, reloads>>
               PROVE  durable[t] \union Edits(tab[t].queue) \subseteq tab[t].seen
      OBVIOUS
  <2>1. tab[t].read = "answered" /\ tab[t].queue = <<>> /\ ~tab[t].superseded
      BY <1>1, ScreensChange
  <2>2. durable[t] \subseteq tab[t].seen
      BY <1>1, <2>1 DEF SyncInv, KeepsAll, Keeps
  <2> QED BY <2>1, <2>2, EditsFacts
<1>2. SyncInv /\ [Next]_vars => [Good]_vars
    BY <1>1
<1>3. Spec => []SyncInv
    BY SyncInvariant
<1>4. Spec => [][Next]_vars
    BY DEF Spec
<1>5. Spec => [][Good]_vars
    BY <1>2, <1>3, <1>4, PTL
<1> QED BY <1>5 DEF ReadYourWrites

=============================================================================
