----------------------------- MODULE SharedSync -----------------------------
(***************************************************************************)
(* The operators' shared marks: acknowledgements, maintenance windows and  *)
(* notes.  The server keeps one map in a state file (webfront/state.go);   *)
(* each console tab shows a copy, sends its edits as deltas through a      *)
(* durable queue (web/js/util/shared_sync.js) and replaces its copy by the *)
(* server's from time to time.  The three maps are alike and independent;  *)
(* the model has one.                                                      *)
(*                                                                         *)
(* An edit has a number, which stands for its time stamp.  A tab runs to   *)
(* completion between two awaits, so an action of a tab is the code from   *)
(* one await to the next.                                                  *)
(***************************************************************************)
EXTENDS Integers, FiniteSets, Sequences

CONSTANTS
    Keys,             \* alerts or devices that can be marked
    Tabs,             \* open consoles whose coordinator is modelled
    BrowserOf,        \* the browser, that is the localStorage, of a tab
    Cap,              \* maxKeys of the state file
    QueueLimit,       \* OUTBOX_MAX_ITEMS_PER_KIND
    MaxEdits,         \* bound on edits
    MaxNetFaults,     \* bound on failed requests and server writes
    MaxStorageFaults, \* bound on failed writes to localStorage
    MaxReloads        \* bound on reloads of a tab

Browsers == {BrowserOf[t] : t \in Tabs}

\* The mark of a key: the number of the edit that set it, 0 for none.
Marks == [Keys -> Nat]
NoMarks == [k \in Keys |-> 0]

Delta == [key : Keys, val : Nat, edit : Nat]

ASSUME ConstantsAssumption ==
    /\ BrowserOf \in [Tabs -> Browsers]
    /\ Cap \in Nat \ {0} /\ QueueLimit \in Nat \ {0}
    /\ MaxEdits \in Nat /\ MaxNetFaults \in Nat
    /\ MaxStorageFaults \in Nat /\ MaxReloads \in Nat

VARIABLES
    marks,      \* the server's state file
    tab,        \* the coordinator of each tab and the map on its screen
    outbox,     \* localStorage of a browser: the saved queue
    saved,      \* and the saved map
    late,       \* deltas the client gave up on that may still reach the server
    applied,    \* ghost: the edits the server has merged
    durable,    \* ghost: the edits of a tab that were saved in the outbox
    edits, netFaults, storageFaults, reloads

counters == <<edits, netFaults, storageFaults, reloads>>
vars == <<marks, tab, outbox, saved, late, applied, durable, counters>>

Queue == Seq(Delta)

\* drain: slot.drainPromise, "stale" when it has resolved and was not reset.
\* request: the PUT for the head of the queue, attempt: which of the two it is.
\* read: the GET and what the server had when it answered; superseded: an edit was made
\* since; again: a drain waits for it.
Tab == [marks : Marks, queue : Queue, drain : {"none", "live", "stale"},
        request : {"none", "sent", "ok", "failed"}, attempt : 1..2, blocked : BOOLEAN,
        read : {"none", "sent", "answered"}, got : Marks, seen : SUBSET (1..MaxEdits),
        superseded : BOOLEAN, again : BOOLEAN]

\* createSharedSyncCoordinator after a load of the page: the queue and the map are those
\* of localStorage.  boot then calls retryAll.
Loaded(b) ==
    [marks |-> saved[b], queue |-> outbox[b], drain |-> "none", request |-> "none",
     attempt |-> 1, blocked |-> FALSE, read |-> "none", got |-> NoMarks, seen |-> {},
     superseded |-> FALSE, again |-> FALSE]

Init ==
    /\ marks = NoMarks
    /\ outbox = [b \in Browsers |-> <<>>]
    /\ saved = [b \in Browsers |-> NoMarks]
    /\ tab = [t \in Tabs |-> Loaded(BrowserOf[t])]
    /\ late = {} /\ applied = {} /\ durable = [t \in Tabs |-> {}]
    /\ edits = 0 /\ netFaults = 0 /\ storageFaults = 0 /\ reloads = 0

-----------------------------------------------------------------------------
(* The server: stateFile.update and stateFile.read run under the file's lock. *)

Marked(m) == {k \in Keys : m[k] # 0}

\* keepNewest: more than Cap marks, and the oldest go.
keepNewest(m) ==
    [k \in Keys |-> IF Cardinality({j \in Marked(m) : m[j] > m[k]}) < Cap THEN m[k] ELSE 0]

\* handleDeltaPut
Merge(m, d) == keepNewest([m EXCEPT ![d.key] = d.val])

Fault == netFaults < MaxNetFaults /\ netFaults' = netFaults + 1
NoFault == UNCHANGED netFaults

\* The server handles the request of a tab.  A write that fails in the directory sync is
\* answered by 500 although the file has changed.
Handle(t) ==
    /\ tab[t].request = "sent"
    /\ \E out \in {"ok", "failed", "failedAfterRename"} :
        /\ IF out = "ok" THEN NoFault ELSE Fault
        /\ IF out = "failed" THEN UNCHANGED <<marks, applied>>
           ELSE LET d == Head(tab[t].queue)
                IN  marks' = Merge(marks, d) /\ applied' = applied \union {d.edit}
        /\ tab' = [tab EXCEPT ![t].request = IF out = "ok" THEN "ok" ELSE "failed"]
    /\ UNCHANGED <<outbox, saved, late, durable, edits, storageFaults, reloads>>

\* A request that its client has given up on is handled after all.
HandleLate(d) ==
    /\ d \in late
    /\ late' = late \ {d}
    /\ marks' = Merge(marks, d) /\ applied' = applied \union {d.edit}
    /\ UNCHANGED <<tab, outbox, saved, durable, counters>>

\* The same for a console on another machine, of which only its PUT matters here: it sets
\* or removes a mark.
OtherConsole(k) ==
    /\ edits < MaxEdits /\ edits' = edits + 1
    /\ \E v \in {0, edits'} : marks' = Merge(marks, [key |-> k, val |-> v, edit |-> edits'])
    /\ UNCHANGED <<tab, outbox, saved, late, applied, durable, netFaults, storageFaults, reloads>>

\* The server answers a read.
AnswerRead(t) ==
    /\ tab[t].read = "sent"
    /\ tab' = [tab EXCEPT ![t].read = "answered", ![t].got = marks, ![t].seen = applied]
    /\ UNCHANGED <<marks, outbox, saved, late, applied, durable, counters>>

-----------------------------------------------------------------------------
(* The coordinator of a tab. *)

Edits(q) == {q[i].edit : i \in DOMAIN q}

\* persistQueues: the queues of the three maps are saved together, so that a save can fail
\* even when this one has become empty.
Save(t, q, ok) ==
    /\ IF ok THEN UNCHANGED storageFaults
       ELSE storageFaults < MaxStorageFaults /\ storageFaults' = storageFaults + 1
    /\ outbox' = IF ok THEN [outbox EXCEPT ![BrowserOf[t]] = q] ELSE outbox
    /\ durable' = IF ok THEN [durable EXCEPT ![t] = @ \union Edits(q)] ELSE durable

\* pending
pending(s) == s.blocked \/ s.drain = "live" \/ s.queue # <<>>

\* The first PUT for the head of the queue.
Pushing(s) == [s EXCEPT !.drain = "live", !.request = "sent", !.attempt = 1]

\* drain and runDrain up to the first await.  A queue that could not be saved is saved
\* first; if that fails again, runDrain returns before the code that resets drainPromise.
Drained(s, ok) ==
    IF s.drain # "none" \/ s.queue = <<>> THEN s
    ELSE IF ~ok THEN [s EXCEPT !.drain = "stale"]
    ELSE Pushing([s EXCEPT !.blocked = FALSE])

\* refreshKind up to its await.
Reading(s) ==
    IF pending(s) \/ s.read # "none" THEN s
    ELSE [s EXCEPT !.read = "sent"]

\* enqueue for the tab s with the edit on its screen: the queue may be full, and the delta
\* is saved before it is sent.
enqueue(t, s, d) ==
    LET e == [s EXCEPT !.queue = Append(@, d), !.superseded = s.read # "none"]
    IN  IF Len(s.queue) >= QueueLimit
        THEN /\ tab' = [tab EXCEPT ![t] = [s EXCEPT !.blocked = TRUE]]
             /\ UNCHANGED <<outbox, durable, storageFaults>>
        ELSE \E ok \in BOOLEAN :
             /\ Save(t, e.queue, ok)
             /\ tab' = [tab EXCEPT ![t] = IF ok THEN Drained(e, TRUE)
                                          ELSE [e EXCEPT !.blocked = TRUE]]

\* What a click on k changes in the map m: it sets the mark or removes it.
ackDelta(m, k) == [key |-> k, val |-> IF m[k] = 0 THEN edits' ELSE 0, edit |-> edits']

\* An edit on the screen: renderShell saves the map and calls enqueue.
Edit(t, k) ==
    LET d == ackDelta(tab[t].marks, k)
        m == [tab[t].marks EXCEPT ![k] = d.val]
    IN  /\ edits < MaxEdits /\ edits' = edits + 1
        /\ enqueue(t, [tab[t] EXCEPT !.marks = m], d)
        /\ saved' = [saved EXCEPT ![BrowserOf[t]] = m]
        /\ UNCHANGED <<marks, late, applied, netFaults, reloads>>

\* The 15 s timer, a click on Retry or the start of the page: retryAll.
Retry(t) ==
    LET s == tab[t]
    IN  /\ IF s.queue # <<>> /\ s.drain = "none" /\ s.blocked
           THEN \E ok \in BOOLEAN :
                Save(t, s.queue, ok) /\ tab' = [tab EXCEPT ![t] = Drained(s, ok)]
           ELSE /\ tab' = [tab EXCEPT ![t] = Reading(Drained(s, TRUE))]
                /\ UNCHANGED <<outbox, durable, storageFaults>>
        /\ UNCHANGED <<marks, saved, late, applied, edits, netFaults, reloads>>

Mut_AfterDrain(s, ok) == Reading([s EXCEPT !.request = "none", !.attempt = 1])

\* runDrain after its loop: the promise is reset and, when all was sent, the map read;
\* a read that is under way is awaited.
AfterDrain(s, ok) ==
    LET r == [s EXCEPT !.drain = "none", !.request = "none", !.attempt = 1]
    IN  IF ok THEN [Reading(r) EXCEPT !.again = r.read # "none"] ELSE r

Mut_PushAccepted(t) ==
    LET s == tab[t]
        rest == [s EXCEPT !.queue = <<>>]
    IN  /\ s.request = "ok"
        /\ Save(t, rest.queue, TRUE)
        /\ tab' = [tab EXCEPT ![t] = AfterDrain(rest, TRUE)]
        /\ UNCHANGED <<marks, saved, late, applied, edits, netFaults, reloads>>

\* The PUT was accepted: the delta leaves the queue, unless that cannot be saved.
PushAccepted(t) ==
    LET s == tab[t]
        rest == [s EXCEPT !.queue = Tail(@)]
    IN  /\ s.request = "ok"
        /\ \E ok \in BOOLEAN :
            /\ Save(t, rest.queue, ok)
            /\ tab' = [tab EXCEPT ![t] =
                        IF ~ok THEN AfterDrain([s EXCEPT !.blocked = TRUE], FALSE)
                        ELSE IF rest.queue # <<>> THEN Pushing(rest)
                        ELSE AfterDrain(rest, TRUE)]
        /\ UNCHANGED <<marks, saved, late, applied, edits, netFaults, reloads>>

\* The PUT failed, or nothing came back in time: pushState tries once more, then the
\* delta stays at the head of the queue.  A request not yet handled may arrive late.
PushFailed(t) ==
    LET s == tab[t]
    IN  /\ s.request # "none"
        /\ IF s.request = "failed" THEN NoFault ELSE Fault
        /\ late' \in {late} \union (IF s.request = "sent" THEN {late \union {Head(s.queue)}} ELSE {})
        /\ tab' = [tab EXCEPT ![t] = IF s.attempt = 1
                                     THEN [s EXCEPT !.request = "sent", !.attempt = 2]
                                     ELSE AfterDrain(s, FALSE)]
        /\ UNCHANGED <<marks, outbox, saved, applied, durable, edits, storageFaults, reloads>>

\* readPromise is reset.
ReadEnded(s) ==
    [s EXCEPT !.read = "none", !.again = FALSE, !.superseded = FALSE, !.got = NoMarks, !.seen = {}]

Mut_Overtaken(s) == pending(s)

\* An edit waits, or was made since the read began.
Overtaken(s) == pending(s) \/ s.superseded

\* refreshKind after its await: an answer that an edit has overtaken is dropped, and the
\* drain that waited for it reads again.
ReadArrives(t) ==
    LET s == tab[t]
        ended == ReadEnded(s)
        shown == [ended EXCEPT !.marks = s.got]
    IN  /\ s.read = "answered"
        /\ tab' = [tab EXCEPT ![t] = IF ~Overtaken(s) THEN shown
                                     ELSE IF s.again THEN Reading(ended) ELSE ended]
        /\ saved' = IF Overtaken(s) THEN saved ELSE [saved EXCEPT ![BrowserOf[t]] = s.got]
        /\ UNCHANGED <<marks, outbox, late, applied, durable, counters>>

\* The GET failed: null is dropped like an answer that was overtaken, or reported.
ReadFails(t) ==
    LET s == tab[t]
        ended == ReadEnded(s)
    IN  /\ s.read # "none"
        /\ Fault
        /\ tab' = [tab EXCEPT ![t] = IF s.again /\ Overtaken(s)
                                     THEN Reading(ended) ELSE ended]
        /\ UNCHANGED <<marks, outbox, saved, late, applied, durable, edits, storageFaults, reloads>>

\* The page is reloaded; a request under way may still be handled.
Reload(t) ==
    /\ reloads < MaxReloads /\ reloads' = reloads + 1
    /\ tab' = [tab EXCEPT ![t] = Loaded(BrowserOf[t])]
    /\ late' \in {late} \union
                 (IF tab[t].request = "sent" THEN {late \union {Head(tab[t].queue)}} ELSE {})
    /\ UNCHANGED <<marks, outbox, saved, applied, durable, edits, netFaults, storageFaults>>

-----------------------------------------------------------------------------
Server == (\E t \in Tabs : Handle(t) \/ AnswerRead(t)) 
          \/ (\E d \in late : HandleLate(d)) \/ \E k \in Keys : OtherConsole(k)

Next ==
    \/ Server
    \/ \E t \in Tabs : \/ \E k \in Keys : Edit(t, k)
                       \/ Retry(t) \/ PushAccepted(t) \/ PushFailed(t)
                       \/ ReadArrives(t) \/ ReadFails(t) \/ Reload(t)

Spec == Init /\ [][Next]_vars

\* The server answers, late requests arrive or are lost, the timer of an open console
\* keeps firing and an answer is taken up.  Faults are finitely many.
FairSpec ==
    /\ Spec
    /\ \A t \in Tabs :
          /\ WF_vars(Handle(t) \/ PushAccepted(t) \/ PushFailed(t))
          /\ WF_vars(AnswerRead(t) \/ ReadArrives(t))
          /\ WF_vars(Retry(t))

-----------------------------------------------------------------------------
(* Properties. *)

TypeOK ==
    /\ marks \in Marks
    /\ tab \in [Tabs -> Tab]
    /\ outbox \in [Browsers -> Queue] /\ saved \in [Browsers -> Marks]
    /\ late \subseteq Delta
    /\ applied \subseteq 1..edits /\ durable \in [Tabs -> SUBSET (1..edits)]
    /\ edits \in 0..MaxEdits /\ netFaults \in 0..MaxNetFaults
    /\ storageFaults \in 0..MaxStorageFaults /\ reloads \in 0..MaxReloads

\* An edit that was saved in the outbox reaches the server or stays in the outbox,
\* whatever fails and however often the page is reloaded.
NoEditLost ==
    \A t \in Tabs : durable[t] \subseteq applied \union Edits(outbox[BrowserOf[t]])

\* Neither an edit nor a reload, but the server's answer, changes the map on a screen,
\* and that answer was given after the server had merged every edit of that screen.
ReadYourWrites ==
    [][\A t \in Tabs : tab'[t].marks # tab[t].marks /\ <<edits, reloads>>' = <<edits, reloads>>
          => durable[t] \union Edits(tab[t].queue) \subseteq tab[t].seen]_vars

\* The coordinator waits for a promise that has resolved, or its queue is empty and the
\* mark of a failed save is still set.
Stuck(t) == tab[t].drain = "stale" \/ (tab[t].blocked /\ tab[t].queue = <<>>)

\* Once the operators pause, every queue is sent and every screen shows the server's
\* map, but for a tab that a failed save has left stuck.
Converges ==
    \A t \in Tabs : <>[](Stuck(t) \/ (tab[t].queue = <<>> /\ tab[t].marks = marks))

\* shared_sync.js: after a storage failure writes and pulls are held back "until
\* persistence succeeds".  (Does not hold.)
StorageFaultHeals == \A t \in Tabs : tab[t].blocked ~> ~tab[t].blocked

=============================================================================
