---------------------------- MODULE ConsolePoll ----------------------------
(***************************************************************************)
(* The fleet poll loop of the browser console: startPull and startTick of  *)
(* app.js, pull, pullPatch and mergeLocalWrites of model/data.js, and the  *)
(* two places that tell the operator how good the data is, collectionState *)
(* of util/ui_state.js (the badge) and renderBanner of app.js.             *)
(*                                                                         *)
(* run() is an asynchronous chain: it reads the store, waits for the       *)
(* answer, applies it and arms the next timer.  A tab that becomes visible *)
(* again, and the Retry button, start a new chain; the generation counter  *)
(* stops the old one from arming a timer.  Only equality with the current  *)
(* generation matters, so a request carries "cur" instead of a number.     *)
(*                                                                         *)
(* Time is counted in ticks; ages and timers are relative, so no clock is  *)
(* needed.  One device field stands for the fleet: val is what the screen  *)
(* shows, edit the meta.localEdit override a saved form leaves on it.      *)
(* Screen errors (uiError) and the closing of the banner are the subject   *)
(* of ConsoleNav; here no screen fails.                                    *)
(***************************************************************************)
EXTENDS Integers, FiniteSets, ConsoleStatus

CONSTANTS
    MaxReqs,     \* requests that may be in flight at once (bound)
    Grace,       \* failures before the wait grows (3)
    Base,        \* BASE_MS: wait between polls
    MaxWait,     \* MAX_MS: longest wait after failures
    ReqTimeout,  \* abort timer of a request
    MaxFails,    \* fails saturates here, where the wait has reached MaxWait (bound)
    MaxEdits     \* edits an operator saves (bound)

ASSUME TimingAssumption ==
    /\ Base \in Nat \ {0} /\ MaxWait \in Nat /\ Base <= MaxWait
    /\ ReqTimeout \in Nat /\ Grace \in Nat /\ MaxReqs \in Nat \ {0}
    /\ MaxFails \in Nat /\ MaxEdits \in Nat

VARIABLES
    page,        \* "console", or "login" after a 401 answer
    visible,     \* isTabActive
    timer,       \* setTimeout(run): <<ticks left>>, or NoTimer
    fails,       \* consecutive failed polls
    reqs,        \* slot -> request in flight, or Free
    con,         \* the part of the store the loop reads and writes
    retry,       \* Retry was clicked and sharedSync.retryAll is still awaited
    srv,         \* the server and the way to it (environment)
    held         \* history: an edit saved while no request was in flight

vars == <<page, visible, timer, fails, reqs, con, retry, srv, held>>

NoTimer == <<>>
None    == -1          \* no localEdit on the device
Free    == [busy |-> FALSE]
NoAns   == [got |-> FALSE]

\* What the server answers: field value, sample flag, "collection is late".
Answers == [got : {TRUE}, val : 0..MaxEdits, sample : BOOLEAN, late : BOOLEAN]
Seen    == [edit : {None} \cup 0..MaxEdits, sample : BOOLEAN]
Request == [busy : {TRUE}, cur : BOOLEAN, seen : Seen,
            ans : Answers \cup {NoAns}, age : 0..ReqTimeout]
Console == [val : 0..MaxEdits, edit : {None} \cup 0..MaxEdits,
            fleetSample : BOOLEAN, polled : BOOLEAN, age : 0..StaleAfter + 1,
            err : BOOLEAN, stale : BOOLEAN, pending : BOOLEAN,
            sample : BOOLEAN, uiErr : {FALSE}]

Slots == 1..MaxReqs

Busy == {s \in Slots : reqs[s].busy}
Cur  == {s \in Busy : reqs[s].cur}

\* Requests are interchangeable: a new one takes the first free slot.
FreeSlot(s) == s \in Slots \ Busy /\ \A q \in Slots \ Busy : s <= q

-----------------------------------------------------------------------------
(* One pass of run().                                                      *)

\* run() up to its await: it keeps the state it has read.
NewRequest(c) ==
    [busy |-> TRUE, cur |-> TRUE, age |-> 0, ans |-> NoAns,
     seen |-> [edit |-> c.edit, sample |-> IsSampleMode(c)]]

\* Mutant: the generation is not raised.
Mut_NoGeneration(s, c) == [reqs EXCEPT ![s] = NewRequest(c)]

\* A new chain starts in slot s; the older ones may not arm a timer any more.
Supersede(s, c) ==
    [q \in Slots |-> IF q = s THEN NewRequest(c)
                     ELSE IF reqs[q].busy THEN [reqs[q] EXCEPT !.cur = FALSE]
                     ELSE Free]

\* initialState: nothing polled yet.
BootState ==
    [val |-> 0, edit |-> None, fleetSample |-> FALSE, polled |-> FALSE, age |-> 0,
     err |-> FALSE, stale |-> FALSE, pending |-> TRUE, sample |-> FALSE,
     uiErr |-> FALSE]

Init ==
    /\ page = "console" /\ visible \in BOOLEAN
    /\ con = BootState
    /\ reqs = [q \in Slots |-> IF visible /\ q = 1 THEN NewRequest(con) ELSE Free]
    /\ timer = NoTimer /\ fails = 0
    /\ retry = FALSE
    /\ srv \in [link : {"ok"}, cfg : {0}, val : {0}, sample : BOOLEAN]
    /\ held = None

\* Mutant: the answer replaces the fleet.
Mut_NoMerge(edit, a) == [val |-> a.val, edit |-> None]

\* mergeLocalWrites: the override the loop read before it asked is laid over
\* the answer until the server shows the same value.
MergeLocalWrites(edit, a) ==
    IF edit # None /\ a.val # edit THEN [val |-> edit, edit |-> edit]
    ELSE [val |-> a.val, edit |-> None]

\* pullPatch for an answer.  No override is laid over a sample fleet.
PatchOk(c, r) ==
    LET a == r.ans
        m == MergeLocalWrites(IF a.sample THEN None ELSE r.seen.edit, a)
    IN [c EXCEPT !.val = m.val, !.edit = m.edit, !.fleetSample = a.sample,
                 !.sample = a.sample, !.polled = TRUE, !.age = 0,
                 !.pending = FALSE, !.err = a.late, !.stale = a.late]

\* Mutant: a failure only counts, the state still says all is well.
Mut_QuietFail(c, r) == [c EXCEPT !.sample = r.seen.sample, !.pending = FALSE]

\* pullPatch for a failure: the fleet stays, the sample flag is the one that
\* was read before the request.
PatchFail(c, r) ==
    [c EXCEPT !.sample = r.seen.sample, !.err = TRUE, !.stale = TRUE,
              !.pending = FALSE]

Backoff(n) ==
    LET w == Base * 2 ^ (IF n > Grace THEN n - Grace ELSE 0)
    IN  IF w > MaxWait THEN MaxWait ELSE w

\* run() after its await: count, merge, arm the timer if still the current
\* chain.  (The first end of a pull also validates a deep link, and a patch
\* is followed by the operator-mark sweeps: modules ConsoleNav, ConsoleOps.)
Finish(s, patch, failed) ==
    LET n == IF failed THEN (IF fails < MaxFails THEN fails + 1 ELSE fails) ELSE 0
    IN /\ con' = patch
       /\ fails' = n
       /\ timer' = IF reqs[s].cur THEN <<Backoff(n)>> ELSE timer
       /\ reqs' = [reqs EXCEPT ![s] = Free]

-----------------------------------------------------------------------------
(* Requests.                                                               *)

\* External: the server takes the request and answers with what it has now.
Serve(s) ==
    /\ page = "console" /\ s \in Busy /\ ~reqs[s].ans.got /\ srv.link # "down"
    /\ reqs' = [reqs EXCEPT ![s].ans =
           [got |-> TRUE, val |-> srv.val, sample |-> srv.sample, late |-> srv.link = "late"]]
    /\ UNCHANGED <<page, visible, timer, fails, con, retry, srv, held>>

Deliver(s) ==
    /\ page = "console" /\ s \in Busy /\ reqs[s].ans.got
    /\ Finish(s, PatchOk(con, reqs[s]), reqs[s].ans.late)
    /\ held' = IF reqs[s].ans.val = held THEN None ELSE held
    /\ UNCHANGED <<page, visible, retry, srv>>

\* An HTTP error, a network error or the abort timer.
Fail(s) ==
    /\ page = "console" /\ s \in Busy /\ srv.link \in {"flaky", "down"}
    /\ Finish(s, PatchFail(con, reqs[s]), TRUE)
    /\ UNCHANGED <<page, visible, retry, srv, held>>

\* A 401 answer: redirectToLogin leaves the page.
Expire(s) ==
    /\ page = "console" /\ s \in Busy /\ ~reqs[s].ans.got /\ srv.link # "down"
    /\ page' = "login"
    /\ reqs' = [q \in Slots |-> Free] /\ timer' = NoTimer /\ retry' = FALSE
    /\ UNCHANGED <<visible, fails, con, srv, held>>

\* After the login the page is loaded again: boot, startPull.
Login ==
    /\ page = "login" /\ visible
    /\ page' = "console" /\ fails' = 0 /\ held' = None
    /\ con' = BootState
    /\ reqs' = Supersede(1, con')
    /\ UNCHANGED <<visible, timer, retry, srv>>

-----------------------------------------------------------------------------
(* Timers, the tab and the operator.                                       *)

\* The timer fires; in a hidden tab run() returns at once and the chain ends.
Fire ==
    /\ page = "console" /\ timer = <<0>>
    /\ timer' = NoTimer
    /\ \/ /\ visible
          /\ \E s \in Slots : FreeSlot(s) /\ reqs' = [reqs EXCEPT ![s] = NewRequest(con)]
       \/ ~visible /\ UNCHANGED reqs
    /\ UNCHANGED <<page, visible, fails, con, retry, srv, held>>

\* Mutant: the pending timer survives the hiding of the tab.
Mut_HideKeepsTimer ==
    /\ page = "console" /\ visible /\ visible' = FALSE
    /\ UNCHANGED <<page, timer, fails, reqs, con, retry, srv, held>>

Hide ==
    /\ page = "console" /\ visible
    /\ visible' = FALSE /\ timer' = NoTimer
    /\ UNCHANGED <<page, fails, reqs, con, retry, srv, held>>

\* Mutant: the tab comes back without a new run.
Mut_ShowNoRun(s) ==
    /\ page = "console" /\ ~visible /\ FreeSlot(s)
    /\ visible' = TRUE /\ timer' = NoTimer
    /\ UNCHANGED <<page, fails, reqs, con, retry, srv, held>>

Show(s) ==
    /\ page = "console" /\ ~visible /\ FreeSlot(s)
    /\ visible' = TRUE /\ timer' = NoTimer
    /\ reqs' = Supersede(s, con)
    /\ UNCHANGED <<page, fails, con, retry, srv, held>>

\* The Retry button of the banner, up to its await of sharedSync.retryAll.
RetryPull ==
    /\ page = "console" /\ visible /\ BannerOn(con, FALSE) /\ ~retry
    /\ retry' = TRUE
    /\ con' = [con EXCEPT !.pending = ~con.polled]
    /\ UNCHANGED <<page, visible, timer, fails, reqs, srv, held>>

\* ... and after it: pullNow, which does nothing in a hidden tab.
PullNow(s) ==
    /\ page = "console" /\ retry /\ FreeSlot(s)
    /\ retry' = FALSE
    /\ IF visible THEN timer' = NoTimer /\ reqs' = Supersede(s, con)
                  ELSE UNCHANGED <<timer, reqs>>
    /\ UNCHANGED <<page, visible, fails, con, srv, held>>

\* The 1200 ms tick.  It does nothing while automatic refresh (setg.refresh)
\* is off, which the operator may choose at any time: no fairness.
Tick ==
    /\ page = "console"
    /\ con' = [con EXCEPT !.stale = ComputeStale(con)]
    /\ UNCHANGED <<page, visible, timer, fails, reqs, retry, srv, held>>

\* A form of the manage screen was saved: the server has accepted the value
\* and the fleet on the screen carries it as an override.
SaveEdit ==
    /\ page = "console" /\ visible /\ con.polled /\ ~con.sample
    /\ srv.cfg < MaxEdits
    /\ srv' = [srv EXCEPT !.cfg = @ + 1]
    /\ con' = [con EXCEPT !.val = srv.cfg + 1, !.edit = srv.cfg + 1]
    /\ held' = IF Busy = {} THEN srv.cfg + 1 ELSE None
    /\ UNCHANGED <<page, visible, timer, fails, reqs, retry>>

\* Time passes.  A due timer fires first and a request ends by its timeout.
Elapse ==
    /\ timer # <<0>>
    /\ \A s \in Busy : reqs[s].age < ReqTimeout
    /\ timer' = IF timer = NoTimer THEN NoTimer ELSE <<timer[1] - 1>>
    /\ reqs' = [s \in Slots |-> IF s \in Busy THEN [reqs[s] EXCEPT !.age = @ + 1] ELSE Free]
    /\ con' = [con EXCEPT !.age = IF @ > StaleAfter \/ ~con.polled THEN @ ELSE @ + 1]
    /\ UNCHANGED <<page, visible, fails, retry, srv, held>>

-----------------------------------------------------------------------------
(* The environment: the network, the collector and the server's own mode.  *)

Link ==
    /\ \E l \in {"ok", "late", "flaky", "down"} \ {srv.link} : srv' = [srv EXCEPT !.link = l]
    /\ UNCHANGED <<page, visible, timer, fails, reqs, con, retry, held>>

Publish ==
    /\ srv.val # srv.cfg
    /\ srv' = [srv EXCEPT !.val = srv.cfg]
    /\ UNCHANGED <<page, visible, timer, fails, reqs, con, retry, held>>

Next ==
    \/ \E s \in Slots : Serve(s) \/ Deliver(s) \/ Fail(s) \/ Expire(s)
                        \/ Show(s) \/ PullNow(s)
    \/ Login \/ Fire \/ Hide \/ RetryPull \/ Tick \/ SaveEdit
    \/ Elapse \/ Link \/ Publish

Spec == Init /\ [][Next]_vars

\* Every request ends (its abort timer sees to it), timers fire, time passes.
\* Nothing is assumed of the network, of the server or of the operator.
Fairness ==
    /\ \A s \in Slots : WF_vars(Serve(s) \/ Deliver(s) \/ Fail(s))
    /\ \A s \in Slots : WF_vars(PullNow(s))
    /\ WF_vars(Fire) /\ WF_vars(Elapse)

FairSpec == Spec /\ Fairness
-----------------------------------------------------------------------------
TypeOK ==
    /\ page \in {"console", "login"} /\ visible \in BOOLEAN
    /\ timer \in {NoTimer} \cup {<<n>> : n \in 0..MaxWait}
    /\ fails \in 0..MaxFails
    /\ reqs \in [Slots -> Request \cup {Free}]
    /\ con \in Console
    /\ retry \in BOOLEAN
    /\ srv \in [link : {"ok", "late", "flaky", "down"}, cfg : 0..MaxEdits,
                val : 0..MaxEdits, sample : BOOLEAN]
    /\ held \in {None} \cup 1..MaxEdits

\* There is one poll chain: never a timer next to a current request, never
\* two current requests (the generation guard of run()).
OneChain ==
    /\ Cardinality(Cur) <= 1
    /\ Cur # {} => timer = NoTimer

\* An edit saved while no poll was in flight stays on the screen, whatever
\* the polls bring, until the server has shown the same value.
EditHeld == held # None => con.val = held \/ con.fleetSample

\* The loop as PollLoop sees it: the current chain only.
Loop == INSTANCE PollLoop WITH
            open  <- visible /\ page = "console",
            chain <- IF Cur # {} THEN "asking"
                     ELSE IF timer # NoTimer THEN "waiting" ELSE "none"

\* However requests, tab switches and retries overlap, they amount to one
\* loop that asks and waits in turn and ends only with the tab or the session.
RefinesLoop == Loop!Spec

\* A visible tab never stops asking: the chain cannot die.
KeepsPolling == <>[](visible /\ page = "console") => []<>(Cur # {})

\* The badge follows the server: a lasting outage is shown for good, and a
\* lasting recovery, answers in time and collection up to date, is shown too.
BadgeFollowsServer ==
    /\ <>[](visible /\ page = "console" /\ srv.link = "down")
         => <>[](CollectionState(con) \in {"offline", "stale"})
    /\ <>[](visible /\ page = "console" /\ srv.link = "ok")
         => <>[](CollectionState(con) \in {"live", "sample"})
=============================================================================
