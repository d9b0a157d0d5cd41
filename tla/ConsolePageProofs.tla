------------------------- MODULE ConsolePageProofs --------------------------
(***************************************************************************)
(* Theorems about the page of the console.  Its poll loop: for every       *)
(* number of overlapping requests, every timing and every number of edits  *)
(* there is one poll chain, the visible console always has one, the loop   *)
(* implements PollLoop, and a saved edit stays on the screen.  Moving      *)
(* through it and acting on a device: for every set of screens, devices,   *)
(* addresses and answers the address, the state and the mounted screen     *)
(* always say the same, whatever the detail page does is about the device  *)
(* it shows, and what it shows is what a fresh page would.                 *)
(***************************************************************************)
EXTENDS ConsolePoll, ConsoleNav, ConsoleControl, FiniteSetTheorems, SequenceTheorems, TLAPS

(***************************************************************************)
(* The poll loop.                                                          *)
(***************************************************************************)

\* The types, but for the lengths of timers.
Shape ==
    /\ page \in {"console", "login"} /\ visible \in BOOLEAN
    /\ timer # NoTimer => timer = <<timer[1]>>
    /\ reqs \in [Slots -> Request \cup {Free}]
    /\ con \in Console
    /\ srv \in [link : {"ok", "late", "flaky", "down"}, cfg : 0..MaxEdits,
                val : 0..MaxEdits, sample : BOOLEAN]

\* At most one request belongs to the current chain, and none next to a timer.
Single ==
    /\ \A p, q \in Cur : p = q
    /\ Cur # {} => timer = NoTimer

\* The console has a chain while it is on the screen; the login page has none.
Alive ==
    /\ page = "console" /\ visible => Cur # {} \/ timer # NoTimer
    /\ page = "login" => Busy = {} /\ timer = NoTimer

ChainInv == Shape /\ Single /\ Alive

-----------------------------------------------------------------------------
(* What the steps of a chain do to the requests.                           *)

\* run() up to its await: the request it makes belongs to the current chain.
LEMMA NewRequestType ==
    ASSUME NEW c \in Console
    PROVE  NewRequest(c) \in Request /\ NewRequest(c).cur = TRUE /\ NewRequest(c).busy = TRUE
BY TimingAssumption DEF NewRequest, Request, Console, Seen, IsSampleMode

\* A free slot is no request.
LEMMA FreeIsNot ==
    /\ Free.busy = FALSE
    /\ \A r \in Request : r.busy = TRUE /\ r.cur \in BOOLEAN
BY DEF Free, Request

\* A new chain (startPull, showing the tab, Retry) takes the currency of every
\* older request: its own is the only current one.
LEMMA SupersedeLeavesOne ==
    ASSUME Shape, NEW s \in Slots, NEW c \in Console, reqs' = Supersede(s, c)
    PROVE  /\ Cur' = {s}
           /\ reqs' \in [Slots -> Request \cup {Free}]
<1>1. \A q \in Slots : reqs'[q] = IF q = s THEN NewRequest(c)
                                  ELSE IF reqs[q].busy THEN [reqs[q] EXCEPT !.cur = FALSE] ELSE Free
    BY DEF Supersede
<1>2. ASSUME NEW q \in Slots, q # s
      PROVE  reqs'[q] \in Request \cup {Free} /\ (reqs'[q].busy => ~ reqs'[q].cur)
    <2>1. CASE reqs[q].busy
        <3>1. reqs[q] \in Request
            BY <2>1, FreeIsNot DEF Shape
        <3>2. [reqs[q] EXCEPT !.cur = FALSE] \in Request /\ [reqs[q] EXCEPT !.cur = FALSE].cur = FALSE
            BY <3>1 DEF Request
        <3> QED BY <1>1, <1>2, <2>1, <3>2
    <2>2. CASE ~ reqs[q].busy
        BY <1>1, <1>2, <2>2, FreeIsNot
    <2> QED BY <2>1, <2>2
<1>3. reqs' \in [Slots -> Request \cup {Free}]
    BY <1>1, <1>2, NewRequestType DEF Supersede
<1>4. reqs'[s].busy /\ reqs'[s].cur
    BY <1>1, NewRequestType
<1> QED BY <1>2, <1>3, <1>4 DEF Cur, Busy

\* A merged answer and a failure leave a console of the right shape.
LEMMA PatchTypes ==
    ASSUME Shape, NEW s \in Busy
    PROVE  /\ reqs[s].ans.got => PatchOk(con, reqs[s]) \in Console
           /\ PatchFail(con, reqs[s]) \in Console
<1> DEFINE r == reqs[s]
<1>1. r \in Request
    BY FreeIsNot DEF Shape, Busy
<1>2. PatchFail(con, r) \in Console
    BY <1>1 DEF Shape, PatchFail, Console, Request, Seen
<1>3. ASSUME r.ans.got PROVE PatchOk(con, r) \in Console
    <2>1. r.ans \in Answers /\ r.seen \in Seen
        <3>1. r.ans \in Answers \cup {NoAns} /\ r.seen \in Seen
            BY <1>1 DEF Request
        <3>2. r.ans # NoAns
            BY <1>3 DEF NoAns
        <3> QED BY <3>1, <3>2
    <2> DEFINE m == MergeLocalWrites(IF r.ans.sample THEN None ELSE r.seen.edit, r.ans)
    <2>2. m.val \in 0..MaxEdits /\ m.edit \in {None} \cup 0..MaxEdits
        BY <2>1, TimingAssumption DEF MergeLocalWrites, Answers, Seen, None
    <2> HIDE DEF m
    <2>3. r.ans.sample \in BOOLEAN /\ r.ans.late \in BOOLEAN
        BY <2>1 DEF Answers
    <2>4. 0 \in 0..StaleAfter + 1
        BY StaleAssumption
    <2>5. PatchOk(con, r) = [con EXCEPT !.val = m.val, !.edit = m.edit, !.fleetSample = r.ans.sample,
                 !.sample = r.ans.sample, !.polled = TRUE, !.age = 0,
                 !.pending = FALSE, !.err = r.ans.late, !.stale = r.ans.late]
        BY DEF PatchOk, m
    <2> QED BY <2>2, <2>3, <2>4, <2>5 DEF Shape, Console
<1> QED BY <1>2, <1>3

\* The end of a request: if it belonged to the chain, the timer takes over.
LEMMA FinishEffect ==
    ASSUME Shape, NEW s \in Busy, NEW patch \in Console, NEW failed, Finish(s, patch, failed),
           UNCHANGED <<page, visible, srv>>
    PROVE  /\ Shape'
           /\ Cur' = Cur \ {s}
           /\ s \in Cur => timer' # NoTimer
           /\ s \notin Cur => timer' = timer
           /\ Busy' = Busy \ {s}
<1>1. \A q \in Slots : reqs'[q] = IF q = s THEN Free ELSE reqs[q]
    BY DEF Finish, Shape, Busy
<1>2. reqs' \in [Slots -> Request \cup {Free}]
    BY DEF Finish, Shape, Busy
<1>3. Cur' = Cur \ {s} /\ Busy' = Busy \ {s}
    BY <1>1, FreeIsNot DEF Cur, Busy
<1>4. s \in Cur => timer' # NoTimer /\ timer' = <<timer'[1]>>
    BY DEF Finish, Cur, NoTimer
<1>5. s \notin Cur => timer' = timer
    BY DEF Finish, Cur
<1>6. con' \in Console
    BY DEF Finish
<1> QED BY <1>2, <1>3, <1>4, <1>5, <1>6 DEF Shape

-----------------------------------------------------------------------------
(* The invariant.                                                          *)

\* initialState gives a console of the right shape.
LEMMA BootStateType == BootState \in Console
BY TimingAssumption, StaleAssumption DEF BootState, Console, None

\* The invariant holds when the page is loaded, in a visible tab or a hidden one.
LEMMA ChainInit == Init => ChainInv
<1> SUFFICES ASSUME Init PROVE ChainInv
    OBVIOUS
<1>1. con \in Console
    BY BootStateType DEF Init
<1>2. 1 \in Slots
    BY TimingAssumption DEF Slots
<1>3. Shape
    <2>1. reqs \in [Slots -> Request \cup {Free}]
        BY <1>1, NewRequestType DEF Init
    <2>2. srv \in [link : {"ok", "late", "flaky", "down"}, cfg : 0..MaxEdits,
                   val : 0..MaxEdits, sample : BOOLEAN]
        <3>1. 0 \in 0..MaxEdits
            BY TimingAssumption
        <3> QED BY <3>1 DEF Init
    <2> QED BY <1>1, <2>1, <2>2 DEF Init, Shape
<1>4. Busy = IF visible THEN {1} ELSE {}
    BY <1>1, <1>2, NewRequestType, FreeIsNot DEF Init, Busy
<1>5. Cur = IF visible THEN {1} ELSE {}
    BY <1>1, <1>2, <1>4, NewRequestType DEF Init, Cur
<1> QED BY <1>3, <1>4, <1>5 DEF Init, ChainInv, Single, Alive

\* What PollLoop sees of a state.
Seat == visible /\ page = "console"
Chain == IF Cur # {} THEN "asking" ELSE IF timer # NoTimer THEN "waiting" ELSE "none"

\* A step that leaves the chain alone.
Quiet ==
    /\ UNCHANGED <<page, visible>>
    /\ Cur' = Cur /\ Busy' = Busy
    /\ (timer' = NoTimer) <=> (timer = NoTimer)

\* What touches neither page, tab, timer nor currency keeps the invariant.
LEMMA QuietKeeps ==
    ASSUME ChainInv, Shape', Quiet
    PROVE  ChainInv' /\ Seat' = Seat /\ Chain' = Chain
<1>1. Single'
    BY DEF ChainInv, Single, Quiet
<1>2. Alive'
    BY DEF ChainInv, Alive, Quiet
<1>3. Seat' = Seat /\ Chain' = Chain
    BY DEF Quiet, Seat, Chain
<1> QED BY <1>1, <1>2, <1>3 DEF ChainInv

\* The server's answer, not yet delivered, changes no chain.
LEMMA ServeQuiet ==
    ASSUME ChainInv, NEW s \in Slots, Serve(s)
    PROVE  Shape' /\ Quiet
<1> DEFINE a == [got |-> TRUE, val |-> srv.val, sample |-> srv.sample, late |-> srv.link = "late"]
<1>1. a \in Answers
    BY DEF ChainInv, Shape, Answers
<1>2. reqs[s] \in Request
    BY FreeIsNot DEF ChainInv, Shape, Serve, Busy
<1>3. reqs' = [reqs EXCEPT ![s] = [reqs[s] EXCEPT !.ans = a]]
    BY DEF Serve
<1> HIDE DEF a
<1>4. [reqs[s] EXCEPT !.ans = a] \in Request /\ [reqs[s] EXCEPT !.ans = a].cur = reqs[s].cur
    BY <1>1, <1>2 DEF Request
<1>5. reqs' \in [Slots -> Request \cup {Free}]
    BY <1>3, <1>4 DEF ChainInv, Shape
<1>6. \A q \in Slots : reqs'[q].busy = reqs[q].busy /\ (reqs[q].busy => reqs'[q].cur = reqs[q].cur)
    BY <1>2, <1>3, <1>4, FreeIsNot DEF ChainInv, Shape
<1>7. Shape'
    BY <1>5 DEF ChainInv, Shape, Serve
<1> QED BY <1>6, <1>7 DEF Serve, Quiet, Cur, Busy

\* The ageing of requests changes no chain.
LEMMA ElapseQuiet ==
    ASSUME ChainInv, Elapse
    PROVE  Shape' /\ Quiet
<1>1. ASSUME NEW s \in Busy
      PROVE  [reqs[s] EXCEPT !.age = @ + 1] \in Request /\ [reqs[s] EXCEPT !.age = @ + 1].cur = reqs[s].cur
    <2>1. reqs[s] \in Request
        BY FreeIsNot DEF ChainInv, Shape, Busy
    <2>2. reqs[s].age + 1 \in 0..ReqTimeout
        <3>1. reqs[s].age \in 0..ReqTimeout
            BY <2>1 DEF Request
        <3>2. reqs[s].age < ReqTimeout
            BY DEF Elapse
        <3> QED BY <3>1, <3>2, TimingAssumption
    <2> QED BY <2>1, <2>2 DEF Request
<1>2. reqs' \in [Slots -> Request \cup {Free}]
    BY <1>1 DEF Elapse
<1>3. \A q \in Slots : reqs'[q].busy = reqs[q].busy /\ (reqs[q].busy => reqs'[q].cur = reqs[q].cur)
    BY <1>1, FreeIsNot DEF Elapse, ChainInv, Shape, Busy
<1>4. con' \in Console
    <2> DEFINE g == IF con.age > StaleAfter \/ ~con.polled THEN con.age ELSE con.age + 1
    <2>1. con \in Console /\ con' = [con EXCEPT !.age = g]
        BY DEF Elapse, ChainInv, Shape
    <2>2. g \in 0..StaleAfter + 1
        BY <2>1, StaleAssumption DEF Console
    <2> HIDE DEF g
    <2> QED BY <2>1, <2>2 DEF Console
<1>5. /\ timer' # NoTimer => timer' = <<timer'[1]>>
      /\ (timer' = NoTimer) <=> (timer = NoTimer)
    BY DEF Elapse, NoTimer
<1>6. Shape'
    BY <1>2, <1>4, <1>5 DEF Elapse, ChainInv, Shape
<1> QED BY <1>3, <1>5, <1>6 DEF Elapse, Quiet, Cur, Busy

\* The steps that leave requests and timer alone.
LEMMA OthersQuiet ==
    ASSUME ChainInv, RetryPull \/ Tick \/ SaveEdit \/ Link \/ Publish
    PROVE  Shape' /\ Quiet
<1>1. UNCHANGED <<page, visible, timer, reqs>>
    BY DEF RetryPull, Tick, SaveEdit, Link, Publish
<1>2. con' \in Console
    <2>1. CASE RetryPull
        BY <2>1 DEF RetryPull, ChainInv, Shape, Console
    <2>2. CASE Tick
        <3>1. ComputeStale(con) \in BOOLEAN
            BY DEF ComputeStale, ChainInv, Shape, Console
        <3> QED BY <2>2, <3>1 DEF Tick, ChainInv, Shape, Console
    <2>3. CASE SaveEdit
        <3>1. srv.cfg + 1 \in 0..MaxEdits
            BY <2>3, TimingAssumption DEF SaveEdit, ChainInv, Shape
        <3> QED BY <2>3, <3>1 DEF SaveEdit, ChainInv, Shape, Console
    <2>4. CASE Link \/ Publish
        BY <2>4 DEF Link, Publish, ChainInv, Shape
    <2> QED BY <2>1, <2>2, <2>3, <2>4
<1>3. srv' \in [link : {"ok", "late", "flaky", "down"}, cfg : 0..MaxEdits,
                val : 0..MaxEdits, sample : BOOLEAN]
    <2>1. CASE SaveEdit
        <3>1. srv.cfg + 1 \in 0..MaxEdits
            BY <2>1, TimingAssumption DEF SaveEdit, ChainInv, Shape
        <3> QED BY <2>1, <3>1 DEF SaveEdit, ChainInv, Shape
    <2>2. CASE RetryPull \/ Tick
        BY <2>2 DEF RetryPull, Tick, ChainInv, Shape
    <2>3. CASE Link
        BY <2>3 DEF Link, ChainInv, Shape
    <2>4. CASE Publish
        BY <2>4 DEF Publish, ChainInv, Shape
    <2> QED BY <2>1, <2>2, <2>3, <2>4
<1>4. Shape'
    BY <1>1, <1>2, <1>3 DEF ChainInv, Shape
<1> QED BY <1>1, <1>4 DEF Quiet, Cur, Busy

\* A request ends: the chain goes from asking to waiting, or nothing happens.
LEMMA FinishStep ==
    ASSUME ChainInv, NEW s \in Busy, NEW patch \in Console, NEW failed, Finish(s, patch, failed),
           page = "console", UNCHANGED <<page, visible, srv>>
    PROVE  /\ ChainInv' /\ Seat' = Seat
           /\ \/ Chain = "asking" /\ Chain' = "waiting"
              \/ Chain' = Chain
<1>1. /\ Shape' /\ Cur' = Cur \ {s}
      /\ s \in Cur => timer' # NoTimer
      /\ s \notin Cur => timer' = timer
    BY FinishEffect DEF ChainInv
<1>2. CASE s \in Cur
    <2>1. Cur = {s}
        BY <1>2 DEF ChainInv, Single
    <2>2. Cur' = {} /\ timer' # NoTimer
        BY <1>1, <1>2, <2>1
    <2>3. Single' /\ Alive'
        BY <2>2 DEF Single, Alive
    <2> QED BY <1>1, <2>1, <2>2, <2>3 DEF ChainInv, Seat, Chain
<1>3. CASE s \notin Cur
    <2>1. Cur' = Cur /\ timer' = timer
        BY <1>1, <1>3
    <2>2. Single' /\ Alive'
        BY <2>1 DEF ChainInv, Single, Alive
    <2> QED BY <1>1, <2>1, <2>2 DEF ChainInv, Seat, Chain
<1> QED BY <1>2, <1>3

\* A delivered answer, a failure and a timeout (pullPatch, run() after its
\* await): the chain goes on with a timer, an older request just ends.
LEMMA DeliverFailStep ==
    ASSUME ChainInv, NEW s \in Slots, Deliver(s) \/ Fail(s)
    PROVE  /\ ChainInv' /\ Seat' = Seat
           /\ \/ Chain = "asking" /\ Chain' = "waiting"
              \/ Chain' = Chain
<1>1. s \in Busy /\ page = "console" /\ UNCHANGED <<page, visible, srv>>
    BY DEF Deliver, Fail
<1>2. CASE Deliver(s)
    <2>1. PatchOk(con, reqs[s]) \in Console
        BY <1>1, <1>2, PatchTypes DEF Deliver, ChainInv
    <2>2. Finish(s, PatchOk(con, reqs[s]), reqs[s].ans.late)
        BY <1>2 DEF Deliver
    <2> QED BY <1>1, <2>1, <2>2, FinishStep
<1>3. CASE Fail(s)
    <2>1. PatchFail(con, reqs[s]) \in Console
        BY <1>1, PatchTypes DEF ChainInv
    <2>2. Finish(s, PatchFail(con, reqs[s]), TRUE)
        BY <1>3 DEF Fail
    <2> QED BY <1>1, <2>1, <2>2, FinishStep
<1> QED BY <1>2, <1>3

\* A new chain takes over: the tab comes back, or an answer is asked for.
LEMMA NewChain ==
    ASSUME Shape, NEW s \in Slots, NEW c \in Console, reqs' = Supersede(s, c),
           timer' = NoTimer, page' = "console", visible' \in BOOLEAN, c = con', UNCHANGED srv
    PROVE  ChainInv' /\ Chain' = "asking"
<1>1. Cur' = {s} /\ reqs' \in [Slots -> Request \cup {Free}]
    BY SupersedeLeavesOne
<1>2. Shape'
    BY <1>1 DEF Shape
<1>3. Single' /\ Alive'
    BY <1>1 DEF Single, Alive
<1> QED BY <1>1, <1>2, <1>3 DEF ChainInv, Chain

\* The tab becomes visible: a new chain, and no timer of an old one.
LEMMA ShowStep ==
    ASSUME ChainInv, NEW s \in Slots, Show(s)
    PROVE  ChainInv' /\ ~Seat /\ Seat' /\ Chain' = "asking"
<1>1. con \in Console /\ Shape
    BY DEF ChainInv, Shape
<1>2. /\ page' = "console" /\ visible' \in BOOLEAN /\ timer' = NoTimer
      /\ reqs' = Supersede(s, con) /\ con = con' /\ UNCHANGED srv
    BY DEF Show
<1>3. ChainInv' /\ Chain' = "asking"
    BY <1>1, <1>2, NewChain
<1> QED BY <1>3 DEF Show, Seat

\* Pull now and Retry: a new chain in place of the old one.
LEMMA PullNowStep ==
    ASSUME ChainInv, NEW s \in Slots, PullNow(s)
    PROVE  /\ ChainInv' /\ Seat' = Seat
           /\ \/ Seat /\ Chain # "none" /\ Chain' = "asking"
              \/ Chain' = Chain
<1>1. con \in Console /\ Shape
    BY DEF ChainInv, Shape
<1>2. Seat' = Seat
    BY DEF PullNow, Seat
<1>3. CASE visible
    <2>1. /\ page' = "console" /\ visible' \in BOOLEAN /\ timer' = NoTimer
          /\ reqs' = Supersede(s, con) /\ con = con' /\ UNCHANGED srv
        BY <1>3 DEF PullNow, ChainInv, Shape
    <2>2. ChainInv' /\ Chain' = "asking"
        BY <1>1, <2>1, NewChain
    <2>3. Seat /\ Chain # "none"
        BY <1>3 DEF PullNow, Seat, Chain, ChainInv, Alive
    <2> QED BY <1>2, <2>2, <2>3
<1>4. CASE ~visible
    <2>1. UNCHANGED <<page, visible, timer, reqs, con, srv>>
        BY <1>4 DEF PullNow
    <2>2. Shape' /\ Quiet
        BY <1>1, <2>1 DEF Shape, Quiet, Cur, Busy
    <2> QED BY <2>2, QuietKeeps
<1> QED BY <1>3, <1>4

\* The operator has logged in again: the page is loaded anew.
LEMMA LoginStep ==
    ASSUME ChainInv, Login
    PROVE  ChainInv' /\ ~Seat /\ Seat' /\ Chain' = "asking"
<1>1. Shape /\ timer = NoTimer
    BY DEF Login, ChainInv, Alive
<1>2. 1 \in Slots
    BY TimingAssumption DEF Slots
<1>3. BootState \in Console
    BY BootStateType
<1>4. /\ page' = "console" /\ visible' \in BOOLEAN /\ timer' = NoTimer
      /\ reqs' = Supersede(1, BootState) /\ BootState = con' /\ UNCHANGED srv
    BY <1>1 DEF Login, Shape
<1>5. ChainInv' /\ Chain' = "asking"
    BY <1>1, <1>2, <1>3, <1>4, NewChain
<1> QED BY <1>5 DEF Login, Seat

\* The session has ended: no chain is left.
LEMMA ExpireStep ==
    ASSUME ChainInv, NEW s \in Slots, Expire(s)
    PROVE  ChainInv' /\ ~Seat' /\ Chain' = "none"
<1>1. Busy' = {} /\ Cur' = {}
    BY FreeIsNot DEF Expire, Busy, Cur
<1>2. Shape'
    BY DEF Expire, ChainInv, Shape
<1>3. Single' /\ Alive'
    BY <1>1 DEF Expire, Single, Alive
<1> QED BY <1>1, <1>2, <1>3 DEF Expire, ChainInv, Seat, Chain

\* The tab is hidden: its timer is cleared, a request in flight may end.
LEMMA HideStep ==
    ASSUME ChainInv, Hide
    PROVE  /\ ChainInv' /\ Seat /\ ~Seat'
           /\ Chain' = IF Chain = "waiting" THEN "none" ELSE Chain
<1>1. Cur' = Cur /\ Busy' = Busy /\ timer' = NoTimer
    BY DEF Hide, Cur, Busy
<1>2. Shape'
    BY DEF Hide, ChainInv, Shape
<1>3. Single' /\ Alive'
    BY <1>1 DEF Hide, ChainInv, Single, Alive
<1>4. Chain' = IF Chain = "waiting" THEN "none" ELSE Chain
    BY <1>1 DEF Chain, ChainInv, Single
<1> QED BY <1>2, <1>3, <1>4 DEF ChainInv, Hide, Seat

\* The timer fires: a visible console asks, the chain of a hidden one ends.
LEMMA FireStep ==
    ASSUME ChainInv, Fire
    PROVE  /\ ChainInv' /\ Seat' = Seat /\ Chain = "waiting"
           /\ Chain' = IF Seat THEN "asking" ELSE "none"
<1>1. timer # NoTimer /\ timer' = NoTimer
    BY DEF Fire, NoTimer
<1>2. Cur = {} /\ Chain = "waiting"
    BY <1>1 DEF ChainInv, Single, Chain
<1>3. Seat' = Seat
    BY DEF Fire, Seat
<1>4. con \in Console
    BY DEF ChainInv, Shape
<1>5. CASE visible
    <2>1. PICK s \in Slots : reqs' = [reqs EXCEPT ![s] = NewRequest(con)]
        BY <1>5 DEF Fire
    <2>2. reqs' \in [Slots -> Request \cup {Free}]
        BY <1>4, <2>1, NewRequestType DEF ChainInv, Shape
    <2>3. Cur' = Cur \cup {s}
        BY <1>4, <2>1, NewRequestType DEF Cur, Busy, ChainInv, Shape
    <2>4. Shape'
        BY <1>1, <2>2 DEF Fire, ChainInv, Shape
    <2>5. Single' /\ Alive'
        BY <1>1, <1>2, <2>3 DEF Fire, Single, Alive
    <2> QED BY <1>2, <1>3, <1>5, <2>3, <2>4, <2>5 DEF ChainInv, Chain, Seat, Fire
<1>6. CASE ~visible
    <2>1. UNCHANGED <<reqs, page, visible, con, srv>>
        BY <1>6 DEF Fire
    <2>2. Shape'
        BY <1>1, <2>1 DEF ChainInv, Shape
    <2>3. Cur' = Cur /\ Busy' = Busy
        BY <2>1 DEF Cur, Busy
    <2>4. Single' /\ Alive'
        BY <1>1, <1>2, <1>6, <2>1, <2>3 DEF Single, Alive, ChainInv
    <2> QED BY <1>1, <1>2, <1>3, <1>6, <2>2, <2>3, <2>4 DEF ChainInv, Chain, Seat
<1> QED BY <1>5, <1>6

-----------------------------------------------------------------------------
(* Every step is one of PollLoop, or leaves its state alone.               *)

LoopStep == Loop!Next \/ (Seat' = Seat /\ Chain' = Chain)

\* Every step of the console, the server and the network keeps the invariant.
LEMMA ChainStep ==
    ASSUME ChainInv, Next
    PROVE  ChainInv' /\ LoopStep
<1>1. ASSUME NEW s \in Slots, Serve(s) PROVE ChainInv' /\ LoopStep
    BY <1>1, ServeQuiet, QuietKeeps DEF LoopStep
<1>2. ASSUME NEW s \in Slots, Deliver(s) \/ Fail(s) PROVE ChainInv' /\ LoopStep
    <2>1. /\ ChainInv' /\ Seat' = Seat
          /\ \/ Chain = "asking" /\ Chain' = "waiting"
             \/ Chain' = Chain
        BY <1>2, DeliverFailStep
    <2>2. Chain = "asking" /\ Chain' = "waiting" => Loop!Settle
        BY <2>1 DEF Loop!Settle, Seat, Chain
    <2> QED BY <2>1, <2>2 DEF LoopStep, Loop!Next
<1>3. ASSUME NEW s \in Slots, Expire(s) PROVE ChainInv' /\ LoopStep
    <2>1. ChainInv' /\ ~Seat' /\ Chain' = "none"
        BY <1>3, ExpireStep
    <2>2. Loop!Leave
        BY <2>1 DEF Loop!Leave, Seat, Chain
    <2> QED BY <2>1, <2>2 DEF LoopStep, Loop!Next
<1>4. ASSUME NEW s \in Slots, Show(s) PROVE ChainInv' /\ LoopStep
    <2>1. ChainInv' /\ ~Seat /\ Seat' /\ Chain' = "asking"
        BY <1>4, ShowStep
    <2>2. Loop!Open
        BY <2>1 DEF Loop!Open, Seat, Chain
    <2> QED BY <2>1, <2>2 DEF LoopStep, Loop!Next
<1>5. ASSUME NEW s \in Slots, PullNow(s) PROVE ChainInv' /\ LoopStep
    <2>1. /\ ChainInv' /\ Seat' = Seat
          /\ \/ Seat /\ Chain # "none" /\ Chain' = "asking"
             \/ Chain' = Chain
        BY <1>5, PullNowStep
    <2>2. Chain \in {"asking", "waiting", "none"}
        BY DEF Chain
    <2>3. Seat /\ Chain = "waiting" /\ Chain' = "asking" => Loop!Ask
        BY <2>1 DEF Loop!Ask, Seat, Chain
    <2> QED BY <2>1, <2>2, <2>3 DEF LoopStep, Loop!Next
<1>6. ASSUME Login PROVE ChainInv' /\ LoopStep
    <2>1. ChainInv' /\ ~Seat /\ Seat' /\ Chain' = "asking"
        BY <1>6, LoginStep
    <2>2. Loop!Open
        BY <2>1 DEF Loop!Open, Seat, Chain
    <2> QED BY <2>1, <2>2 DEF LoopStep, Loop!Next
<1>7. ASSUME Fire PROVE ChainInv' /\ LoopStep
    <2>1. /\ ChainInv' /\ Seat' = Seat /\ Chain = "waiting"
          /\ Chain' = IF Seat THEN "asking" ELSE "none"
        BY <1>7, FireStep
    <2>2. Seat => Loop!Ask
        BY <2>1 DEF Loop!Ask, Seat, Chain
    <2>3. ~Seat => Loop!Lapse
        BY <2>1 DEF Loop!Lapse, Seat, Chain
    <2> QED BY <2>1, <2>2, <2>3 DEF LoopStep, Loop!Next
<1>8. ASSUME Hide PROVE ChainInv' /\ LoopStep
    <2>1. /\ ChainInv' /\ Seat /\ ~Seat'
          /\ Chain' = IF Chain = "waiting" THEN "none" ELSE Chain
        BY <1>8, HideStep
    <2>2. Loop!Close
        BY <2>1 DEF Loop!Close, Seat, Chain
    <2> QED BY <2>1, <2>2 DEF LoopStep, Loop!Next
<1>9. ASSUME RetryPull \/ Tick \/ SaveEdit \/ Link \/ Publish PROVE ChainInv' /\ LoopStep
    BY <1>9, OthersQuiet, QuietKeeps DEF LoopStep
<1>10. ASSUME Elapse PROVE ChainInv' /\ LoopStep
    BY <1>10, ElapseQuiet, QuietKeeps DEF LoopStep
<1> QED BY <1>1, <1>2, <1>3, <1>4, <1>5, <1>6, <1>7, <1>8, <1>9, <1>10 DEF Next

\* So does a step that changes nothing.
LEMMA ChainStutter ==
    ASSUME ChainInv, UNCHANGED vars
    PROVE  ChainInv' /\ Seat' = Seat /\ Chain' = Chain
<1>1. UNCHANGED <<page, visible, timer, reqs, con, srv>>
    BY DEF vars
<1>2. Shape' /\ Quiet
    BY <1>1 DEF ChainInv, Shape, Quiet, Cur, Busy
<1> QED BY <1>2, QuietKeeps

\* The invariant of the poll chain.
LEMMA ChainInvariant == Spec => []ChainInv
<1>1. Init => ChainInv
    BY ChainInit
<1>2. ChainInv /\ [Next]_vars => ChainInv'
    BY ChainStep, ChainStutter
<1> QED BY <1>1, <1>2, PTL DEF Spec

-----------------------------------------------------------------------------
(* Theorems.                                                               *)

\* The generation guard of run() (app.js): however tab switches, retries and
\* late answers overlap, one chain polls.
THEOREM OneChainAlways == Spec => []OneChain
<1>1. ChainInv => OneChain
    <2> SUFFICES ASSUME ChainInv PROVE OneChain
        OBVIOUS
    <2>1. Cardinality(Cur) <= 1
        <3>1. CASE Cur = {}
            <4>1. Cardinality({}) = 0
                BY FS_EmptySet
            <4> QED BY <3>1, <4>1
        <3>2. CASE Cur # {}
            <4>1. PICK s \in Cur : TRUE
                BY <3>2
            <4>2. Cur = {s}
                BY <4>1 DEF ChainInv, Single
            <4>3. Cardinality({s}) = 1
                BY FS_Singleton
            <4> QED BY <4>2, <4>3
        <3> QED BY <3>1, <3>2
    <2> QED BY <2>1 DEF OneChain, ChainInv, Single
<1> QED BY <1>1, ChainInvariant, PTL

\* The chain of startPull (app.js) cannot die: the console on the screen has
\* a request in flight or a timer set, whatever the operator and the network do.
THEOREM LoopNeverIdle == Spec => []Loop!NeverIdle
<1>1. ChainInv => Loop!NeverIdle
    BY DEF ChainInv, Alive, Loop!NeverIdle
<1> QED BY <1>1, ChainInvariant, PTL

\* startPull with all its overlapping requests implements the loop of
\* PollLoop: the initial states are initial there, every step is one there.
THEOREM PollImplementsLoop == Spec => RefinesLoop
<1>1. Init => Loop!Init
    <2> SUFFICES ASSUME Init PROVE Loop!Init
        OBVIOUS
    <2>1. 1 \in Slots /\ con \in Console
        BY TimingAssumption, BootStateType DEF Slots, Init
    <2>2. Cur = IF visible THEN {1} ELSE {}
        BY <2>1, NewRequestType, FreeIsNot DEF Init, Cur, Busy
    <2> QED BY <2>2 DEF Init, Loop!Init
<1>2. ChainInv /\ [Next]_vars => [Loop!Next]_(Loop!loopVars)
    <2> SUFFICES ASSUME ChainInv, [Next]_vars PROVE [Loop!Next]_(Loop!loopVars)
        OBVIOUS
    <2>1. Seat' = Seat /\ Chain' = Chain => UNCHANGED Loop!loopVars
        BY DEF Seat, Chain, Loop!loopVars
    <2>2. CASE Next
        BY <2>1, <2>2, ChainStep DEF LoopStep
    <2>3. CASE UNCHANGED vars
        BY <2>1, <2>3, ChainStutter
    <2> QED BY <2>2, <2>3
<1> QED BY <1>1, <1>2, ChainInvariant, PTL DEF Spec, RefinesLoop, Loop!Spec

-----------------------------------------------------------------------------
(* The edit on the screen.                                                 *)

\* A held edit is on the device as an override that every request in flight
\* has read, or the fleet shown is the server's sample, which stays one.
EditInv ==
    /\ \A s \in Busy : reqs[s].ans.got => reqs[s].ans.sample = srv.sample
    /\ con.fleetSample => srv.sample
    /\ held # None =>
         \/ con.fleetSample
         \/ /\ con.val = held /\ con.edit = held
            /\ \A s \in Busy : reqs[s].seen.edit = held

\* mergeLocalWrites: every step keeps a saved edit on the screen, or on its way.
LEMMA EditStep ==
    ASSUME ChainInv, EditInv, Next
    PROVE  EditInv'
<1>1. ASSUME NEW s \in Slots, Serve(s) PROVE EditInv'
    <2>1. reqs[s] \in Request
        BY <1>1, FreeIsNot DEF ChainInv, Shape, Serve, Busy
    <2>2. \A q \in Slots \ {s} : reqs'[q] = reqs[q]
        BY <1>1 DEF Serve, ChainInv, Shape
    <2>3. reqs'[s].busy = TRUE /\ reqs'[s].seen = reqs[s].seen /\ reqs'[s].ans.sample = srv.sample
        BY <1>1, <2>1 DEF Serve, ChainInv, Shape, Request
    <2>4. Busy' = Busy
        BY <1>1, <2>2, <2>3, FreeIsNot DEF Serve, Busy
    <2>5. UNCHANGED <<srv, con, held>>
        BY <1>1 DEF Serve
    <2> QED BY <1>1, <2>2, <2>3, <2>4, <2>5 DEF EditInv, Busy, Serve
<1>2. ASSUME NEW s \in Slots, Deliver(s) PROVE EditInv'
    <2> DEFINE a == reqs[s].ans
               e == IF a.sample THEN None ELSE reqs[s].seen.edit
    <2>1. s \in Busy /\ a.got /\ a \in Answers /\ reqs[s].seen \in Seen
        <3>1. s \in Busy /\ a.got /\ reqs[s] \in Request
            BY <1>2, FreeIsNot DEF Deliver, ChainInv, Shape, Busy
        <3>2. a \in Answers \cup {NoAns} /\ reqs[s].seen \in Seen
            BY <3>1 DEF Request
        <3>3. a # NoAns
            BY <3>1 DEF NoAns
        <3> QED BY <3>1, <3>2, <3>3
    <2>2. \A q \in Slots : reqs'[q] = IF q = s THEN Free ELSE reqs[q]
        BY <1>2 DEF Deliver, Finish, ChainInv, Shape
    <2>3. Busy' = Busy \ {s}
        BY <2>2, FreeIsNot DEF Busy
    <2>4. /\ con'.val = MergeLocalWrites(e, a).val /\ con'.edit = MergeLocalWrites(e, a).edit
          /\ con'.fleetSample = a.sample
        BY <1>2 DEF Deliver, Finish, PatchOk, ChainInv, Shape, Console
    <2>5. UNCHANGED srv /\ held' = IF a.val = held THEN None ELSE held
        BY <1>2 DEF Deliver
    <2>6. a.sample = srv.sample
        BY <2>1 DEF EditInv
    <2>7. /\ \A q \in Busy' : reqs'[q].ans.got => reqs'[q].ans.sample = srv'.sample
          /\ con'.fleetSample => srv'.sample
        BY <2>2, <2>3, <2>4, <2>5, <2>6 DEF EditInv, Busy
    <2>8. ASSUME held' # None, ~con'.fleetSample
          PROVE  con'.val = held' /\ con'.edit = held' /\ \A q \in Busy' : reqs'[q].seen.edit = held'
        <3>1. held # None /\ a.val # held /\ held' = held /\ ~a.sample
            BY <2>4, <2>5, <2>8
        <3>2. ~con.fleetSample
            BY <2>6, <3>1 DEF EditInv
        <3>3. \A q \in Busy : reqs[q].seen.edit = held
            BY <3>1, <3>2 DEF EditInv
        <3>4. e = held
            BY <2>1, <3>1, <3>3
        <3>5. MergeLocalWrites(e, a) = [val |-> held, edit |-> held]
            BY <3>1, <3>4 DEF MergeLocalWrites
        <3> QED BY <2>2, <2>3, <2>4, <3>1, <3>3, <3>5 DEF Busy
    <2> QED BY <2>7, <2>8 DEF EditInv
<1>3. ASSUME NEW s \in Slots, Fail(s) PROVE EditInv'
    <2>1. \A q \in Slots : reqs'[q] = IF q = s THEN Free ELSE reqs[q]
        BY <1>3 DEF Fail, Finish, ChainInv, Shape
    <2>2. Busy' = Busy \ {s}
        BY <2>1, FreeIsNot DEF Busy
    <2>3. con'.val = con.val /\ con'.edit = con.edit /\ con'.fleetSample = con.fleetSample
        BY <1>3 DEF Fail, Finish, PatchFail, ChainInv, Shape, Console
    <2>4. UNCHANGED <<srv, held>>
        BY <1>3 DEF Fail
    <2> QED BY <2>1, <2>2, <2>3, <2>4 DEF EditInv, Busy
<1>4. ASSUME NEW s \in Slots, Expire(s) PROVE EditInv'
    <2>1. Busy' = {} /\ UNCHANGED <<con, srv, held>>
        BY <1>4, FreeIsNot DEF Expire, Busy
    <2> QED BY <2>1 DEF EditInv
<1>5. ASSUME NEW s \in Slots, reqs' = Supersede(s, con), UNCHANGED <<con, srv, held>> PROVE EditInv'
    <2>1. \A q \in Slots : reqs'[q] = IF q = s THEN NewRequest(con)
                                      ELSE IF reqs[q].busy THEN [reqs[q] EXCEPT !.cur = FALSE] ELSE Free
        BY <1>5 DEF Supersede
    <2>2. NewRequest(con).ans.got = FALSE /\ NewRequest(con).seen.edit = con.edit
        BY DEF NewRequest, NoAns
    <2>3. ASSUME NEW q \in Busy', q # s
          PROVE  q \in Busy /\ reqs'[q].ans = reqs[q].ans /\ reqs'[q].seen = reqs[q].seen
        <3>1. q \in Slots /\ reqs[q].busy
            BY <2>1, <2>3, FreeIsNot DEF Busy
        <3>2. reqs[q] \in Request
            BY <3>1, FreeIsNot DEF ChainInv, Shape
        <3> QED BY <2>1, <2>3, <3>1, <3>2 DEF Busy, Request
    <2>4. s \in Busy' => reqs'[s].ans.got = FALSE /\ reqs'[s].seen.edit = con.edit
        BY <2>1, <2>2
    <2> QED BY <1>5, <2>3, <2>4 DEF EditInv
<1>6. ASSUME NEW s \in Slots, Show(s) PROVE EditInv'
    BY <1>5, <1>6 DEF Show
<1>7. ASSUME NEW s \in Slots, PullNow(s) PROVE EditInv'
    <2>1. CASE visible
        BY <1>5, <1>7, <2>1 DEF PullNow
    <2>2. CASE ~visible
        BY <1>7, <2>2 DEF PullNow, EditInv, Busy
    <2> QED BY <2>1, <2>2
<1>8. ASSUME Login PROVE EditInv'
    <2>1. held' = None /\ con'.fleetSample = FALSE /\ Busy = {}
        BY <1>8 DEF Login, BootState, ChainInv, Alive
    <2>2. \A q \in Slots : ~reqs[q].busy
        BY <2>1 DEF Busy
    <2>3. \A q \in Slots : reqs'[q] = IF q = 1 THEN NewRequest(con') ELSE Free
        BY <1>8, <2>2 DEF Login, Supersede
    <2>4. \A q \in Busy' : reqs'[q].ans.got = FALSE
        <3>1. NewRequest(con').ans.got = FALSE
            BY DEF NewRequest, NoAns
        <3> QED BY <2>3, <3>1, FreeIsNot DEF Busy
    <2> QED BY <2>1, <2>4 DEF EditInv
<1>9. ASSUME Fire PROVE EditInv'
    <2>1. UNCHANGED <<con, srv, held>>
        BY <1>9 DEF Fire
    <2>2. CASE visible
        <3>1. PICK s \in Slots : reqs' = [reqs EXCEPT ![s] = NewRequest(con)]
            BY <1>9, <2>2 DEF Fire
        <3>2. \A q \in Slots : reqs'[q] = IF q = s THEN NewRequest(con) ELSE reqs[q]
            BY <3>1 DEF ChainInv, Shape
        <3>3. NewRequest(con).ans.got = FALSE /\ NewRequest(con).seen.edit = con.edit
            BY DEF NewRequest, NoAns
        <3> QED BY <2>1, <3>2, <3>3 DEF EditInv, Busy
    <2>3. CASE ~visible
        BY <1>9, <2>1, <2>3 DEF Fire, EditInv, Busy
    <2> QED BY <2>2, <2>3
<1>10. ASSUME SaveEdit PROVE EditInv'
    <2>1. /\ con'.val = srv.cfg + 1 /\ con'.edit = srv.cfg + 1 /\ con'.fleetSample = con.fleetSample
          /\ srv'.sample = srv.sample /\ UNCHANGED reqs
          /\ held' = IF Busy = {} THEN srv.cfg + 1 ELSE None
        BY <1>10 DEF SaveEdit, ChainInv, Shape, Console
    <2>2. Busy' = Busy
        BY <2>1 DEF Busy
    <2>3. CASE Busy = {}
        BY <2>1, <2>2, <2>3 DEF EditInv
    <2>4. CASE Busy # {}
        BY <2>1, <2>2, <2>4 DEF EditInv
    <2> QED BY <2>3, <2>4
<1>11. ASSUME Hide PROVE EditInv'
    BY <1>11 DEF Hide, EditInv, Busy
<1>12. ASSUME RetryPull \/ Tick PROVE EditInv'
    <2>1. con'.val = con.val /\ con'.edit = con.edit /\ con'.fleetSample = con.fleetSample
        BY <1>12 DEF RetryPull, Tick, ChainInv, Shape, Console
    <2>2. UNCHANGED <<reqs, srv, held>>
        BY <1>12 DEF RetryPull, Tick
    <2> QED BY <2>1, <2>2 DEF EditInv, Busy
<1>13. ASSUME Link \/ Publish PROVE EditInv'
    <2>1. srv'.sample = srv.sample /\ UNCHANGED <<reqs, con, held>>
        BY <1>13 DEF Link, Publish, ChainInv, Shape
    <2> QED BY <2>1 DEF EditInv, Busy
<1>14. ASSUME Elapse PROVE EditInv'
    <2>1. con'.val = con.val /\ con'.edit = con.edit /\ con'.fleetSample = con.fleetSample
        BY <1>14 DEF Elapse, ChainInv, Shape, Console
    <2>2. UNCHANGED <<srv, held>>
        BY <1>14 DEF Elapse
    <2>3. \A q \in Slots : reqs'[q] = IF q \in Busy THEN [reqs[q] EXCEPT !.age = @ + 1] ELSE Free
        BY <1>14 DEF Elapse
    <2>4. ASSUME NEW q \in Busy'
          PROVE  q \in Busy /\ reqs'[q].ans = reqs[q].ans /\ reqs'[q].seen = reqs[q].seen
        <3>1. q \in Busy
            BY <2>3, FreeIsNot DEF Busy
        <3>2. reqs[q] \in Request
            BY <3>1, FreeIsNot DEF ChainInv, Shape, Busy
        <3> QED BY <2>3, <3>1, <3>2 DEF Request, Busy
    <2> QED BY <2>1, <2>2, <2>4 DEF EditInv
<1> QED BY <1>1, <1>2, <1>3, <1>4, <1>6, <1>7, <1>8, <1>9, <1>10, <1>11, <1>12, <1>13, <1>14 DEF Next

\* mergeLocalWrites (data.js): an edit saved while no poll was in flight is on
\* the screen until the server shows it, whatever polls overlap or fail.
THEOREM EditStays == Spec => []EditHeld
<1>1. Init => EditInv
    <2> SUFFICES ASSUME Init PROVE EditInv
        OBVIOUS
    <2>1. held = None /\ con.fleetSample = FALSE
        BY DEF Init, BootState
    <2>2. \A q \in Busy : reqs[q].ans.got = FALSE
        <3>1. NewRequest(con).ans.got = FALSE
            BY DEF NewRequest, NoAns
        <3> QED BY <3>1, FreeIsNot DEF Init, Busy
    <2> QED BY <2>1, <2>2 DEF EditInv
<1>2. ChainInv /\ EditInv /\ [Next]_vars => EditInv'
    <2>1. EditInv /\ UNCHANGED vars => EditInv'
        BY DEF EditInv, Busy, vars
    <2> QED BY <2>1, EditStep
<1>3. EditInv => EditHeld
    BY DEF EditInv, EditHeld
<1> QED BY <1>1, <1>2, <1>3, ChainInvariant, PTL DEF Spec

(***************************************************************************)
(* Navigation.                                                             *)
(***************************************************************************)

\* What the store may hold, and what may stand in the history.
StateSet == [view : Keys, sel : Devices \cup {NoSel}, origin : Screens, tab : Tabs]
Sound(s) == s \in StateSet /\ (s.sel # NoSel => s.view = "detail")
Entries ==
    Addresses \cup {h \in [seg : Keys \cup {"logs"}, arg : Devices \cup {"", "stats"}] :
                        h.seg = "detail" => h.arg \in Devices \cup {""}}

NavTypes ==
    /\ hist \in Seq(Entries) /\ pos \in 1..Len(hist)
    /\ Sound(st)
    /\ want \in Keys /\ loads \in [Keys -> Nat]
    /\ mounted \in [key : Keys \cup {"none"}, real : BOOLEAN]

\* The screen asked for is that of the state; it is mounted or on its way.
Asked == want = st.view /\ (loads[want] = 0 => mounted.key = want)

\* Only the mounted screen is initialised.
Alone == live = IF mounted.real THEN {mounted.key} ELSE {}

NavInv == NavTypes /\ AddressIsState /\ Asked /\ Alone

-----------------------------------------------------------------------------
(* Addresses.                                                              *)

\* parseHash, case by case.
LEMMA ParseFacts ==
    ASSUME NEW h
    PROVE  /\ h.seg = "logs" => ParseHash(h) = Route("incidents", NoSel, "log")
           /\ h.seg = "incidents" =>
                ParseHash(h) = Route("incidents", NoSel, IF h.arg = "stats" THEN "stats" ELSE "cards")
           /\ h.seg = "detail" /\ h.arg # "" => ParseHash(h) = Route("detail", h.arg, "")
           /\ h.seg = "detail" /\ h.arg = "" => ParseHash(h) = Route("overview", NoSel, "")
           /\ h.seg \in Screens \ {"incidents"} => ParseHash(h) = Route(h.seg, NoSel, "")
<1>1. CASE h.seg = "logs"
    BY <1>1, NavAssumption DEF ParseHash
<1>2. CASE h.seg = "incidents"
    BY <1>2, NavAssumption DEF ParseHash
<1>3. CASE h.seg = "detail"
    BY <1>3, NavAssumption DEF ParseHash
<1>4. CASE h.seg \in Screens \ {"incidents"}
    <2>1. h.seg # "logs" /\ h.seg # "incidents" /\ h.seg # "detail"
        BY <1>4, NavAssumption
    <2> QED BY <1>4, <2>1 DEF ParseHash
<1> QED BY <1>1, <1>2, <1>3, <1>4

\* An address the console writes may stand in the history.
LEMMA WrittenEntries ==
    ASSUME NEW seg \in Keys \cup {"logs"}, NEW arg \in Devices \cup {"", "stats"},
           seg = "detail" => arg \in Devices \cup {""}
    PROVE  /\ Hash(seg, arg) \in Entries
           /\ Hash(seg, arg).seg = seg /\ Hash(seg, arg).arg = arg
BY DEF Hash, Entries

\* An address describes the state that its route has the fields of.
LEMMA DescribedBy ==
    ASSUME NEW h, NEW s, NEW v, NEW d, NEW x, ParseHash(h) = Route(v, d, x),
           s.view = v, s.sel = d, x # "" => s.tab = x, ~Unselected(s)
    PROVE  Describes(h, s)
<1>1. ParseHash(h).view = v /\ ParseHash(h).sel = d /\ ParseHash(h).tab = x
    <2>1. Route(v, d, x).view = v /\ Route(v, d, x).sel = d /\ Route(v, d, x).tab = x
        BY DEF Route
    <2> QED BY <2>1
<1> QED BY <1>1 DEF Describes

\* parseHash undoes hashOf: the address of a state leads back to it.
LEMMA RoundTrip ==
    ASSUME NEW s, Sound(s)
    PROVE  HashOf(s) \in Entries /\ Describes(HashOf(s), s)
<1>1. /\ s.view \in Keys /\ s.sel \in Devices \cup {NoSel} /\ s.tab \in Tabs
      /\ s.sel # NoSel => s.view = "detail"
    BY DEF Sound, StateSet
<1>0. CASE Unselected(s)
    <2> DEFINE h == Hash("detail", "")
    <2>1. HashOf(s) = h
        BY <1>0 DEF HashOf, Unselected
    <2>2. "detail" \in Keys
        BY DEF Keys
    <2>3. h \in Entries /\ h.seg = "detail" /\ h.arg = ""
        BY <2>2, WrittenEntries
    <2> HIDE DEF h
    <2>4. ParseHash(h).tab = ""
        <3>1. ParseHash(h) = Route("overview", NoSel, "")
            BY <2>3, ParseFacts
        <3>2. Route("overview", NoSel, "").tab = ""
            BY DEF Route
        <3> QED BY <3>1, <3>2
    <2>5. Describes(h, s)
        BY <1>0, <2>1, <2>4 DEF Describes
    <2> QED BY <2>1, <2>3, <2>5
<1>2. CASE s.view = "detail" /\ s.sel # NoSel
    <2>1. HashOf(s) = Hash("detail", s.sel) /\ s.sel \in Devices /\ s.sel # ""
        BY <1>1, <1>2, NavAssumption DEF HashOf
    <2> DEFINE h == Hash("detail", s.sel)
    <2>2. "detail" \in Keys
        BY DEF Keys
    <2>3. h \in Entries /\ h.seg = "detail" /\ h.arg = s.sel
        BY <2>1, <2>2, WrittenEntries
    <2>4. ParseHash(h) = Route("detail", s.sel, "")
        BY <2>1, <2>3, ParseFacts
    <2>5. Describes(h, s)
        BY <1>2, <2>4, DescribedBy DEF Unselected
    <2> QED BY <2>1, <2>3, <2>5
<1>3. CASE s.view = "incidents"
    <2>1. s.sel = NoSel
        BY <1>1, <1>3
    <2>2. CASE s.tab = "log"
        <3> DEFINE h == Hash("logs", "")
        <3>1. HashOf(s) = h
            BY <1>3, <2>2 DEF HashOf
        <3>2. h \in Entries /\ h.seg = "logs"
            BY WrittenEntries
        <3>3. ParseHash(h) = Route("incidents", NoSel, "log")
            BY <3>2, ParseFacts
        <3>4. Describes(h, s)
            BY <1>3, <2>1, <2>2, <3>3, DescribedBy DEF Unselected
        <3> QED BY <3>1, <3>2, <3>4
    <2>3. CASE s.tab = "stats"
        <3> DEFINE h == Hash("incidents", "stats")
        <3>1. HashOf(s) = h
            BY <1>3, <2>3 DEF HashOf
        <3>2. h \in Entries /\ h.seg = "incidents" /\ h.arg = "stats"
            BY <1>1, <1>3, WrittenEntries
        <3>3. ParseHash(h) = Route("incidents", NoSel, "stats")
            BY <3>2, ParseFacts
        <3>4. Describes(h, s)
            BY <1>3, <2>1, <2>3, <3>3, DescribedBy DEF Unselected
        <3> QED BY <3>1, <3>2, <3>4
    <2>4. CASE s.tab = "cards"
        <3> DEFINE h == Hash("incidents", "")
        <3>1. HashOf(s) = h
            BY <1>3, <2>4 DEF HashOf
        <3>2. h \in Entries /\ h.seg = "incidents" /\ h.arg = ""
            BY <1>1, <1>3, WrittenEntries
        <3>3. ParseHash(h) = Route("incidents", NoSel, "cards")
            BY <3>2, ParseFacts
        <3>4. Describes(h, s)
            BY <1>3, <2>1, <2>4, <3>3, DescribedBy DEF Unselected
        <3> QED BY <3>1, <3>2, <3>4
    <2> QED BY <1>1, <2>2, <2>3, <2>4 DEF Tabs
<1>4. CASE s.view \in Screens \ {"incidents"}
    <2> DEFINE h == Hash(s.view, "")
    <2>1. s.view # "detail" /\ s.sel = NoSel
        BY <1>1, <1>4, NavAssumption
    <2>2. HashOf(s) = h
        BY <1>4, <2>1 DEF HashOf
    <2>3. h \in Entries /\ h.seg = s.view
        BY <1>1, <2>1, WrittenEntries
    <2>4. ParseHash(h) = Route(s.view, NoSel, "")
        BY <1>4, <2>3, ParseFacts
    <2>5. Describes(h, s)
        BY <2>1, <2>4, DescribedBy DEF Unselected
    <2> QED BY <2>2, <2>3, <2>5
<1> QED BY <1>0, <1>1, <1>2, <1>3, <1>4 DEF Keys, Unselected

\* Every address leads to a sound state, also one that is unknown or redirected.
LEMMA ApplySound ==
    ASSUME NEW h \in Entries, NEW ready, NEW ids, NEW s, Sound(s)
    PROVE  LET r == ResolveRoute(ParseHash(h), ready, ids) IN
           /\ Sound(Apply(s, r)) /\ ~Unselected(Apply(s, r))
           /\ <<r.view, r.sel>> = <<ParseHash(h).view, ParseHash(h).sel>> => Describes(h, Apply(s, r))
<1> DEFINE p == ParseHash(h)
           r == ResolveRoute(p, ready, ids)
           a == Apply(s, r)
<1>1. h.seg = "detail" => h.arg \in Devices \cup {""}
    BY NavAssumption DEF Entries
<1>2. \/ p \in [view : {"detail"}, sel : Devices, tab : {""}]
      \/ p \in [view : Screens, sel : {NoSel}, tab : Tabs \cup {""}]
    BY <1>1, NavAssumption DEF ParseHash, Route, Tabs
<1>3. r = p \/ (r = [view |-> "overview", sel |-> NoSel, tab |-> ""] /\ p.view = "detail")
    BY DEF ResolveRoute, Route
<1>4. \/ r \in [view : {"detail"}, sel : Devices, tab : {""}]
      \/ r \in [view : Screens, sel : {NoSel}, tab : Tabs \cup {""}]
    <2> HIDE DEF p, r
    <2>1. [view |-> "overview", sel |-> NoSel, tab |-> ""] \in [view : Screens, sel : {NoSel}, tab : Tabs \cup {""}]
        BY NavAssumption
    <2> QED BY <1>2, <1>3, <2>1
<1>5. Sound(a) /\ ~Unselected(a)
    BY <1>4, NavAssumption DEF Sound, StateSet, Apply, Keys, NoSel, Unselected
<1>6. r = p => Describes(h, a)
    BY <1>5 DEF Describes, Apply
<1>7. r # p => r.view # p.view
    <2>1. SUFFICES ASSUME r # p PROVE r.view # p.view
        OBVIOUS
    <2>2. r = [view |-> "overview", sel |-> NoSel, tab |-> ""] /\ p.view = "detail"
        BY <1>3, <2>1
    <2>3. r.view = "overview"
        <3> HIDE DEF r
        <3> QED BY <2>2
    <2> QED BY <2>2, <2>3
<1> HIDE DEF p, r
<1>8. <<r.view, r.sel>> = <<p.view, p.sel>> => r.view = p.view
    OBVIOUS
<1>9. <<r.view, r.sel>> = <<p.view, p.sel>> => Describes(h, a)
    BY <1>6, <1>7, <1>8
<1> QED BY <1>5, <1>9 DEF p, r

-----------------------------------------------------------------------------
(* The history and the screens.                                            *)

\* A new entry ends the history, whose entries up to here stay.
LEMMA Pushed ==
    ASSUME hist \in Seq(Entries), pos \in 1..Len(hist), NEW h \in Entries
    PROVE  LET w == Append(SubSeq(hist, 1, pos), h) IN
           w \in Seq(Entries) /\ Len(w) = pos + 1 /\ w[pos + 1] = h
<1> DEFINE u == SubSeq(hist, 1, pos)
<1>1. u \in Seq(Entries) /\ Len(u) = pos
    BY SubSeqProperties
<1> HIDE DEF u
<1>2. Append(u, h) \in Seq(Entries) /\ Len(Append(u, h)) = pos + 1 /\ Append(u, h)[pos + 1] = h
    BY <1>1, AppendProperties
<1> QED BY <1>2 DEF u

\* After syncHash the address is that of the state.
LEMMA Synced ==
    ASSUME hist \in Seq(Entries), pos \in 1..Len(hist), NEW s, Sound(s), SyncHash(s)
    PROVE  /\ hist' \in Seq(Entries) /\ pos' \in 1..Len(hist')
           /\ Describes(hist'[pos'], s)
<1>1. HashOf(s) \in Entries /\ Describes(HashOf(s), s)
    BY RoundTrip
<1>2. CASE hist[pos] = HashOf(s)
    BY <1>1, <1>2 DEF SyncHash
<1>3. CASE hist[pos] # HashOf(s)
    <2>1. hist' = Append(SubSeq(hist, 1, pos), HashOf(s)) /\ pos' = pos + 1
        BY <1>3 DEF SyncHash
    <2>2. hist' \in Seq(Entries) /\ Len(hist') = pos + 1 /\ hist'[pos + 1] = HashOf(s)
        BY <1>1, <2>1, Pushed
    <2> QED BY <1>1, <2>1, <2>2
<1> QED BY <1>2, <1>3

\* The screen a render asks for is mounted, or it is on its way.
LEMMA AskedFor ==
    ASSUME want \in Keys, loads \in [Keys -> Nat], loads[want] = 0 => mounted.key = want,
           NEW v \in Keys, AskFor(v), mounted' = mounted
    PROVE  /\ want' = v /\ loads' \in [Keys -> Nat]
           /\ loads'[want'] = 0 => mounted'.key = want'
<1>1. CASE v = want
    BY <1>1 DEF AskFor
<1>2. CASE v # want
    BY <1>2 DEF AskFor
<1> QED BY <1>1, <1>2

\* setState keeps the invariant, whatever the sound state it sets.
LEMMA SetStateKeeps ==
    ASSUME NavInv, NEW s, Sound(s), st' = s, SyncHash(s), AskFor(s.view),
           mounted' = mounted, live' = live
    PROVE  NavInv'
<1>1. s.view \in Keys
    BY DEF Sound, StateSet
<1>2. /\ hist' \in Seq(Entries) /\ pos' \in 1..Len(hist') /\ Describes(hist'[pos'], s)
    BY <1>1, Synced DEF NavInv, NavTypes
<1>3. /\ want' = s.view /\ loads' \in [Keys -> Nat]
      /\ loads'[want'] = 0 => mounted'.key = want'
    BY <1>1, AskedFor DEF NavInv, NavTypes, Asked
<1>4. NavTypes'
    BY <1>1, <1>2, <1>3 DEF NavInv, NavTypes
<1>5. AddressIsState'
    BY <1>2 DEF AddressIsState
<1>6. Asked' /\ Alone'
    BY <1>1, <1>3 DEF NavInv, Asked, Alone
<1> QED BY <1>4, <1>5, <1>6 DEF NavInv

\* So does applyHash, also where it corrects the address it was given.
LEMMA ApplyHashKeeps ==
    ASSUME NavInv, NEW w \in Seq(Entries), NEW p \in 1..Len(w), NEW ready, NEW ids,
           ApplyHash(w, p, ready, ids), mounted' = mounted, live' = live
    PROVE  NavInv'
<1> DEFINE parsed == ParseHash(w[p])
           r == ResolveRoute(parsed, ready, ids)
           s == Apply(st, r)
<1>1. w[p] \in Entries
    BY ElementOfSeq
<1>2. /\ Sound(s) /\ ~Unselected(s)
      /\ <<r.view, r.sel>> = <<parsed.view, parsed.sel>> => Describes(w[p], s)
    BY <1>1, ApplySound DEF NavInv, NavTypes
<1>3. /\ st' = IF <<s.view, s.sel, s.tab>> = <<st.view, st.sel, st.tab>> THEN st ELSE s
      /\ hist' = IF <<r.view, r.sel>> # <<parsed.view, parsed.sel>>
                 THEN [w EXCEPT ![p] = HashOf(s)] ELSE w
      /\ pos' = p /\ AskFor(st'.view)
    BY DEF ApplyHash
<1> HIDE DEF parsed, r, s
<1>4. /\ Sound(st') /\ st'.view \in Keys
      /\ st'.view = s.view /\ st'.sel = s.sel /\ st'.tab = s.tab
    BY <1>2, <1>3 DEF NavInv, NavTypes, Sound, StateSet
<1>5. hist' \in Seq(Entries) /\ pos' \in 1..Len(hist') /\ Describes(hist'[pos'], s)
    <2>1. CASE <<r.view, r.sel>> = <<parsed.view, parsed.sel>>
        BY <1>2, <1>3, <2>1
    <2>2. CASE <<r.view, r.sel>> # <<parsed.view, parsed.sel>>
        <3>1. HashOf(s) \in Entries /\ Describes(HashOf(s), s)
            BY <1>2, RoundTrip
        <3>2. hist' = [w EXCEPT ![p] = HashOf(s)]
            BY <1>3, <2>2
        <3>3. hist' \in Seq(Entries) /\ Len(hist') = Len(w) /\ hist'[p] = HashOf(s)
            BY <3>1, <3>2, ExceptSeq
        <3> QED BY <1>3, <3>1, <3>3
    <2> QED BY <2>1, <2>2
<1>6. /\ want' = st'.view /\ loads' \in [Keys -> Nat]
      /\ loads'[want'] = 0 => mounted'.key = want'
    BY <1>3, <1>4, AskedFor DEF NavInv, NavTypes, Asked
<1>7. NavTypes'
    BY <1>4, <1>5, <1>6 DEF NavInv, NavTypes
<1>8. AddressIsState'
    BY <1>2, <1>4, <1>5 DEF AddressIsState, Describes, Unselected
<1>9. Asked' /\ Alone'
    BY <1>6 DEF NavInv, Asked, Alone
<1> QED BY <1>7, <1>8, <1>9 DEF NavInv

\* A render that only writes the address keeps it as well.
LEMMA SyncKeeps ==
    ASSUME NavInv, SyncHash(st), UNCHANGED <<st, mounted, live>>, want' = st.view,
           loads' \in [Keys -> Nat], loads'[want'] = 0 => mounted.key = want'
    PROVE  NavInv'
<1>1. Sound(st) /\ st.view \in Keys
    BY DEF NavInv, NavTypes, Sound, StateSet
<1>2. /\ hist' \in Seq(Entries) /\ pos' \in 1..Len(hist') /\ Describes(hist'[pos'], st)
    BY <1>1, Synced DEF NavInv, NavTypes
<1>3. NavTypes'
    BY <1>1, <1>2 DEF NavInv, NavTypes
<1>4. AddressIsState'
    BY <1>2 DEF AddressIsState
<1>5. Asked' /\ Alone'
    BY DEF NavInv, Asked, Alone
<1> QED BY <1>3, <1>4, <1>5 DEF NavInv

-----------------------------------------------------------------------------
(* The steps.                                                              *)

\* Whatever the address the console is opened with, it starts in order.
LEMMA NavStarts == NavInit => NavInv
<1> SUFFICES ASSUME NEW a \in Addresses, Boot(a) PROVE NavInv
    BY DEF NavInit
<1> DEFINE s0 == [view |-> "overview", sel |-> NoSel, origin |-> "overview", tab |-> "cards"]
           r == ParseHash(a)
           s == Apply(s0, r)
<1>1. Sound(s0)
    BY NavAssumption DEF Sound, StateSet, Keys, Tabs, NoSel
<1>2. a \in Entries
    BY DEF Entries
<1>3. ResolveRoute(r, FALSE, {}) = r
    BY DEF ResolveRoute
<1>4. Sound(s) /\ Describes(a, s)
    <2> HIDE DEF s0
    <2> QED BY <1>1, <1>2, <1>3, ApplySound
<1>5. HashOf(s) \in Entries /\ Describes(HashOf(s), s)
    BY <1>4, RoundTrip
<1>6. /\ st = s
      /\ hist = IF a = HashOf(s) THEN <<a>> ELSE <<a, HashOf(s)>>
      /\ pos = Len(hist)
      /\ want = s.view /\ loads = [k \in Keys |-> IF k = s.view THEN 1 ELSE 0]
      /\ mounted = [key |-> "none", real |-> FALSE] /\ live = {}
    BY DEF Boot
<1> HIDE DEF s
<1>7. hist \in Seq(Entries) /\ pos \in 1..Len(hist) /\ hist[pos] \in {a, HashOf(s)}
    <2>1. CASE a = HashOf(s)
        BY <1>2, <1>6, <2>1
    <2>2. CASE a # HashOf(s)
        BY <1>2, <1>5, <1>6, <2>2
    <2> QED BY <2>1, <2>2
<1>8. Describes(hist[pos], st)
    BY <1>4, <1>5, <1>6, <1>7
<1>9. s.view \in Keys
    BY <1>4 DEF Sound, StateSet
<1>10. NavTypes
    BY <1>4, <1>6, <1>7, <1>9 DEF NavTypes
<1>11. AddressIsState
    BY <1>8 DEF AddressIsState
<1>12. Asked /\ Alone
    BY <1>6, <1>9 DEF Asked, Alone
<1> QED BY <1>10, <1>11, <1>12 DEF NavInv

\* A load that ends mounts the screen that is wanted and no other.
LEMMA LoadedKeeps ==
    ASSUME NavInv, NEW k \in Keys, NEW o, Loaded(k, o)
    PROVE  NavInv'
<1>1. /\ loads[k] > 0 /\ loads' = [loads EXCEPT ![k] = @ - 1] /\ UNCHANGED <<hist, pos, st, want>>
      /\ loads \in [Keys -> Nat] /\ want \in Keys
    BY DEF Loaded, NavInv, NavTypes
<1>2. loads' \in [Keys -> Nat]
    BY <1>1
<1>3. AddressIsState'
    BY <1>1 DEF NavInv, AddressIsState
<1>4. CASE want # k
    <2>1. mounted' = mounted /\ live' = live /\ loads'[want] = loads[want]
        BY <1>1, <1>4 DEF Loaded
    <2> QED BY <1>1, <1>2, <1>3, <2>1 DEF NavInv, NavTypes, Asked, Alone
<1>5. CASE want = k
    <2> DEFINE real == o \notin {"import", "init"}
    <2>1. /\ mounted' = [key |-> k, real |-> real]
          /\ live' = (IF mounted.real THEN live \ {mounted.key} ELSE live)
                        \cup (IF real THEN {k} ELSE {})
        BY <1>5 DEF Loaded
    <2>2. real \in BOOLEAN
        OBVIOUS
    <2> HIDE DEF real
    <2>3. mounted'.key = k /\ (mounted'.real <=> real)
        BY <2>1
    <2>4. (IF mounted.real THEN live \ {mounted.key} ELSE live) = {}
        BY DEF NavInv, Alone
    <2>5. Alone'
        BY <2>1, <2>3, <2>4 DEF Alone
    <2>6. Asked'
        BY <1>1, <1>5, <2>3 DEF NavInv, Asked
    <2>7. NavTypes'
        BY <1>1, <1>2, <2>1, <2>2 DEF NavInv, NavTypes
    <2> QED BY <1>3, <2>5, <2>6, <2>7 DEF NavInv
<1> QED BY <1>4, <1>5

\* Everything the operator does goes through setState.
LEMMA MovesKeep ==
    ASSUME NavInv,
           \/ GoBack \/ Bell \/ (\E k \in Screens : GoView(k))
           \/ (\E d \in Devices : GoDetail(d)) \/ (\E t \in Tabs : SetTab(t))
    PROVE  NavInv'
<1>1. /\ st \in StateSet /\ (st.sel # NoSel => st.view = "detail")
      /\ st.origin \in Screens /\ st.view \in Keys
    BY DEF NavInv, NavTypes, Sound, StateSet
<1>2. ASSUME NEW s, Sound(s), SetState(s) PROVE NavInv'
    BY <1>2, SetStateKeeps DEF SetState
<1>3. CASE GoBack
    <2>1. Sound([st EXCEPT !.view = st.origin, !.sel = NoSel])
        BY <1>1, NavAssumption DEF Sound, StateSet, Keys
    <2> QED BY <1>2, <1>3, <2>1 DEF GoBack
<1>4. CASE Bell
    <2>1. "incidents" \in Screens /\ "incidents" \in Keys /\ "cards" \in Tabs
        BY NavAssumption DEF Keys, Tabs
    <2>2. CASE st.view = "incidents"
        <3>1. Sound([st EXCEPT !.tab = "cards", !.origin = "incidents"])
            BY <1>1, <2>1 DEF Sound, StateSet
        <3> QED BY <1>2, <1>4, <2>2, <3>1 DEF Bell
    <2>3. CASE st.view # "incidents"
        <3>1. Sound([view |-> "incidents", sel |-> NoSel, origin |-> "incidents", tab |-> "cards"])
            BY <2>1 DEF Sound, StateSet
        <3> QED BY <1>2, <1>4, <2>3, <3>1 DEF Bell
    <2> QED BY <2>2, <2>3
<1>5. CASE \E k \in Screens : GoView(k)
    <2>1. PICK k \in Screens : GoView(k)
        BY <1>5
    <2>2. Sound([st EXCEPT !.view = k, !.sel = NoSel, !.origin = k])
        BY <1>1, NavAssumption DEF Sound, StateSet, Keys
    <2> QED BY <1>2, <2>1, <2>2 DEF GoView
<1>6. CASE \E d \in Devices : GoDetail(d)
    <2>1. PICK d \in Devices : GoDetail(d)
        BY <1>6
    <2>2. st.view # "detail" => st.view \in Screens
        BY <1>1 DEF Keys
    <2> DEFINE s == [st EXCEPT !.view = "detail", !.sel = d,
                               !.origin = IF st.view = "detail" THEN @ ELSE st.view]
    <2>3. Sound(s)
        BY <1>1, <2>2, NavAssumption DEF Sound, StateSet, Keys, NoSel
    <2>4. SetState(s)
        BY <2>1 DEF GoDetail
    <2> HIDE DEF s
    <2> QED BY <1>2, <2>3, <2>4
<1>7. CASE \E t \in Tabs : SetTab(t)
    <2>1. PICK t \in Tabs : SetTab(t)
        BY <1>7
    <2>2. Sound([st EXCEPT !.tab = t])
        BY <1>1 DEF Sound, StateSet
    <2> QED BY <1>2, <2>1, <2>2 DEF SetTab
<1> QED BY <1>3, <1>4, <1>5, <1>6, <1>7

\* The invariant survives every step.
LEMMA NavKeeps == NavInv /\ [NavNext]_navVars => NavInv'
<1> SUFFICES ASSUME NavInv, [NavNext]_navVars PROVE NavInv'
    OBVIOUS
<1>0. /\ hist \in Seq(Entries) /\ pos \in 1..Len(hist) /\ loads \in [Keys -> Nat]
      /\ st.view \in Keys /\ want = st.view
      /\ loads[want] = 0 => mounted.key = want
    BY DEF NavInv, NavTypes, Sound, StateSet, Asked
<1>1. CASE \E k \in Keys : \E o \in {"ok", "import", "init", "render"} : Loaded(k, o)
    BY <1>1, LoadedKeeps
<1>2. CASE RenderFails
    BY <1>2 DEF RenderFails, NavInv, NavTypes, AddressIsState, Asked, Alone
<1>3. CASE Retry
    <2>1. /\ SyncHash(st) /\ UNCHANGED <<st, mounted, live>> /\ want' = st.view
          /\ loads' = [loads EXCEPT ![st.view] = @ + 1]
        BY <1>3 DEF Retry
    <2>2. loads' \in [Keys -> Nat] /\ loads'[want'] # 0
        BY <1>0, <2>1
    <2> QED BY <2>1, <2>2, SyncKeeps
<1>4. CASE Dismiss
    BY <1>0, <1>4, SyncKeeps DEF Dismiss
<1>5. CASE Render
    BY <1>0, <1>5, SyncKeeps DEF Render, shown
<1>6. CASE \E p \in 1..MaxHist : Travel(p)
    <2>1. PICK p \in 1..MaxHist : Travel(p)
        BY <1>6
    <2>2. p \in 1..Len(hist) /\ ApplyHash(hist, p, settled, fleet) /\ mounted' = mounted /\ live' = live
        BY <2>1 DEF Travel
    <2> QED BY <1>0, <2>2, ApplyHashKeeps
<1>7. CASE \E a \in Addresses : Enter(a)
    <2>1. PICK a \in Addresses : Enter(a)
        BY <1>7
    <2> DEFINE w == Append(SubSeq(hist, 1, pos), a)
    <2>2. ApplyHash(w, pos + 1, settled, fleet) /\ mounted' = mounted /\ live' = live
        BY <2>1 DEF Enter
    <2>3. w \in Seq(Entries) /\ Len(w) = pos + 1
        BY <1>0, Pushed DEF Entries
    <2> HIDE DEF w
    <2>4. pos + 1 \in 1..Len(w)
        BY <1>0, <2>3
    <2> QED BY <2>2, <2>3, <2>4, ApplyHashKeeps
<1>8. CASE \E ids \in SUBSET Devices : PullEnds(ids)
    <2>1. PICK ids \in SUBSET Devices : PullEnds(ids)
        BY <1>8
    <2>2. mounted' = mounted /\ live' = live
        BY <2>1 DEF PullEnds
    <2>3. CASE settled
        <3>1. SyncHash(st) /\ UNCHANGED <<st, want, loads>>
            BY <2>1, <2>3 DEF PullEnds
        <3> QED BY <1>0, <2>2, <3>1, SyncKeeps
    <2>4. CASE ~settled
        <3>1. ApplyHash(hist, pos, TRUE, ids)
            BY <2>1, <2>4 DEF PullEnds
        <3> QED BY <1>0, <2>2, <3>1, ApplyHashKeeps
    <2> QED BY <2>3, <2>4
<1>10. CASE \E d \in Devices : DeviceDeleted(d)
    <2>1. PICK d \in Devices : DeviceDeleted(d)
        BY <1>10
    <2> DEFINE s == IF st.sel = d THEN [st EXCEPT !.sel = NoSel] ELSE st
    <2>2. Sound(s)
        BY DEF NavInv, NavTypes, Sound, StateSet
    <2>3. /\ st' = s /\ mounted' = mounted /\ live' = live
          /\ SyncHash(st') /\ AskFor(st'.view)
        BY <2>1 DEF DeviceDeleted
    <2> HIDE DEF s
    <2>4. SyncHash(s) /\ AskFor(s.view)
        BY <2>3
    <2> QED BY <2>2, <2>3, <2>4, SetStateKeeps
<1>9. CASE UNCHANGED navVars
    BY <1>9 DEF navVars, NavInv, NavTypes, AddressIsState, Asked, Alone
<1> QED BY <1>1, <1>2, <1>3, <1>4, <1>5, <1>6, <1>7, <1>8, <1>9, <1>10, MovesKeep DEF NavNext

\* Whatever is typed, clicked, redirected, loaded, overtaken and retried, the
\* address describes the state, and with no load in flight the screen of the
\* state is mounted and no other is alive.
THEOREM AddressAlwaysHolds == NavSpec => []AddressHolds
<1>1. NavInv => AddressHolds
    BY DEF NavInv, NavTypes, Asked, Alone, AddressHolds, MountedIsCurrent
<1> QED BY <1>1, NavStarts, NavKeeps, PTL DEF NavSpec

-----------------------------------------------------------------------------
(***************************************************************************)
(* The detail page at work.                                                *)
(***************************************************************************)

Fields == {"site", "rep", "sel", "sig", "cards", "base", "rows", "orders", "last", "dlg", "typed", "busy",
           "badge", "bound", "draft", "focus", "notes", "posts", "sent"}

\* A request that was made: what it was for, and what was on screen.
TrueTo(s) ==
    /\ s.q.dev = s.dlg.dev /\ s.q.dev = s.shown /\ s.q.target = s.dlg.target /\ s.gate
    /\ s.q.act \in Destructive => s.typed

\* The badge, the note's field and the device it is bound to belong to the
\* device rendered last, the notes and the requests to theirs.
Page(c) ==
    /\ DOMAIN c = Fields
    /\ c.sel \in DevIds(c.site) \cup {0} /\ DOMAIN c.notes = DevIds(c.site)
    /\ c.badge \in {0, c.last.id} /\ c.bound \in {0, c.last.id} /\ c.draft \in {0, c.bound}
    /\ \A d \in DOMAIN c.notes : c.notes[d] \in {0, d}
    /\ \A i \in DOMAIN c.sent : TrueTo(c.sent[i])

PageInv == Page(ctl)

\* What a step leaves alone that changes none of this.
Same(c, e) ==
    /\ DOMAIN e = DOMAIN c /\ e.site = c.site /\ e.sel = c.sel /\ e.last = c.last /\ e.badge = c.badge
    /\ e.bound = c.bound /\ e.draft = c.draft /\ e.notes = c.notes /\ e.sent = c.sent

\* Such a step keeps the page in order.
LEMMA SamePage ==
    ASSUME NEW c, NEW e, Page(c), Same(c, e)
    PROVE  Page(e)
BY DEF Page, Same

\* buildDetail is about the device that was asked for.
LEMMA BuiltIsAsked ==
    ASSUME NEW rep, NEW id, BuildDetail(rep, id) # NoDev
    PROVE  BuildDetail(rep, id).id = id
<1> DEFINE d == DeviceOf(rep.fleet, id)
<1>1. d # NoDev
    BY DEF BuildDetail
<1>2. d.id = id
    BY <1>1 DEF DeviceOf
<1> HIDE DEF d
<1>3. BuildDetail(rep, id).id = d.id
    BY <1>1 DEF BuildDetail, d
<1> QED BY <1>2, <1>3

\* The note's field is bound to the device that is rendered.
LEMMA BindKeeps ==
    ASSUME NEW c, NEW x, Page(c), x.id = c.sel, c.sel # 0
    PROVE  Page(BindNote([c EXCEPT !.last = x], x.id))
<1> DEFINE b == [c EXCEPT !.last = x]
           e == BindNote(b, x.id)
<1>1. /\ DOMAIN b = Fields /\ b.last = x /\ b.site = c.site /\ b.sel = c.sel /\ b.badge = c.badge
      /\ b.bound = c.bound /\ b.draft = c.draft /\ b.notes = c.notes /\ b.sent = c.sent
    BY DEF Page, Fields
<1> HIDE DEF b
<1>2. b.notes[x.id] \in {0, x.id}
    BY <1>1 DEF Page
<1>3. CASE b.bound # x.id
    <2>1. e = [b EXCEPT !.bound = x.id, !.draft = b.notes[x.id], !.badge = 0]
        BY <1>3 DEF BindNote
    <2>2. /\ DOMAIN e = Fields /\ e.last = x /\ e.site = c.site /\ e.sel = c.sel /\ e.badge = 0
          /\ e.bound = x.id /\ e.draft = b.notes[x.id] /\ e.notes = c.notes /\ e.sent = c.sent
        BY <1>1, <2>1 DEF Fields
    <2> HIDE DEF e
    <2>3. Page(e)
        BY <1>2, <2>2 DEF Page
    <2> QED BY <2>3 DEF e, b
<1>4. CASE b.bound = x.id
    <2>1. c.last.id = x.id /\ c.badge \in {0, x.id} /\ c.draft \in {0, x.id}
        BY <1>1, <1>4 DEF Page
    <2>2. CASE b.focus
        <3>1. e = b
            BY <1>4, <2>2 DEF BindNote
        <3>2. Page(b)
            BY <1>1, <1>4, <2>1 DEF Page
        <3> QED BY <3>1, <3>2 DEF b
    <2>3. CASE ~b.focus
        <3>1. e = [b EXCEPT !.draft = b.notes[x.id]]
            BY <1>4, <2>3 DEF BindNote
        <3>2. /\ DOMAIN e = Fields /\ e.last = x /\ e.site = c.site /\ e.sel = c.sel /\ e.badge = c.badge
              /\ e.bound = x.id /\ e.draft = b.notes[x.id] /\ e.notes = c.notes /\ e.sent = c.sent
            BY <1>1, <1>4, <3>1 DEF Fields
        <3> HIDE DEF e
        <3>3. Page(e)
            BY <1>2, <2>1, <3>2 DEF Page
        <3> QED BY <3>3 DEF e, b
    <2> QED BY <2>2, <2>3
<1> QED BY <1>3, <1>4

\* Building and patching cards touches nothing else.
LEMMA BuildIsSame ==
    ASSUME NEW c, NEW x, DOMAIN c = Fields
    PROVE  Same(c, BuildOrPatch(c, x))
<1> DEFINE nodes == NodesOf(x)
           p == [i \in DOMAIN nodes |-> PatchRow(c.rows[i], nodes[i])]
           f == [i \in DOMAIN nodes |-> FreshRow(nodes[i])]
<1>1. \/ BuildOrPatch(c, x) = [c EXCEPT !.rows = p, !.orders = @ \cup {Order(nodes)}]
      \/ BuildOrPatch(c, x) = [c EXCEPT !.sig = <<SigOf(x)>>, !.cards = Cards(x), !.base = x.control, !.rows = f,
                                        !.orders = {Order(nodes)}]
    BY DEF BuildOrPatch
<1> HIDE DEF p, f
<1> QED BY <1>1 DEF Same, Fields

\* Rendering keeps the page in order, whatever device it moves to.
LEMMA RenderKeeps ==
    ASSUME NEW c, Page(c)
    PROVE  Page(RenderDetail(c))
<1> DEFINE x == BuildDetail(Rep(c), c.sel)
<1>1. CASE c.sel = 0 \/ x = NoDev
    BY <1>1 DEF RenderDetail
<1>2. CASE c.sel # 0 /\ x # NoDev
    <2>1. x.id = c.sel
        BY <1>2, BuiltIsAsked
    <2>2. RenderDetail(c) = BuildOrPatch(BindNote([c EXCEPT !.last = x], x.id), x)
        BY <1>2 DEF RenderDetail
    <2> HIDE DEF x
    <2>3. Page(BindNote([c EXCEPT !.last = x], x.id))
        BY <1>2, <2>1, BindKeeps
    <2> DEFINE b == BindNote([c EXCEPT !.last = x], x.id)
    <2> HIDE DEF b
    <2>4. Page(b) /\ RenderDetail(c) = BuildOrPatch(b, x)
        BY <2>2, <2>3 DEF b
    <2>5. Same(b, BuildOrPatch(b, x))
        BY <2>4, BuildIsSame DEF Page
    <2> QED BY <2>4, <2>5, SamePage
<1> QED BY <1>1, <1>2

\* A page that is entered or left has nothing on it.
LEMMA BlankKeeps ==
    ASSUME NEW c, DOMAIN c = Fields, DOMAIN c.notes = DevIds(c.site),
           \A d \in DOMAIN c.notes : c.notes[d] \in {0, d},
           \A i \in DOMAIN c.sent : TrueTo(c.sent[i])
    PROVE  Page([Blank(c) EXCEPT !.sel = 0])
<1> DEFINE e == [Blank(c) EXCEPT !.sel = 0]
<1>1. /\ DOMAIN e = Fields /\ e.site = c.site /\ e.sel = 0 /\ e.last = NoDev /\ e.badge = 0
      /\ e.bound = 0 /\ e.draft = 0 /\ e.notes = c.notes /\ e.sent = c.sent
    BY DEF Blank, Fields
<1> HIDE DEF e
<1>2. Page(e)
    BY <1>1 DEF Page
<1> QED BY <1>2 DEF e

\* The first page.
LEMMA PageStarts == CtlInit => Page(ctl)
<1> SUFFICES ASSUME NEW site \in DOMAIN Sites, CtlBoot(site, 1) PROVE Page(ctl)
    BY DEF CtlInit
<1> DEFINE c == [site |-> site, rep |-> 1, sel |-> 0, sig |-> 0, cards |-> 0, base |-> 0, rows |-> 0, orders |-> 0, last |-> 0,
                 dlg |-> 0, typed |-> 0, busy |-> 0, badge |-> 0, bound |-> 0, draft |-> 0, focus |-> 0,
                 notes |-> [d \in DevIds(site) |-> 0], posts |-> {}, sent |-> <<>>]
<1>1. ctl = Blank(c)
    BY DEF CtlBoot
<1>2. /\ DOMAIN c = Fields /\ c.site = site /\ c.sel = 0
      /\ c.notes = [d \in DevIds(site) |-> 0] /\ c.sent = <<>>
    BY DEF Fields
<1> HIDE DEF c
<1>3. /\ DOMAIN ctl = Fields /\ ctl.site = site /\ ctl.sel = 0 /\ ctl.last = NoDev /\ ctl.badge = 0
      /\ ctl.bound = 0 /\ ctl.draft = 0 /\ ctl.notes = c.notes /\ ctl.sent = <<>>
    BY <1>1, <1>2 DEF Blank, Fields
<1> QED BY <1>2, <1>3 DEF Page

\* A request is made for the device of the dialog, which is the one on screen,
\* and only where the gate is open and the text was typed.
LEMMA RunKeeps ==
    ASSUME NEW c, Page(c), c.dlg[1].act \in Destructive => c.typed
    PROVE  Page(RunConfirm(c))
<1>0. DOMAIN c = Fields
    BY DEF Page
<1>1. CASE c.dlg[1].dev # c.last.id
    <2>1. RunConfirm(c) = [c EXCEPT !.dlg = <<>>]
        BY <1>1 DEF RunConfirm
    <2>2. Same(c, [c EXCEPT !.dlg = <<>>])
        BY <1>0 DEF Same, Fields
    <2> QED BY <2>1, <2>2, SamePage
<1>2. CASE c.dlg[1].dev = c.last.id /\ ~Gate(c.last.control, c.dlg[1].act)
    <2> DEFINE e == [c EXCEPT !.dlg = <<>>, !.badge = c.last.id]
    <2>1. RunConfirm(c) = e
        BY <1>2 DEF RunConfirm
    <2>2. /\ DOMAIN e = Fields /\ e.site = c.site /\ e.sel = c.sel /\ e.last = c.last /\ e.badge = c.last.id
          /\ e.bound = c.bound /\ e.draft = c.draft /\ e.notes = c.notes /\ e.sent = c.sent
        BY <1>0 DEF Fields
    <2> HIDE DEF e
    <2>3. Page(e)
        BY <2>2 DEF Page
    <2> QED BY <2>1, <2>3
<1>3. CASE c.dlg[1].dev = c.last.id /\ Gate(c.last.control, c.dlg[1].act)
    <2> DEFINE q == [act |-> c.dlg[1].act, target |-> c.dlg[1].target, dev |-> c.dlg[1].dev]
               s == [q |-> q, dlg |-> c.dlg[1], shown |-> c.last.id, typed |-> c.typed,
                     gate |-> Gate(c.last.control, q.act)]
               e == [c EXCEPT !.busy = TRUE, !.posts = @ \cup {q}, !.sent = <<s>>]
    <2>1. RunConfirm(c) = e
        BY <1>3 DEF RunConfirm, Post
    <2>2. /\ q.act = c.dlg[1].act /\ q.target = c.dlg[1].target /\ q.dev = c.dlg[1].dev
        OBVIOUS
    <2> HIDE DEF q
    <2>3. s.q = q /\ s.dlg = c.dlg[1] /\ s.shown = c.last.id /\ s.typed = c.typed /\ s.gate = Gate(c.last.control, q.act)
        OBVIOUS
    <2> HIDE DEF s
    <2>4. s.gate
        BY <1>3, <2>2, <2>3
    <2>5. TrueTo(s)
        BY <1>3, <2>2, <2>3, <2>4 DEF TrueTo
    <2>6. /\ DOMAIN e = Fields /\ e.site = c.site /\ e.sel = c.sel /\ e.last = c.last /\ e.badge = c.badge
          /\ e.bound = c.bound /\ e.draft = c.draft /\ e.notes = c.notes /\ e.sent = <<s>>
        BY <1>0 DEF Fields
    <2> HIDE DEF e
    <2>7. \A i \in DOMAIN e.sent : TrueTo(e.sent[i])
        BY <2>5, <2>6
    <2>8. Page(e)
        BY <2>6, <2>7 DEF Page
    <2> QED BY <2>1, <2>8
<1> QED BY <1>1, <1>2, <1>3

\* The note that is saved is the text of the field, typed for this device.
LEMMA NoteKeeps ==
    ASSUME Page(ctl), CtlNote
    PROVE  Page(ctl')
<1>0. DOMAIN ctl = Fields /\ DOMAIN ctl.notes = DevIds(ctl.site)
    BY DEF Page
<1>1. CASE ctl' = [ctl EXCEPT !.draft = ctl.bound, !.focus = TRUE]
    <2>1. /\ DOMAIN ctl' = Fields /\ ctl'.site = ctl.site /\ ctl'.sel = ctl.sel /\ ctl'.last = ctl.last
          /\ ctl'.badge = ctl.badge /\ ctl'.bound = ctl.bound /\ ctl'.draft = ctl.bound
          /\ ctl'.notes = ctl.notes /\ ctl'.sent = ctl.sent
        BY <1>0, <1>1 DEF Fields
    <2> QED BY <2>1 DEF Page
<1>2. CASE ctl' = RenderDetail([ctl EXCEPT !.focus = FALSE])
    <2>1. Same(ctl, [ctl EXCEPT !.focus = FALSE])
        BY <1>0 DEF Same, Fields
    <2> QED BY <1>2, <2>1, SamePage, RenderKeeps
<1>3. CASE /\ ctl.bound = ctl.last.id
           /\ ctl' = RenderDetail([ctl EXCEPT !.notes[ctl.last.id] = ctl.draft, !.focus = FALSE])
    <2> DEFINE e == [ctl EXCEPT !.notes[ctl.last.id] = ctl.draft, !.focus = FALSE]
    <2>1. /\ DOMAIN e = Fields /\ e.site = ctl.site /\ e.sel = ctl.sel /\ e.last = ctl.last
          /\ e.badge = ctl.badge /\ e.bound = ctl.bound /\ e.draft = ctl.draft
          /\ e.notes = [ctl.notes EXCEPT ![ctl.last.id] = ctl.draft] /\ e.sent = ctl.sent
        BY <1>0 DEF Fields
    <2> HIDE DEF e
    <2>2. ctl.draft \in {0, ctl.last.id}
        BY <1>3 DEF Page
    <2>3. DOMAIN e.notes = DevIds(ctl.site) /\ \A d \in DOMAIN e.notes : e.notes[d] \in {0, d}
        BY <1>0, <2>1, <2>2 DEF Page
    <2>4. Page(e)
        BY <2>1, <2>3 DEF Page
    <2> QED BY <1>3, <2>4, RenderKeeps DEF e
<1>4. CASE ctl' = RenderDetail([ctl EXCEPT !.notes[ctl.last.id] = 0, !.draft = 0])
    <2> DEFINE e == [ctl EXCEPT !.notes[ctl.last.id] = 0, !.draft = 0]
    <2>1. /\ DOMAIN e = Fields /\ e.site = ctl.site /\ e.sel = ctl.sel /\ e.last = ctl.last
          /\ e.badge = ctl.badge /\ e.bound = ctl.bound /\ e.draft = 0
          /\ e.notes = [ctl.notes EXCEPT ![ctl.last.id] = 0] /\ e.sent = ctl.sent
        BY <1>0 DEF Fields
    <2> HIDE DEF e
    <2>2. DOMAIN e.notes = DevIds(ctl.site) /\ \A d \in DOMAIN e.notes : e.notes[d] \in {0, d}
        BY <1>0, <2>1 DEF Page
    <2>3. Page(e)
        BY <2>1, <2>2 DEF Page
    <2> QED BY <1>4, <2>3, RenderKeeps DEF e
<1> QED BY <1>1, <1>2, <1>3, <1>4 DEF CtlNote

\* The page stays in order.
LEMMA PageKeeps == Page(ctl) /\ [CtlNext]_ctl => Page(ctl')
<1> SUFFICES ASSUME Page(ctl), [CtlNext]_ctl PROVE Page(ctl')
    OBVIOUS
<1>0. DOMAIN ctl = Fields /\ DOMAIN ctl.notes = DevIds(ctl.site)
    BY DEF Page
<1>1. CASE CtlAnswer
    <2>1. PICK r : ctl' = RenderDetail([ctl EXCEPT !.rep = r])
        BY <1>1 DEF CtlAnswer
    <2>2. Same(ctl, [ctl EXCEPT !.rep = r])
        BY <1>0 DEF Same, Fields
    <2> QED BY <2>1, <2>2, SamePage, RenderKeeps
<1>2. CASE CtlOpen
    <2>1. PICK d \in DevIds(ctl.site) : ctl' = RenderDetail([ctl EXCEPT !.sel = d])
        BY <1>2 DEF CtlOpen
    <2> DEFINE e == [ctl EXCEPT !.sel = d]
    <2>2. /\ DOMAIN e = Fields /\ e.site = ctl.site /\ e.sel = d /\ e.last = ctl.last
          /\ e.badge = ctl.badge /\ e.bound = ctl.bound /\ e.draft = ctl.draft
          /\ e.notes = ctl.notes /\ e.sent = ctl.sent
        BY <1>0 DEF Fields
    <2> HIDE DEF e
    <2>3. Page(e)
        BY <2>2 DEF Page
    <2> QED BY <2>1, <2>3, RenderKeeps DEF e
<1>3. CASE CtlLeave
    BY <1>3, BlankKeeps DEF CtlLeave, Page
<1>4. CASE CtlPress
    <2>1. PICK v : \/ ctl' = ctl
                   \/ ctl' = [ctl EXCEPT !.badge = 0, !.typed = FALSE, !.dlg = v]
        BY <1>4, Zenon DEF CtlPress
    <2>2. CASE ctl' = [ctl EXCEPT !.badge = 0, !.typed = FALSE, !.dlg = v]
        <3>1. /\ DOMAIN ctl' = Fields /\ ctl'.site = ctl.site /\ ctl'.sel = ctl.sel /\ ctl'.last = ctl.last
              /\ ctl'.badge = 0 /\ ctl'.bound = ctl.bound /\ ctl'.draft = ctl.draft
              /\ ctl'.notes = ctl.notes /\ ctl'.sent = ctl.sent
            BY <1>0, <2>2 DEF Fields
        <3> QED BY <3>1 DEF Page
    <2> QED BY <2>1, <2>2
<1>5. CASE CtlType
    <2>1. Same(ctl, ctl')
        BY <1>0, <1>5 DEF CtlType, Same, Fields
    <2> QED BY <2>1, SamePage
<1>6. CASE CtlCancel
    <2>1. Same(ctl, ctl')
        BY <1>0, <1>6 DEF CtlCancel, Same, Fields
    <2> QED BY <2>1, SamePage
<1>7. CASE CtlRun
    BY <1>7, RunKeeps DEF CtlRun
<1>8. CASE CtlAnswered
    <2>1. PICK q, v : ctl' = [ctl EXCEPT !.posts = @ \ {q}, !.busy = FALSE,
                                         !.badge = IF ctl.last.id = q.dev THEN q.dev ELSE @, !.dlg = v]
        BY <1>8 DEF CtlAnswered
    <2>2. /\ DOMAIN ctl' = Fields /\ ctl'.site = ctl.site /\ ctl'.sel = ctl.sel /\ ctl'.last = ctl.last
          /\ ctl'.badge = IF ctl.last.id = q.dev THEN q.dev ELSE ctl.badge
          /\ ctl'.bound = ctl.bound /\ ctl'.draft = ctl.draft
          /\ ctl'.notes = ctl.notes /\ ctl'.sent = ctl.sent
        BY <1>0, <2>1 DEF Fields
    <2> QED BY <2>2 DEF Page
<1>9. CASE CtlNote
    BY <1>9, NoteKeeps
<1>10. CASE ctl' = ctl
    BY <1>10
<1> QED BY <1>1, <1>2, <1>3, <1>4, <1>5, <1>6, <1>7, <1>8, <1>9, <1>10 DEF CtlNext

\* However answers, requests and pages overlap, every request, badge and note
\* of the detail page is about the device that was on screen.
THEOREM ActsOnWhatIsShown == CtlInit /\ [][CtlNext]_ctl => []ActsOnShown
<1>1. CtlInit => PageInv
    BY PageStarts DEF PageInv
<1>2. PageInv /\ [CtlNext]_ctl => PageInv'
    BY PageKeeps DEF PageInv
<1>3. PageInv => ActsOnShown
    BY DEF PageInv, Page, TrueTo, ActsOnShown
<1> QED BY <1>1, <1>2, <1>3, PTL

-----------------------------------------------------------------------------
(***************************************************************************)
(* The detail page as drawn.                                               *)
(***************************************************************************)

\* The pages there can be of an installation.
Pages(site) == {BuildDetail(r, d) : r \in ToSet(Sites[site]), d \in DevIds(site)} \ {NoDev}
Unseen(c) == c.sel = 0 \/ BuildDetail(Rep(c), c.sel) = NoDev

\* The rows of buttons are those of the nodes; each names a node that had its place since
\* the cards were built.
RowsDrawn(rows, orders, nodes) ==
    /\ DOMAIN rows = DOMAIN nodes /\ Order(nodes) \in orders
    /\ \A i \in DOMAIN nodes : \E o \in orders : rows[i] = [mode |-> NodeMode(nodes[i]), target |-> o[i]]

\* What was drawn is what a fresh page would show of the device rendered last.
Drawn(c) ==
    /\ c.last \in Pages(c.site)
    /\ c.sig = <<SigOf(c.last)>>
    /\ c.cards = Cards(c.last)
    /\ \A a \in ClusterActions : Gate(c.base, a) = Gate(c.last.control, a)
    /\ RowsDrawn(c.rows, c.orders, NodesOf(c.last))

\* Of a page that is not rendered yet.
Sheet(c) ==
    /\ DOMAIN c = Fields
    /\ c.site \in DOMAIN Sites /\ c.rep \in DOMAIN Sites[c.site] /\ c.sel \in DevIds(c.site) \cup {0}
    /\ c.sig # <<>> => Drawn(c)

\* A page that is seen was rendered from the last answer.
DrawnInv(c) ==
    /\ Sheet(c)
    /\ ~Unseen(c) => c.sig # <<>> /\ c.last = BuildDetail(Rep(c), c.sel)

\* The fields of a page, from the device it is about.
LEMMA PageFields ==
    ASSUME NEW rep, NEW id, BuildDetail(rep, id) # NoDev
    PROVE  LET x == BuildDetail(rep, id)
               d == DeviceOf(rep.fleet, id)
           IN /\ d # NoDev /\ x.type = d.type /\ x.variant = Variant(d)
              /\ x.status = (IF isMaint(d) THEN "warn" ELSE StatusTone(d.status))
              /\ x.sync = SyncTone(d) /\ x.ft = FtTone(d) /\ x.nodes = NodeRows(d)
              /\ x.plc = <<>> <=> d.type # "PLC"
              /\ x.control = IF isFT(d.type) THEN <<Control(d, rep)>> ELSE <<>>
<1> DEFINE d == DeviceOf(rep.fleet, id)
<1>1. d # NoDev
    BY DEF BuildDetail
<1> HIDE DEF d
<1> QED BY <1>1 DEF BuildDetail, d

\* A page is that of a device of the list.
LEMMA DeviceFound ==
    ASSUME NEW rep, NEW id, BuildDetail(rep, id) # NoDev
    PROVE  DeviceOf(rep.fleet, id) # NoDev
BY PageFields

\* Its type is that of the device.
LEMMA TypeShown ==
    ASSUME NEW rep, NEW id, BuildDetail(rep, id) # NoDev
    PROVE  BuildDetail(rep, id).type = DeviceOf(rep.fleet, id).type
BY PageFields

\* Which buttons are enabled follows from what the server says it supports.
LEMMA GateByCapability ==
    ASSUME NEW rep, NEW id, BuildDetail(rep, id) # NoDev, NEW a \in ClusterActions
    PROVE  LET k == BuildDetail(rep, id).control IN
           Gate(k, a) <=> k # <<>> /\ k[1].capability.supported /\ a \in k[1].capability.actions
<1> DEFINE d == DeviceOf(rep.fleet, id)
           k == BuildDetail(rep, id).control
<1>1. k = IF isFT(d.type) THEN <<Control(d, rep)>> ELSE <<>>
    BY PageFields
<1> HIDE DEF k
<1>2. CASE ~isFT(d.type)
    BY <1>1, <1>2 DEF Gate, k
<1>3. CASE isFT(d.type)
    <2> DEFINE ctrl == Control(d, rep)
               sample == d.sample \/ rep.sample
    <2>1. /\ ctrl.sample = sample
          /\ ctrl.capability = IF sample THEN Capability([supported |-> FALSE]) ELSE Capability(rep.caps)
          /\ ctrl.available = {b \in ClusterActions : ~sample /\ Available(rep.caps, b)}
        BY DEF Control
    <2>2. k = <<ctrl>> /\ k # <<>> /\ k[1] = ctrl
        BY <1>1, <1>3
    <2> HIDE DEF ctrl, sample
    <2>3. CASE sample
        BY <2>1, <2>2, <2>3 DEF Gate, Capability, k
    <2>4. CASE ~sample
        BY <2>1, <2>2, <2>4 DEF Gate, Available, k
    <2> QED BY <2>3, <2>4
<1> QED BY <1>2, <1>3

\* Two pages with one signature have the same cards and the same buttons
\* enabled: nothing that is patched needed to be built again.
LEMMA SignatureIsEnough ==
    ASSUME NEW site, NEW x \in Pages(site), NEW y \in Pages(site), SigOf(x) = SigOf(y)
    PROVE  Cards(x) = Cards(y) /\ \A a \in ClusterActions : Gate(x.control, a) = Gate(y.control, a)
<1>1. PICK r1, d1 : x = BuildDetail(r1, d1) /\ x # NoDev
    BY DEF Pages
<1>2. PICK r2, d2 : y = BuildDetail(r2, d2) /\ y # NoDev
    BY DEF Pages
<1>3. x.plc = <<>> <=> x.variant # "plc"
    BY <1>1, PageFields DEF Variant
<1>4. y.plc = <<>> <=> y.variant # "plc"
    BY <1>2, PageFields DEF Variant
<1>5. /\ SigOf(x).variant = x.variant /\ SigOf(y).variant = y.variant
      /\ SigOf(x).rows[4] = Len(x.procs) /\ SigOf(y).rows[4] = Len(y.procs)
      /\ SigOf(x).rows[6] = Len(x.traps) /\ SigOf(y).rows[6] = Len(y.traps)
      /\ SigOf(x).license = (x.license # "none") /\ SigOf(y).license = (y.license # "none")
      /\ SigOf(x).printer = x.printer /\ SigOf(y).printer = y.printer
      /\ SigOf(x).bmc = x.bmc /\ SigOf(y).bmc = y.bmc
      /\ SigOf(x).endurance = x.endurance /\ SigOf(y).endurance = y.endurance
    BY DEF SigOf
<1>6. /\ SigOf(x).control = IF x.control = <<>> THEN {} ELSE
                            {<<Len(x.control[1].nodes), Len(x.control[1].vms), x.control[1].capability>>}
      /\ SigOf(y).control = IF y.control = <<>> THEN {} ELSE
                            {<<Len(y.control[1].nodes), Len(y.control[1].vms), y.control[1].capability>>}
    BY DEF SigOf
<1> DEFINE k(z) == <<Len(z.control[1].nodes), Len(z.control[1].vms), z.control[1].capability>>
<1>7. (x.control = <<>> <=> y.control = <<>>) /\ (x.control # <<>> => k(x) = k(y))
    BY <1>6
<1>71. x.control # <<>> => x.control[1].capability = y.control[1].capability
    BY <1>7
<1>72. \A a \in ClusterActions :
          /\ Gate(x.control, a) <=> x.control # <<>> /\ x.control[1].capability.supported
                                                   /\ a \in x.control[1].capability.actions
          /\ Gate(y.control, a) <=> y.control # <<>> /\ y.control[1].capability.supported
                                                   /\ a \in y.control[1].capability.actions
    BY <1>1, <1>2, GateByCapability
<1>73. \A a \in ClusterActions : Gate(x.control, a) = Gate(y.control, a)
    <2> SUFFICES ASSUME NEW a \in ClusterActions PROVE Gate(x.control, a) = Gate(y.control, a)
        OBVIOUS
    <2>1. Gate(x.control, a) \in BOOLEAN /\ Gate(y.control, a) \in BOOLEAN
        BY DEF Gate
    <2> QED BY <1>7, <1>71, <1>72, <2>1
<1> DEFINE count(plc) == <<plc.comm, plc.vars, plc.net, Len(plc.sd), Len(plc.diag.modules), Len(plc.diag.history),
                           plc.clock # "none">>
<1>8. /\ SigOf(x).plc = IF x.plc = <<>> THEN <<>> ELSE count(x.plc[1])
      /\ SigOf(y).plc = IF y.plc = <<>> THEN <<>> ELSE count(y.plc[1])
    BY DEF SigOf
<1>9. CASE x.variant = "plc"
    <2> DEFINE p == x.plc[1]
               q == y.plc[1]
    <2>1. count(p) = count(q)
        BY <1>3, <1>4, <1>5, <1>8, <1>9
    <2>2. /\ p.comm = q.comm /\ p.vars = q.vars /\ p.net = q.net /\ Len(p.sd) = Len(q.sd)
          /\ Len(p.diag.modules) = Len(q.diag.modules) /\ (p.clock # "none") = (q.clock # "none")
        BY <2>1
    <2>3. /\ If(p.comm > 0, "comm") = If(q.comm > 0, "comm")
          /\ If(p.clock # "none", "clock") = If(q.clock # "none", "clock")
          /\ If(Len(p.diag.modules) > 0, "diag") = If(Len(q.diag.modules) > 0, "diag")
          /\ If(p.net > 0, "net") = If(q.net > 0, "net")
          /\ If(Len(p.sd) > 0, "sd") = If(Len(q.sd) > 0, "sd")
          /\ If(p.vars > 0, "vars") = If(q.vars > 0, "vars")
        BY <2>2 DEF If
    <2>4. Cards(x) = Cards(y)
        BY <1>5, <1>9, <2>3 DEF Cards
    <2> QED BY <1>73, <2>4
<1>10. CASE x.variant # "plc"
    <2>1. /\ If(Len(x.procs) > 0, "vms") = If(Len(y.procs) > 0, "vms")
          /\ If(x.bmc, "bmc") = If(y.bmc, "bmc")
          /\ If(x.endurance, "endurance") = If(y.endurance, "endurance")
          /\ If(~x.endurance, "vms") = If(~y.endurance, "vms")
          /\ If(x.license # "none", "license") = If(y.license # "none", "license")
          /\ If(x.control # <<>>, "controls") = If(y.control # <<>>, "controls")
          /\ If(Len(x.traps) > 0, "traps") = If(Len(y.traps) > 0, "traps")
        BY <1>5, <1>7 DEF If
    <2>2. Cards(x) = Cards(y)
        BY <1>5, <1>10, <2>1 DEF Cards
    <2> QED BY <1>73, <2>2
<1> QED BY <1>9, <1>10

\* What is numbered from 1 to n is a sequence.
LEMMA RowsAreSeq ==
    ASSUME NEW n \in Nat, NEW S, NEW f \in [1..n -> S]
    PROVE  f \in Seq(S)
OBVIOUS

\* The nodes of a page, as far as it has buttons for them, are a sequence.
LEMMA PageNodes ==
    ASSUME NEW site \in DOMAIN Sites, NEW x \in Pages(site)
    PROVE  NodesOf(x) \in Seq(ToSet(NodesOf(x))) /\ (x.control # <<>> => NodesOf(x) = x.control[1].nodes)
<1>1. PICK r \in ToSet(Sites[site]), id \in DevIds(site) : x = BuildDetail(r, id) /\ x # NoDev
    BY DEF Pages
<1> DEFINE d == DeviceOf(r.fleet, id)
<1>2. d # NoDev /\ x.control = IF isFT(d.type) THEN <<Control(d, r)>> ELSE <<>>
    BY <1>1, PageFields
<1>3. isFT(d.type) => d.nodes \in Seq(ToSet(d.nodes))
    <2>1. d \in ToSet(r.fleet)
        BY <1>2 DEF DeviceOf, ToSet
    <2>2. PICK k \in DOMAIN Sites[site] : r = Sites[site][k]
        BY <1>1 DEF ToSet
    <2> QED BY <2>1, <2>2, SitesAssumption DEF Derived
<1> HIDE DEF d
<1>4. CASE ~isFT(d.type)
    <2>1. NodesOf(x) = <<>>
        BY <1>2, <1>4 DEF NodesOf
    <2> QED BY <1>2, <1>4, <2>1
<1>5. CASE isFT(d.type)
    <2> DEFINE ns == [i \in DOMAIN d.nodes |-> [name |-> d.nodes[i].name, maint |-> d.nodes[i].maint,
                                               down |-> ~d.nodes[i].run]]
    <2>1. Control(d, r).nodes = ns
        BY DEF Control
    <2>2. x.control # <<>> /\ x.control[1] = Control(d, r)
        BY <1>2, <1>5
    <2>3. NodesOf(x) = ns /\ x.control[1].nodes = ns
        BY <2>1, <2>2 DEF NodesOf
    <2>4. DOMAIN ns = 1..Len(d.nodes) /\ Len(d.nodes) \in Nat
        BY <1>3, <1>5
    <2>5. ns \in Seq(ToSet(ns))
        <3> DEFINE S == ToSet(ns)
        <3>1. \A i \in 1..Len(d.nodes) : ns[i] \in S
            BY <2>4 DEF ToSet
        <3>2. ns \in [1..Len(d.nodes) -> S]
            BY <2>4, <3>1
        <3> HIDE DEF ns, S
        <3>3. ns \in Seq(S)
            BY <2>4, <3>2, RowsAreSeq
        <3> QED BY <3>3 DEF S
    <2> HIDE DEF ns
    <2> QED BY <2>3, <2>5
<1> QED BY <1>4, <1>5

\* Pages with one signature have buttons for as many nodes.
LEMMA SameCount ==
    ASSUME NEW site \in DOMAIN Sites, NEW x \in Pages(site), NEW y \in Pages(site), SigOf(x) = SigOf(y)
    PROVE  DOMAIN NodesOf(x) = DOMAIN NodesOf(y)
<1> DEFINE k(z) == <<Len(z.control[1].nodes), Len(z.control[1].vms), z.control[1].capability>>
<1>1. /\ SigOf(x).control = IF x.control = <<>> THEN {} ELSE {k(x)}
      /\ SigOf(y).control = IF y.control = <<>> THEN {} ELSE {k(y)}
    BY DEF SigOf
<1>2. (x.control = <<>> <=> y.control = <<>>) /\ (x.control # <<>> => k(x) = k(y))
    <2> HIDE DEF k
    <2> QED BY <1>1
<1>3. CASE x.control = <<>>
    BY <1>2, <1>3 DEF NodesOf
<1>4. CASE x.control # <<>>
    <2>1. NodesOf(x) = x.control[1].nodes /\ NodesOf(y) = y.control[1].nodes
        BY <1>2, <1>4, PageNodes
    <2>2. Len(NodesOf(x)) = Len(NodesOf(y))
        BY <1>2, <1>4, <2>1
    <2>3. NodesOf(x) \in Seq(ToSet(NodesOf(x))) /\ NodesOf(y) \in Seq(ToSet(NodesOf(y)))
        BY PageNodes
    <2> QED BY <2>2, <2>3
<1> QED BY <1>3, <1>4

\* Patched rows name nodes that had their place.
LEMMA PatchedRows ==
    ASSUME NEW rows, NEW orders, NEW old, NEW nodes, RowsDrawn(rows, orders, old), DOMAIN old = DOMAIN nodes
    PROVE  RowsDrawn([i \in DOMAIN nodes |-> PatchRow(rows[i], nodes[i])], orders \cup {Order(nodes)}, nodes)
<1> DEFINE p == [i \in DOMAIN nodes |-> PatchRow(rows[i], nodes[i])]
           all == orders \cup {Order(nodes)}
<1>1. \A i \in DOMAIN nodes : \E o \in all : p[i] = [mode |-> NodeMode(nodes[i]), target |-> o[i]]
    <2> SUFFICES ASSUME NEW i \in DOMAIN nodes
                 PROVE  \E o \in all : p[i] = [mode |-> NodeMode(nodes[i]), target |-> o[i]]
        OBVIOUS
    <2>1. p[i] = IF rows[i].mode = NodeMode(nodes[i]) THEN rows[i]
                 ELSE [mode |-> NodeMode(nodes[i]), target |-> nodes[i].name]
        BY DEF PatchRow, FreshRow
    <2>2. Order(nodes)[i] = nodes[i].name
        BY DEF Order
    <2>3. PICK o \in orders : rows[i] = [mode |-> NodeMode(old[i]), target |-> o[i]]
        BY DEF RowsDrawn
    <2>4. rows[i].mode = NodeMode(old[i])
        BY <2>3
    <2> HIDE DEF p
    <2>5. CASE rows[i].mode = NodeMode(nodes[i])
        <3>1. p[i] = [mode |-> NodeMode(nodes[i]), target |-> o[i]]
            BY <2>1, <2>3, <2>4, <2>5
        <3> QED BY <3>1
    <2>6. CASE rows[i].mode # NodeMode(nodes[i])
        <3>1. p[i] = [mode |-> NodeMode(nodes[i]), target |-> Order(nodes)[i]]
            BY <2>1, <2>2, <2>6
        <3> QED BY <3>1
    <2> QED BY <2>5, <2>6
<1>2. DOMAIN p = DOMAIN nodes
    OBVIOUS
<1> HIDE DEF p
<1>3. RowsDrawn(p, all, nodes)
    BY <1>1, <1>2 DEF RowsDrawn
<1> QED BY <1>3 DEF p

\* Rows that are built name the nodes.
LEMMA BuiltRows ==
    ASSUME NEW nodes
    PROVE  RowsDrawn([i \in DOMAIN nodes |-> FreshRow(nodes[i])], {Order(nodes)}, nodes)
BY DEF RowsDrawn, FreshRow, Order

\* Without another order every row is the one of a fresh page.
LEMMA RowsOfOneOrder ==
    ASSUME NEW rows, NEW nodes, RowsDrawn(rows, {Order(nodes)}, nodes), NEW i \in DOMAIN nodes
    PROVE  rows[i] = FreshRow(nodes[i])
BY DEF RowsDrawn, FreshRow, Order

\* Patching keeps what was drawn true, and so does drawing anew.
LEMMA BuildDraws ==
    ASSUME NEW c, Sheet(c), NEW b, DOMAIN b = Fields, b.site = c.site, b.rep = c.rep, b.sel = c.sel, b.sig = c.sig,
           b.cards = c.cards, b.base = c.base, b.rows = c.rows, b.orders = c.orders, b.last \in Pages(c.site)
    PROVE  LET e == BuildOrPatch(b, b.last)
           IN /\ Sheet(e) /\ e.sig # <<>> /\ e.last = b.last
              /\ e.site = c.site /\ e.rep = c.rep /\ e.sel = c.sel
<1> DEFINE x == b.last
           nodes == NodesOf(x)
           p == [i \in DOMAIN nodes |-> PatchRow(b.rows[i], nodes[i])]
           f == [i \in DOMAIN nodes |-> FreshRow(nodes[i])]
           e == BuildOrPatch(b, x)
<1>1. RowsDrawn(f, {Order(nodes)}, nodes)
    BY BuiltRows
<1>3. CASE b.sig = <<SigOf(x)>>
    <2>1. e = [b EXCEPT !.rows = p, !.orders = @ \cup {Order(nodes)}]
        BY <1>3 DEF BuildOrPatch
    <2> HIDE DEF p, f
    <2>2. /\ DOMAIN e = Fields /\ e.site = c.site /\ e.rep = c.rep /\ e.sel = c.sel /\ e.sig = <<SigOf(x)>>
          /\ e.cards = c.cards /\ e.base = c.base /\ e.last = x /\ e.rows = p
          /\ e.orders = c.orders \cup {Order(nodes)}
        BY <1>3, <2>1 DEF Fields
    <2>3. Drawn(c) /\ c.sig = <<SigOf(x)>> /\ c.sig # <<>> /\ c.site \in DOMAIN Sites
        BY <1>3 DEF Sheet
    <2>4. c.last \in Pages(c.site) /\ SigOf(c.last) = SigOf(x)
        BY <2>3 DEF Drawn
    <2>5. Cards(c.last) = Cards(x) /\ \A a \in ClusterActions : Gate(c.last.control, a) = Gate(x.control, a)
        BY <2>4, SignatureIsEnough
    <2>6. DOMAIN NodesOf(c.last) = DOMAIN nodes
        BY <2>3, <2>4, SameCount
    <2>7. RowsDrawn(p, c.orders \cup {Order(nodes)}, nodes)
        <3>1. RowsDrawn(b.rows, c.orders, NodesOf(c.last))
            BY <2>3 DEF Drawn
        <3> HIDE DEF nodes
        <3> QED BY <2>6, <3>1, PatchedRows DEF p
    <2> HIDE DEF e, x, nodes
    <2>8. Drawn(e)
        BY <2>2, <2>3, <2>5, <2>7 DEF Drawn, x, nodes
    <2>9. Sheet(e)
        BY <2>2, <2>8 DEF Sheet
    <2> QED BY <2>2, <2>9 DEF e, x
<1>4. CASE b.sig # <<SigOf(x)>>
    <2>1. e = [b EXCEPT !.sig = <<SigOf(x)>>, !.cards = Cards(x), !.base = x.control, !.rows = f,
                        !.orders = {Order(nodes)}]
        BY <1>4 DEF BuildOrPatch
    <2> HIDE DEF p, f
    <2>2. /\ DOMAIN e = Fields /\ e.site = c.site /\ e.rep = c.rep /\ e.sel = c.sel /\ e.sig = <<SigOf(x)>>
          /\ e.cards = Cards(x) /\ e.base = x.control /\ e.last = x /\ e.rows = f /\ e.orders = {Order(nodes)}
        BY <2>1 DEF Fields
    <2> HIDE DEF e, x, nodes
    <2>4. Drawn(e)
        BY <1>1, <2>2 DEF Drawn, x, nodes
    <2>5. Sheet(e)
        BY <2>2, <2>4 DEF Sheet
    <2> QED BY <2>2, <2>5 DEF e, x
<1> QED BY <1>3, <1>4

\* Rendering shows the last answer.
LEMMA RenderDraws ==
    ASSUME NEW c, Sheet(c)
    PROVE  DrawnInv(RenderDetail(c))
<1> DEFINE x == BuildDetail(Rep(c), c.sel)
<1>1. CASE Unseen(c)
    <2>1. RenderDetail(c) = c
        BY <1>1 DEF RenderDetail, Unseen
    <2> QED BY <1>1, <2>1 DEF DrawnInv
<1>2. CASE ~Unseen(c)
    <2>1. c.sel # 0 /\ x # NoDev /\ RenderDetail(c) = BuildOrPatch(BindNote([c EXCEPT !.last = x], x.id), x)
        BY <1>2 DEF RenderDetail, Unseen
    <2>2. Rep(c) \in ToSet(Sites[c.site])
        BY DEF Sheet, Rep, ToSet
    <2>3. x \in Pages(c.site)
        BY <2>1, <2>2 DEF Pages, Sheet
    <2> DEFINE g == [c EXCEPT !.last = x]
               b == BindNote(g, x.id)
    <2> HIDE DEF x
    <2>4. /\ DOMAIN g = Fields /\ g.last = x /\ g.site = c.site /\ g.rep = c.rep /\ g.sel = c.sel /\ g.sig = c.sig
          /\ g.cards = c.cards /\ g.base = c.base /\ g.rows = c.rows /\ g.orders = c.orders
        BY DEF Sheet, Fields
    <2> HIDE DEF g
    <2>5. \/ b = [g EXCEPT !.bound = x.id, !.draft = g.notes[x.id], !.badge = 0]
          \/ b = g
          \/ b = [g EXCEPT !.draft = g.notes[x.id]]
        BY DEF BindNote
    <2>6. /\ DOMAIN b = Fields /\ b.last = x /\ b.site = c.site /\ b.rep = c.rep /\ b.sel = c.sel /\ b.sig = c.sig
          /\ b.cards = c.cards /\ b.base = c.base /\ b.rows = c.rows /\ b.orders = c.orders
        BY <2>4, <2>5 DEF Fields
    <2> DEFINE e == BuildOrPatch(b, x)
    <2> HIDE DEF b
    <2>7. Sheet(e) /\ e.sig # <<>> /\ e.site = c.site /\ e.rep = c.rep /\ e.sel = c.sel /\ e.last = x
        BY <2>3, <2>6, BuildDraws
    <2>8. RenderDetail(c) = e
        BY <2>1 DEF b, g
    <2> HIDE DEF e
    <2>9. e.last = BuildDetail(Rep(e), e.sel)
        BY <2>7 DEF Rep, x
    <2> QED BY <2>7, <2>8, <2>9 DEF DrawnInv
<1> QED BY <1>1, <1>2

\* What a step leaves alone that draws nothing.
Undrawn(c, e) ==
    /\ DOMAIN e = DOMAIN c /\ e.site = c.site /\ e.sel = c.sel /\ e.sig = c.sig /\ e.cards = c.cards
    /\ e.base = c.base /\ e.rows = c.rows /\ e.orders = c.orders /\ e.last = c.last

\* Such a step, and an answer that is not rendered yet, leave it true.
LEMMA UndrawnSheet ==
    ASSUME NEW c, NEW e, Sheet(c), Undrawn(c, e), e.rep \in DOMAIN Sites[c.site]
    PROVE  Sheet(e)
BY DEF Sheet, Undrawn, Drawn

\* A step that renders nothing and takes no answer shows what was shown.
LEMMA UndrawnKeeps ==
    ASSUME NEW c, NEW e, DrawnInv(c), Undrawn(c, e), e.rep = c.rep
    PROVE  DrawnInv(e)
<1>1. Sheet(e)
    BY UndrawnSheet DEF DrawnInv, Sheet
<1>2. Rep(e) = Rep(c) /\ e.sel = c.sel /\ e.last = c.last /\ e.sig = c.sig
    BY DEF Rep, Undrawn
<1> QED BY <1>1, <1>2 DEF DrawnInv, Unseen

\* Rendering anew after such a step draws the last answer.
LEMMA RedrawKeeps ==
    ASSUME NEW c, NEW e, DrawnInv(c), Undrawn(c, e), e.rep = c.rep
    PROVE  DrawnInv(RenderDetail(e))
<1>1. Sheet(e)
    BY UndrawnSheet DEF DrawnInv, Sheet
<1> QED BY <1>1, RenderDraws

\* A page that is entered or left is blank.
LEMMA BlankDraws ==
    ASSUME NEW c, DOMAIN c = Fields, c.site \in DOMAIN Sites, c.rep \in DOMAIN Sites[c.site]
    PROVE  DrawnInv([Blank(c) EXCEPT !.sel = 0])
<1> DEFINE e == [Blank(c) EXCEPT !.sel = 0]
<1>1. DOMAIN e = Fields /\ e.site = c.site /\ e.rep = c.rep /\ e.sel = 0 /\ e.sig = <<>>
    BY DEF Blank, Fields
<1> HIDE DEF e
<1>2. DrawnInv(e)
    BY <1>1 DEF DrawnInv, Sheet, Unseen
<1> QED BY <1>2 DEF e

\* The page before a device is opened.
LEMMA DrawingStarts == CtlInit => DrawnInv(ctl)
<1> SUFFICES ASSUME NEW site \in DOMAIN Sites, CtlBoot(site, 1) PROVE DrawnInv(ctl)
    BY DEF CtlInit
<1> DEFINE c == [site |-> site, rep |-> 1, sel |-> 0, sig |-> 0, cards |-> 0, base |-> 0, rows |-> 0, orders |-> 0, last |-> 0,
                 dlg |-> 0, typed |-> 0, busy |-> 0, badge |-> 0, bound |-> 0, draft |-> 0, focus |-> 0,
                 notes |-> [d \in DevIds(site) |-> 0], posts |-> {}, sent |-> <<>>]
<1>1. ctl = Blank(c)
    BY DEF CtlBoot
<1>2. DOMAIN c = Fields /\ c.site = site /\ c.rep = 1 /\ c.sel = 0
    BY DEF Fields
<1> HIDE DEF c
<1>3. DOMAIN ctl = Fields /\ ctl.site = site /\ ctl.rep = 1 /\ ctl.sel = 0 /\ ctl.sig = <<>>
    BY <1>1, <1>2 DEF Blank, Fields
<1> QED BY <1>3, SitesAssumption DEF DrawnInv, Sheet, Unseen

\* Only rendering draws, and it draws the last answer.
LEMMA DrawingKeeps == DrawnInv(ctl) /\ [CtlNext]_ctl => DrawnInv(ctl')
<1> SUFFICES ASSUME DrawnInv(ctl), [CtlNext]_ctl PROVE DrawnInv(ctl')
    OBVIOUS
<1>0. Sheet(ctl) /\ DOMAIN ctl = Fields /\ ctl.rep \in DOMAIN Sites[ctl.site]
    BY DEF DrawnInv, Sheet
<1>1. CASE CtlAnswer
    <2>1. PICK r \in DOMAIN Sites[ctl.site] : ctl' = RenderDetail([ctl EXCEPT !.rep = r])
        BY <1>1 DEF CtlAnswer
    <2>2. Undrawn(ctl, [ctl EXCEPT !.rep = r]) /\ [ctl EXCEPT !.rep = r].rep = r
        BY <1>0 DEF Undrawn, Fields
    <2>3. Sheet([ctl EXCEPT !.rep = r])
        BY <1>0, <2>2, UndrawnSheet
    <2> QED BY <2>1, <2>3, RenderDraws
<1>2. CASE CtlOpen
    <2>1. PICK d \in DevIds(ctl.site) : ctl' = RenderDetail([ctl EXCEPT !.sel = d])
        BY <1>2 DEF CtlOpen
    <2> DEFINE e == [ctl EXCEPT !.sel = d]
    <2>2. /\ DOMAIN e = Fields /\ e.site = ctl.site /\ e.rep = ctl.rep /\ e.sel = d /\ e.sig = ctl.sig
          /\ e.cards = ctl.cards /\ e.base = ctl.base /\ e.rows = ctl.rows /\ e.orders = ctl.orders
          /\ e.last = ctl.last
        BY <1>0 DEF Fields
    <2> HIDE DEF e
    <2>3. Sheet(e)
        BY <1>0, <2>2 DEF Sheet, Drawn
    <2> QED BY <2>1, <2>3, RenderDraws DEF e
<1>3. CASE CtlLeave
    BY <1>0, <1>3, BlankDraws DEF CtlLeave, Sheet
<1>4. CASE CtlPress
    <2>1. PICK v : \/ ctl' = ctl
                   \/ ctl' = [ctl EXCEPT !.badge = 0, !.typed = FALSE, !.dlg = v]
        BY <1>4, Zenon DEF CtlPress
    <2>2. Undrawn(ctl, ctl') /\ ctl'.rep = ctl.rep
        BY <1>0, <2>1 DEF Undrawn, Fields
    <2> QED BY <2>2, UndrawnKeeps
<1>5. CASE CtlType
    <2>1. Undrawn(ctl, ctl') /\ ctl'.rep = ctl.rep
        BY <1>0, <1>5 DEF CtlType, Undrawn, Fields
    <2> QED BY <2>1, UndrawnKeeps
<1>6. CASE CtlCancel
    <2>1. Undrawn(ctl, ctl') /\ ctl'.rep = ctl.rep
        BY <1>0, <1>6 DEF CtlCancel, Undrawn, Fields
    <2> QED BY <2>1, UndrawnKeeps
<1>7. CASE CtlRun
    <2>1. PICK p, s : \/ ctl' = [ctl EXCEPT !.dlg = <<>>]
                      \/ ctl' = [ctl EXCEPT !.dlg = <<>>, !.badge = ctl.last.id]
                      \/ ctl' = [ctl EXCEPT !.busy = TRUE, !.posts = p, !.sent = s]
        BY <1>7, Zenon DEF CtlRun, RunConfirm, Post
    <2>2. Undrawn(ctl, ctl') /\ ctl'.rep = ctl.rep
        BY <1>0, <2>1 DEF Undrawn, Fields
    <2> QED BY <2>2, UndrawnKeeps
<1>8. CASE CtlAnswered
    <2>1. PICK p, w, v : ctl' = [ctl EXCEPT !.posts = p, !.busy = FALSE, !.badge = w, !.dlg = v]
        BY <1>8, Zenon DEF CtlAnswered
    <2>2. Undrawn(ctl, ctl') /\ ctl'.rep = ctl.rep
        BY <1>0, <2>1 DEF Undrawn, Fields
    <2> QED BY <2>2, UndrawnKeeps
<1>9. CASE CtlNote
    <2>1. CASE ctl' = [ctl EXCEPT !.draft = ctl.bound, !.focus = TRUE]
        <3>1. Undrawn(ctl, ctl') /\ ctl'.rep = ctl.rep
            BY <1>0, <2>1 DEF Undrawn, Fields
        <3> QED BY <3>1, UndrawnKeeps
    <2>2. CASE ctl' = RenderDetail([ctl EXCEPT !.focus = FALSE])
        <3>1. LET e == [ctl EXCEPT !.focus = FALSE] IN Undrawn(ctl, e) /\ e.rep = ctl.rep
            BY <1>0 DEF Undrawn, Fields
        <3> QED BY <2>2, <3>1, RedrawKeeps
    <2>3. CASE ctl' = RenderDetail([ctl EXCEPT !.notes[ctl.last.id] = ctl.draft, !.focus = FALSE])
        <3>1. LET e == [ctl EXCEPT !.notes[ctl.last.id] = ctl.draft, !.focus = FALSE]
              IN Undrawn(ctl, e) /\ e.rep = ctl.rep
            BY <1>0 DEF Undrawn, Fields
        <3> QED BY <2>3, <3>1, RedrawKeeps
    <2>4. CASE ctl' = RenderDetail([ctl EXCEPT !.notes[ctl.last.id] = 0, !.draft = 0])
        <3>1. LET e == [ctl EXCEPT !.notes[ctl.last.id] = 0, !.draft = 0] IN Undrawn(ctl, e) /\ e.rep = ctl.rep
            BY <1>0 DEF Undrawn, Fields
        <3> QED BY <2>4, <3>1, RedrawKeeps
    <2> QED BY <1>9, <2>1, <2>2, <2>3, <2>4 DEF CtlNote
<1>10. CASE ctl' = ctl
    BY <1>10
<1> QED BY <1>1, <1>2, <1>3, <1>4, <1>5, <1>6, <1>7, <1>8, <1>9, <1>10 DEF CtlNext

-----------------------------------------------------------------------------
\* What the server judges of the nodes.
LEMMA JudgedNodes ==
    ASSUME NEW d, Derived(d)
    PROVE  /\ DOMAIN Judged(d.nodes) = DOMAIN d.nodes
           /\ \A i \in DOMAIN d.nodes :
                 /\ Judged(d.nodes)[i].normal <=> d.nodes[i].normal /\ ~d.nodes[i].maint
                 /\ Judged(d.nodes)[i].run = d.nodes[i].run
<1>1. DOMAIN Judged(d.nodes) = DOMAIN d.nodes
    BY DEF Judged
<1>2. \A i \in DOMAIN d.nodes : "normal" \in DOMAIN d.nodes[i]
    BY DEF Derived, ToSet
<1>3. ASSUME NEW i \in DOMAIN d.nodes
      PROVE  /\ Judged(d.nodes)[i].normal <=> d.nodes[i].normal /\ ~d.nodes[i].maint
             /\ Judged(d.nodes)[i].run = d.nodes[i].run
    <2> DEFINE n == d.nodes[i]
               v == n.normal /\ ~n.maint
    <2>1. Judged(d.nodes)[i] = [n EXCEPT !.normal = v]
        BY DEF Judged
    <2>2. "normal" \in DOMAIN n
        BY <1>2
    <2>3. [n EXCEPT !.normal = v].normal = v /\ [n EXCEPT !.normal = v].run = n.run
        <3> HIDE DEF n, v
        <3> QED BY <2>2
    <2>4. Judged(d.nodes)[i].normal = v /\ Judged(d.nodes)[i].run = n.run
        <3> HIDE DEF n, v
        <3> QED BY <2>1, <2>3, Zenon
    <2> QED BY <2>4, Zenon
<1> QED BY <1>1, <1>3

\* Nodes that run and are judged normal are green, and no others: what the page
\* shows of a device that has nodes.
LEMMA NodesAsDrawn ==
    ASSUME NEW d, Derived(d), d.nodes # <<>>
    PROVE  /\ DOMAIN NodeRows(d) = 1..Len(d.nodes) /\ Len(NodeRows(d)) = Len(d.nodes)
           /\ {i \in DOMAIN NodeRows(d) : NodeRows(d)[i].tone = "pos"}
                 = {i \in DOMAIN d.nodes : d.nodes[i].run /\ Judged(d.nodes)[i].normal}
<1>1. Len(d.nodes) \in Nat /\ DOMAIN d.nodes = 1..Len(d.nodes)
    BY DEF Derived
<1>2. RawNodes(d) = d.nodes
    BY DEF RawNodes
<1>3. NodeRows(d) = [i \in 1..Len(d.nodes) |-> NodeRow(d, d.nodes[i])]
    BY <1>1, <1>2 DEF NodeRows
<1>4. \A i \in 1..Len(d.nodes) : NodeRow(d, d.nodes[i]).tone = "pos" <=> d.nodes[i].run /\ Judged(d.nodes)[i].normal
    <2> SUFFICES ASSUME NEW i \in 1..Len(d.nodes)
                 PROVE  NodeRow(d, d.nodes[i]).tone = "pos" <=> d.nodes[i].run /\ Judged(d.nodes)[i].normal
        OBVIOUS
    <2> DEFINE n == d.nodes[i]
    <2>1. n # Placeholder
        BY <1>1 DEF Derived, ToSet
    <2>2. Judged(d.nodes)[i].normal <=> n.normal /\ ~n.maint
        <3>1. i \in DOMAIN d.nodes
            BY <1>1
        <3> QED BY <3>1, JudgedNodes, Zenon
    <2>3. NodeRow(d, n).tone = IF n.maint THEN "warn" ELSE Tone(~n.run, ~n.normal, "pos")
        BY <2>1 DEF NodeRow
    <2> HIDE DEF n
    <2>4. NodeRow(d, n).tone = "pos" <=> n.run /\ Judged(d.nodes)[i].normal
        BY <2>2, <2>3 DEF Tone
    <2> QED BY <2>4 DEF n
<1>5. Len(NodeRows(d)) = Len(d.nodes)
    BY <1>1, <1>3
<1> QED BY <1>1, <1>3, <1>4, <1>5

\* What the page of a fault-tolerant device shows is what its nodes are.
LEMMA NeverGreenInVain ==
    ASSUME NEW rep, NEW id, BuildDetail(rep, id) # NoDev, isFT(BuildDetail(rep, id).type),
           Derived(DeviceOf(rep.fleet, id))
    PROVE  LET x == BuildDetail(rep, id)
               good == Cardinality({i \in DOMAIN x.nodes : x.nodes[i].tone = "pos"})
           IN /\ x.status = "pos" => good = Len(x.nodes)
              /\ x.sync = "pos" \/ x.ft = "pos" => good >= 2
              /\ good > 0 => x.ft # "neg"
<1> DEFINE x == BuildDetail(rep, id)
           d == DeviceOf(rep.fleet, id)
           green == {i \in DOMAIN x.nodes : x.nodes[i].tone = "pos"}
           good == Cardinality(green)
<1>1. /\ isFT(d.type) /\ x.nodes = NodeRows(d)
      /\ x.status = (IF isMaint(d) THEN "warn" ELSE StatusTone(d.status))
      /\ x.sync = SyncTone(d) /\ x.ft = FtTone(d)
    BY PageFields
<1>2. Derived(d)
    OBVIOUS
<1>3. Variant(d) \in {"ft", "fts"}
    BY <1>1 DEF isFT, FTTypes, Variant
<1> HIDE DEF x, d
<1>4. /\ x.status = "pos" => d.status \notin {"down", "deg"}
      /\ x.sync = "pos" => d.sync = "sync"
      /\ x.ft = "pos" => d.status # "down" /\ d.sync # "simplex"
      /\ x.ft = "neg" => d.status = "down"
    BY <1>1, <1>3 DEF StatusTone, SyncTone, FtTone, Tone
<1>5. CASE d.nodes = <<>>
    <2>0. Judged(d.nodes) = <<>>
        BY <1>5 DEF Judged
    <2>1. d.status = "down"
        BY <1>2, <2>0 DEF Derived, DeriveStatus
    <2>2. d.sync = "offline"
        BY <1>2, <2>0, <2>1 DEF Derived, DeriveSync
    <2>3. RawNodes(d) = <<Placeholder, Placeholder>>
        BY <1>1, <1>2, <1>5 DEF RawNodes, Derived
    <2>4. NodeRow(d, Placeholder).tone = "neg"
        BY <2>1 DEF NodeRow, Tone
    <2>5. x.nodes = [i \in 1..2 |-> NodeRow(d, Placeholder)]
        BY <1>1, <2>3 DEF NodeRows
    <2>6. green = {}
        BY <2>4, <2>5
    <2>7. good = 0
        BY <2>6, FS_EmptySet
    <2> QED BY <1>4, <2>1, <2>2, <2>7 DEF x
<1>6. CASE d.nodes # <<>>
    <2> DEFINE nodes == Judged(d.nodes)
               S == {i \in DOMAIN d.nodes : d.nodes[i].run /\ nodes[i].normal}
    <2>1. DOMAIN x.nodes = 1..Len(d.nodes) /\ Len(x.nodes) = Len(d.nodes) /\ green = S
        BY <1>1, <1>2, <1>6, NodesAsDrawn
    <2>2. Len(d.nodes) \in Nat /\ DOMAIN d.nodes = 1..Len(d.nodes)
        BY <1>2 DEF Derived
    <2>3. /\ (\A i \in DOMAIN d.nodes : ~d.nodes[i].run) => d.status = "down" /\ d.sync = "offline"
          /\ d.sync = "sync" => Cardinality(S) >= 2
          /\ d.status = "down" => \A i \in DOMAIN d.nodes : ~d.nodes[i].run
          /\ d.status \notin {"down", "deg"} => S = DOMAIN d.nodes
          /\ d.sync \in {"sync", "simplex", "offline"}
          /\ d.sync = "offline" => d.status = "down"
        <3>1. /\ DOMAIN nodes = DOMAIN d.nodes
              /\ \A i \in DOMAIN d.nodes : nodes[i].run = d.nodes[i].run
            BY <1>2, JudgedNodes
        <3>2. {i \in DOMAIN nodes : nodes[i].run /\ nodes[i].normal} = S
            BY <3>1
        <3>3. nodes # <<>>
            BY <1>6, <2>2, <3>1
        <3>4. /\ d.status = DeriveStatus(nodes)
              /\ d.sync = DeriveSync(nodes, d.status) \/ (d.status # "down" /\ d.sync = "simplex")
            BY <1>2 DEF Derived
        <3> HIDE DEF nodes, S
        <3>5. /\ d.status = "down" <=> \A i \in DOMAIN nodes : ~nodes[i].run
              /\ d.status \notin {"down", "deg"} => \A i \in DOMAIN nodes : nodes[i].run /\ nodes[i].normal
            BY <3>4 DEF DeriveStatus
        <3>6. /\ d.sync = "sync" => Cardinality(S) >= 2
              /\ (\A i \in DOMAIN nodes : ~nodes[i].run) => d.sync = "offline"
              /\ d.sync \in {"sync", "simplex", "offline"}
              /\ d.sync = "offline" => \A i \in DOMAIN nodes : ~nodes[i].run
            BY <3>2, <3>3, <3>4, <3>5 DEF DeriveSync
        <3> QED BY <3>1, <3>2, <3>5, <3>6
    <2>4. x.status = "pos" => good = Len(x.nodes)
        <3>1. Cardinality(1..Len(d.nodes)) = Len(d.nodes)
            BY <2>2, FS_Interval
        <3> QED BY <1>4, <2>1, <2>2, <2>3, <3>1
    <2>5. x.sync = "pos" \/ x.ft = "pos" => good >= 2
        BY <1>4, <2>1, <2>3
    <2>6. good > 0 => x.ft # "neg"
        <3>1. S = {} => good = 0
            BY <2>1, FS_EmptySet
        <3> QED BY <1>4, <2>1, <2>3, <3>1
    <2> QED BY <2>4, <2>5, <2>6 DEF x
<1> QED BY <1>5, <1>6

\* Whatever is opened, answered, patched and left in between, the detail page
\* shows what a fresh page would, with the same buttons enabled, and is green
\* only for nodes that run.
THEOREM DetailAlwaysTrue == CtlInit /\ [][CtlNext]_ctl => []DetailIsTrue
<1> DEFINE Inv == DrawnInv(ctl)
<1>1. CtlInit => Inv
    BY DrawingStarts
<1>2. Inv /\ [CtlNext]_ctl => Inv'
    BY DrawingKeeps
<1>3. Inv => PatchedIsFresh
    <2> SUFFICES ASSUME Inv PROVE PatchedIsFresh
        OBVIOUS
    <2> DEFINE nodes == NodesOf(ctl.last)
    <2>1. ~Hidden => Drawn(ctl) /\ ctl.last = BuildDetail(Rep(ctl), ctl.sel)
        BY DEF DrawnInv, Sheet, Unseen, Hidden
    <2>2. ~Hidden => RowsDrawn(ctl.rows, ctl.orders, nodes)
        BY <2>1 DEF Drawn
    <2>3. ~Hidden /\ ~Reordered => \A i \in DOMAIN nodes : ctl.rows[i] = FreshRow(nodes[i])
        <3>1. ~Reordered => ctl.orders = {Order(nodes)}
            BY DEF Reordered
        <3> HIDE DEF nodes
        <3> QED BY <2>2, <3>1, RowsOfOneOrder
    <2>4. ~Hidden => \A i \in DOMAIN nodes : \E o \in ctl.orders :
                        ctl.rows[i] = [FreshRow(nodes[i]) EXCEPT !.target = o[i]]
        <3>1. \A i \in DOMAIN nodes : \A v :
                 [FreshRow(nodes[i]) EXCEPT !.target = v] = [mode |-> NodeMode(nodes[i]), target |-> v]
            BY DEF FreshRow
        <3> HIDE DEF nodes
        <3>2. SUFFICES ASSUME ~Hidden, NEW i \in DOMAIN nodes
                       PROVE  \E o \in ctl.orders : ctl.rows[i] = [FreshRow(nodes[i]) EXCEPT !.target = o[i]]
            OBVIOUS
        <3>3. PICK o \in ctl.orders : ctl.rows[i] = [mode |-> NodeMode(nodes[i]), target |-> o[i]]
            BY <2>2, <3>2 DEF RowsDrawn
        <3>4. ctl.rows[i] = [FreshRow(nodes[i]) EXCEPT !.target = o[i]]
            BY <3>1, <3>3
        <3> QED BY <3>4
    <2> QED BY <2>1, <2>2, <2>3, <2>4 DEF Drawn, RowsDrawn, PatchedIsFresh
<1>4. Inv => NoFalseGreen
    <2> SUFFICES ASSUME Inv, ~Hidden, isFT(ctl.last.type)
                 PROVE  LET x == ctl.last
                            good == Cardinality({i \in DOMAIN x.nodes : x.nodes[i].tone = "pos"})
                        IN /\ x.status = "pos" => good = Len(x.nodes)
                           /\ x.sync = "pos" \/ x.ft = "pos" => good >= 2
                           /\ good > 0 => x.ft # "neg"
        BY Zenon DEF NoFalseGreen
    <2> DEFINE rep == Rep(ctl)
               e == DeviceOf(rep.fleet, ctl.sel)
    <2>0. ctl.last = BuildDetail(rep, ctl.sel) /\ BuildDetail(rep, ctl.sel) # NoDev
        BY DEF DrawnInv, Unseen, Hidden
    <2>1. e \in ToSet(rep.fleet)
        <3>1. e # NoDev
            BY <2>0, DeviceFound
        <3> QED BY <3>1 DEF DeviceOf, ToSet
    <2>2. isFT(e.type)
        <3>1. BuildDetail(rep, ctl.sel).type = e.type
            BY <2>0, TypeShown
        <3> HIDE DEF e
        <3> QED BY <2>0, <3>1
    <2>3. Derived(e)
        BY <2>1, <2>2, SitesAssumption DEF Rep, DrawnInv, Sheet
    <2>4. isFT(BuildDetail(rep, ctl.sel).type)
        BY <2>0
    <2> QED BY <2>0, <2>3, <2>4, NeverGreenInVain
<1> QED BY <1>1, <1>2, <1>3, <1>4, PTL DEF DetailIsTrue

=============================================================================
