------------------------------ MODULE PollLoop ------------------------------
(***************************************************************************)
(* What the poll loop of the console promises, whatever requests overlap   *)
(* inside it: one loop that asks, waits and asks again while the console   *)
(* is open in a visible tab, and that ends only by being hidden or left.   *)
(* ConsolePoll is shown to implement it.                                   *)
(***************************************************************************)
VARIABLES
    open,     \* the console is on the screen
    chain     \* "asking", "waiting" (for the next poll) or "none"

loopVars == <<open, chain>>

Init == open \in BOOLEAN /\ chain = IF open THEN "asking" ELSE "none"

\* The wait is over, or the operator asked for an answer at once.
Ask == open /\ chain = "waiting" /\ chain' = "asking" /\ UNCHANGED open

\* An answer or a failure: the next poll is scheduled.
Settle == chain = "asking" /\ chain' = "waiting" /\ UNCHANGED open

\* The tab is hidden: no poll is scheduled, one in flight ends on its own.
Close == open /\ open' = FALSE /\ chain' = IF chain = "waiting" THEN "none" ELSE chain

\* A wait that ends in a hidden tab ends the loop.
Lapse == ~open /\ chain = "waiting" /\ chain' = "none" /\ UNCHANGED open

\* The tab comes back, or the page is loaded again: the loop starts by asking.
Open == ~open /\ open' = TRUE /\ chain' = "asking"

\* The session has ended: the page is left at once.
Leave == open' = FALSE /\ chain' = "none"

Next == Ask \/ Settle \/ Close \/ Lapse \/ Open \/ Leave

Spec == Init /\ [][Next]_loopVars

\* The console on the screen always has a running loop.
NeverIdle == open => chain # "none"
=============================================================================
