--------------------------- MODULE ConsoleStatus ----------------------------
(***************************************************************************)
(* How the browser console rates the data it shows: the badge of the rail  *)
(* (collectionState of util/ui_state.js) and the banner (renderBanner of   *)
(* app.js).  A console record c has the fields                             *)
(*   polled  lastPoll # 0: an answer has been received                     *)
(*   age     ticks since lastPoll, saturating above StaleAfter             *)
(*   err, stale, pending   liveError # null, stale, pollPending            *)
(*   sample  sampleMode or demoMode                                        *)
(*   uiErr   a screen could not be shown                                   *)
(***************************************************************************)
EXTENDS Naturals

CONSTANT StaleAfter      \* 3 * refreshSec, in ticks

ASSUME StaleAssumption == StaleAfter \in Nat

\* computeStale: a failed answer, or a last success longer ago than three
\* refresh periods.
ComputeStale(c) == c.err \/ (c.polled /\ c.age > StaleAfter)

\* isSampleMode
IsSampleMode(c) == c.sample

\* collectionState: the one state the badge may advertise.
CollectionState(c) ==
    CASE c.pending /\ ~c.polled /\ ~c.err /\ ~c.uiErr -> "connecting"
      [] c.uiErr \/ (~c.polled /\ (c.err \/ ~c.pending)) -> "offline"
      [] OTHER ->
           IF c.err \/ c.stale \/ (c.polled /\ c.age > StaleAfter) THEN "stale"
           ELSE IF IsSampleMode(c) /\ c.polled THEN "sample" ELSE "live"

\* renderBanner: whether the banner is on, given whether the operator closed
\* it after the last attempt.  A sample banner cannot be closed.
BannerOn(c, closed) ==
    IsSampleMode(c) \/ c.uiErr \/ ((c.err \/ c.stale) /\ ~closed)
=============================================================================
