----------------------------- MODULE ConsoleNav -----------------------------
(***************************************************************************)
(* Routing and screens of the browser console (app.js): the address bar    *)
(* and the browser's history, the part of the store that says what is      *)
(* shown, and the screen modules that are loaded, mounted and destroyed    *)
(* asynchronously.  Every setState renders the shell at once, and that     *)
(* render writes the address (syncHash) and asks for the screen            *)
(* (swapView); both are therefore part of every action that sets state.    *)
(***************************************************************************)
EXTENDS Naturals, Sequences, FiniteSets, Functions

CONSTANTS
    Screens,      \* keys of SCREENS without "detail" (it has its own rules)
    Devices,      \* device ids that may appear in an address
    Addresses,    \* what an operator may type, bookmark or be sent: addresses
                  \* the console writes itself, old and unknown ones
    Flaky,        \* screens whose module may fail to load or to start
    MaxHist,      \* entries of the browser's history (bound)
    MaxLoads      \* loads in flight (bound)

ASSUME NavAssumption ==
    /\ {"overview", "incidents"} \subseteq Screens /\ {"detail", "logs"} \cap Screens = {}
    /\ {"", "none"} \cap Devices = {}
    /\ \A a \in Addresses : /\ {"seg", "arg"} \subseteq DOMAIN a
                            /\ a.seg = "detail" => a.arg \in Devices \cup {""}
    /\ MaxHist \in Nat /\ MaxLoads \in Nat

VARIABLES
    hist, pos,    \* the history and the entry the address bar shows
    st,           \* view, selected, originView, alertView
    fleet,        \* ids of the fleet, empty before the first answer
    settled,      \* dataSettled: the first pull has ended
    want,         \* wantKey: the screen asked for last
    loads,        \* screen -> loads awaited in swapView
    cache,        \* moduleCache, of the screens that may fail
    mounted,      \* mountedKey, and whether the placeholder stands in
    live,         \* screens initialised and not destroyed
    uiErr         \* uiError # null

shown == <<want, loads, cache, mounted, live, uiErr>>
navVars == <<hist, pos, st, fleet, settled, want, loads, cache, mounted, live, uiErr>>

NoSel == "none"
Keys  == Screens \cup {"detail"}
Tabs  == {"cards", "log", "stats"}

Hash(seg, arg) == [seg |-> seg, arg |-> arg]

Route(view, sel, tab) == [view |-> view, sel |-> sel, tab |-> tab]

-----------------------------------------------------------------------------
(* Address and state.                                                      *)

\* parseHash; tab "" leaves alertView alone.
ParseHash(h) ==
    CASE h.seg = "logs"      -> Route("incidents", NoSel, "log")
      [] h.seg = "incidents" -> Route("incidents", NoSel,
                                      IF h.arg = "stats" THEN "stats" ELSE "cards")
      [] h.seg = "detail" /\ h.arg # "" -> Route("detail", h.arg, "")
      [] h.seg \in Screens \ {"incidents"} -> Route(h.seg, NoSel, "")
      [] OTHER               -> Route("overview", NoSel, "")

\* hashOf
HashOf(s) ==
    IF s.view = "detail" THEN Hash("detail", IF s.sel = NoSel THEN "" ELSE s.sel)
    ELSE IF s.view = "incidents" /\ s.tab = "log" THEN Hash("logs", "")
    ELSE IF s.view = "incidents" /\ s.tab = "stats" THEN Hash("incidents", "stats")
    ELSE Hash(s.view, "")

\* resolveRoute: once there is a fleet, an unknown device leads to overview.
ResolveRoute(r, ready, ids) ==
    IF r.view = "detail" /\ ready /\ ids # {} /\ r.sel \notin ids
    THEN Route("overview", NoSel, "") ELSE r

\* The state a route asks for (applyHash, boot).
Apply(s, r) ==
    [view |-> r.view, sel |-> r.sel,
     origin |-> IF r.view = "detail" THEN s.origin ELSE r.view,
     tab |-> IF r.tab = "" THEN s.tab ELSE r.tab]

\* syncHash: a new entry, dropping the ones ahead, if the address differs.
SyncHash(s) ==
    IF hist[pos] = HashOf(s) THEN UNCHANGED <<hist, pos>>
    ELSE /\ pos < MaxHist
         /\ hist' = Append(SubSeq(hist, 1, pos), HashOf(s))
         /\ pos' = pos + 1

-----------------------------------------------------------------------------
(* Screens.                                                                *)

Loads == FoldFunction(+, 0, loads)

\* Mutant: a screen that is still being loaded is not asked for again.
Mut_AskOnce(view) ==
    IF view = want \/ loads[view] > 0 THEN UNCHANGED <<want, loads>>
    ELSE Loads < MaxLoads /\ want' = view /\ loads' = [loads EXCEPT ![view] = @ + 1]

\* render: ask for the screen if it is not the one asked for already.
AskFor(view) ==
    IF view = want THEN UNCHANGED <<want, loads>>
    ELSE /\ Loads < MaxLoads
         /\ want' = view
         /\ loads' = [loads EXCEPT ![view] = @ + 1]

\* setState with a route: the store, the address and the screen.
SetState(s) ==
    /\ st' = s /\ SyncHash(s) /\ AskFor(s.view)
    /\ UNCHANGED <<fleet, settled, cache, mounted, live, uiErr>>

\* boot: the address opened with, and the first render.
Boot(a) ==
    LET r == ParseHash(a)
        s == Apply([view |-> "overview", sel |-> NoSel, origin |-> "overview", tab |-> "cards"], r)
    IN /\ st = s
       /\ hist = IF a = HashOf(s) THEN <<a>> ELSE <<a, HashOf(s)>>
       /\ pos = Len(hist)
       /\ fleet = {} /\ settled = FALSE
       /\ want = s.view /\ loads = [k \in Keys |-> IF k = s.view THEN 1 ELSE 0]
       /\ cache = {} /\ mounted = [key |-> "none", real |-> FALSE]
       /\ live = {} /\ uiErr = FALSE

NavInit == \E a \in Addresses : Boot(a)

\* Mutant: a screen that is not wanted any more is mounted all the same.
Mut_MountAnyway(k, outcome) ==
    /\ loads[k] > 0 /\ loads' = [loads EXCEPT ![k] = @ - 1]
    /\ (outcome # "ok" => k \in Flaky) /\ (outcome = "import" => k \notin cache)
    /\ cache' = IF outcome = "import" THEN cache ELSE cache \cup ({k} \cap Flaky)
    /\ mounted' = [key |-> k, real |-> outcome \notin {"import", "init"}]
    /\ live' = IF outcome \in {"import", "init"} THEN {} ELSE {k}
    /\ uiErr' = (uiErr \/ outcome \in {"init", "render"})
    /\ UNCHANGED <<hist, pos, st, fleet, settled, want>>

\* swapView after its await.  A screen overtaken by another request is
\* dropped; otherwise the mounted one is destroyed, the new one initialised
\* and rendered.  A failed import is not cached and a failed init is replaced
\* by the placeholder.
Loaded(k, outcome) ==
    /\ loads[k] > 0 /\ loads' = [loads EXCEPT ![k] = @ - 1]
    /\ outcome # "ok" => k \in Flaky
    /\ outcome = "import" => k \notin cache
    /\ cache' = IF outcome = "import" THEN cache ELSE cache \cup ({k} \cap Flaky)
    /\ IF want # k THEN UNCHANGED <<mounted, live, uiErr>>
       ELSE LET real == outcome \notin {"import", "init"} IN
            /\ mounted' = [key |-> k, real |-> real]
            /\ live' = (IF mounted.real THEN live \ {mounted.key} ELSE live)
                          \cup (IF real THEN {k} ELSE {})
            /\ uiErr' = (uiErr \/ outcome \in {"init", "render"})
    /\ UNCHANGED <<hist, pos, st, fleet, settled, want>>

\* renderActive: the mounted screen fails to render, which is reported.
RenderFails ==
    /\ mounted.real /\ mounted.key \in Flaky /\ ~uiErr /\ mounted.key = st.view
    /\ uiErr' = TRUE
    /\ UNCHANGED <<hist, pos, st, fleet, settled, want, loads, cache, mounted, live>>

\* retryPull: forget the module, load the screen again.
Retry ==
    /\ uiErr /\ uiErr' = FALSE
    /\ cache' = cache \ {mounted.key}
    /\ Loads < MaxLoads
    /\ want' = st.view /\ loads' = [loads EXCEPT ![st.view] = @ + 1]
    /\ SyncHash(st)
    /\ UNCHANGED <<st, fleet, settled, mounted, live>>

\* dismissBanner
Dismiss ==
    /\ uiErr /\ uiErr' = FALSE /\ SyncHash(st)
    /\ UNCHANGED <<st, fleet, settled, want, loads, cache, mounted, live>>

-----------------------------------------------------------------------------
(* Moving about.                                                           *)

GoView(k) == SetState([st EXCEPT !.view = k, !.sel = NoSel, !.origin = k])

GoDetail(d) ==
    SetState([st EXCEPT !.view = "detail", !.sel = d,
                        !.origin = IF st.view = "detail" THEN @ ELSE st.view])

GoBack == st.view = "detail" /\ SetState([st EXCEPT !.view = st.origin, !.sel = NoSel])

\* The tabs of the alerts screen.
SetTab(t) == st.view = "incidents" /\ SetState([st EXCEPT !.tab = t])

\* goIncidents, the bell: first the tab, then the view, each with its render.
\* On another screen the first render writes no address.
Bell ==
    IF st.view = "incidents" THEN SetState([st EXCEPT !.tab = "cards", !.origin = "incidents"])
    ELSE SetState([view |-> "incidents", sel |-> NoSel, origin |-> "incidents", tab |-> "cards"])

\* Any other setState (tick, poll, toast): the shell renders.
Render ==
    /\ hist[pos] # HashOf(st) /\ SyncHash(st)
    /\ UNCHANGED <<st, fleet, settled>> /\ UNCHANGED shown

\* applyHash for the address h at entry p of history w: while it sets the
\* state no entry is pushed; a redirected address is corrected in place.
ApplyHash(w, p, ready, ids) ==
    LET parsed == ParseHash(w[p])
        r == ResolveRoute(parsed, ready, ids)
        s == Apply(st, r)
    IN /\ st' = IF <<s.view, s.sel, s.tab>> = <<st.view, st.sel, st.tab>> THEN st ELSE s
       /\ hist' = IF <<r.view, r.sel>> # <<parsed.view, parsed.sel>>
                  THEN [w EXCEPT ![p] = HashOf(s)] ELSE w
       /\ pos' = p
       /\ AskFor(st'.view)

\* Back and Forward of the browser (popstate, hashchange).
Travel(p) ==
    /\ p \in {pos - 1, pos + 1} /\ p \in 1..Len(hist)
    /\ ApplyHash(hist, p, settled, fleet)
    /\ UNCHANGED <<fleet, settled, cache, mounted, live, uiErr>>

\* An address is typed or a link is followed (hashchange).
Enter(a) ==
    /\ a # hist[pos] /\ pos < MaxHist
    /\ ApplyHash(Append(SubSeq(hist, 1, pos), a), pos + 1, settled, fleet)
    /\ UNCHANGED <<fleet, settled, cache, mounted, live, uiErr>>

\* A pull ends.  The patch renders; the first end, of a failure too, turns
\* the check of deep links on and applies the address once more.
PullEnds(ids) ==
    /\ ids # fleet \/ ~settled
    /\ fleet' = ids /\ settled' = TRUE
    /\ IF settled THEN SyncHash(st) /\ UNCHANGED <<st, want, loads>>
       ELSE ApplyHash(hist, pos, TRUE, ids)
    /\ UNCHANGED <<cache, mounted, live, uiErr>>

\* doDelete after its await: the device goes from the fleet, and from the selection when
\* the operator has come back to its page meanwhile; the view stays.
DeviceDeleted(d) ==
    /\ d \in fleet /\ fleet' = fleet \ {d}
    /\ st' = IF st.sel = d THEN [st EXCEPT !.sel = NoSel] ELSE st
    /\ SyncHash(st') /\ AskFor(st'.view)
    /\ UNCHANGED <<settled, cache, mounted, live, uiErr>>

NavNext ==
    \/ \E k \in Keys : \E o \in {"ok", "import", "init", "render"} : Loaded(k, o)
    \/ RenderFails \/ Retry \/ Dismiss \/ GoBack \/ Bell \/ Render
    \/ \E k \in Screens : GoView(k)
    \/ \E d \in Devices : GoDetail(d) \/ DeviceDeleted(d)
    \/ \E t \in Tabs : SetTab(t)
    \/ \E p \in 1..MaxHist : Travel(p)
    \/ \E a \in Addresses : Enter(a)
    \/ \E ids \in SUBSET Devices : PullEnds(ids)

NavSpec == NavInit /\ [][NavNext]_navVars

\* An awaited module load ends, well or badly.
NavFairness == \A k \in Keys :
    WF_navVars(\E o \in {"ok", "import", "init", "render"} : Loaded(k, o))

NavFairSpec == NavSpec /\ NavFairness
-----------------------------------------------------------------------------
NavTypeOK ==
    /\ pos \in 1..Len(hist) /\ \A i \in DOMAIN hist : DOMAIN hist[i] = {"seg", "arg"}
    /\ st \in [view : Keys, sel : Devices \cup {NoSel}, origin : Screens, tab : Tabs]
    /\ st.sel # NoSel => st.view = "detail"
    /\ fleet \subseteq Devices /\ settled \in BOOLEAN
    /\ want \in Keys /\ loads \in [Keys -> 0..MaxLoads]
    /\ cache \subseteq Keys /\ live \subseteq Keys /\ uiErr \in BOOLEAN
    /\ mounted \in [key : Keys \cup {"none"}, real : BOOLEAN]

\* The device of the detail page was deleted while the page was shown (manage.js:1656).
Unselected(s) == s.view = "detail" /\ s.sel = NoSel

\* Whether an address leads to the state s.
Describes(h, s) ==
    LET r == ParseHash(h) IN
    /\ r.tab # "" => r.tab = s.tab
    /\ IF Unselected(s) THEN h = HashOf(s) ELSE r.view = s.view /\ r.sel = s.sel

\* The address always describes what is shown, so that a reload, a bookmark
\* and Back lead to the same screen, device and tab.  Left out is the detail page
\* without a selection: its address is read as the overview.
AddressIsState == Describes(hist[pos], st)

\* When nothing is being loaded the mounted screen, or the placeholder in its stead, is
\* that of the view the state asks for, and it alone is initialised.
MountedIsCurrent ==
    (\A k \in Keys : loads[k] = 0) =>
        /\ mounted.key = st.view
        /\ live = IF mounted.real THEN {mounted.key} ELSE {}

\* The address, the state and the mounted screen say the same.
AddressHolds == AddressIsState /\ MountedIsCurrent

\* However often the operator changes his mind, the screen he stays on is
\* mounted in the end.
ScreenArrives == \A k \in Keys : <>[](st.view = k) => <>[](mounted.key = k)
=============================================================================
